---------------------------- MODULE ServiceProofs ----------------------------
(***************************************************************************)
(* The safety properties of Service and ServiceCrash, for every set of     *)
(* requests, workers and keys, every capacity of the queue, every way to   *)
(* assign idempotency keys and every sequence of retry limits.             *)
(*                                                                         *)
(* One inductive invariant, ServiceInv, carries all of them: who may write *)
(* to a row at any moment, and what the row says by then.                  *)
(***************************************************************************)
EXTENDS ServiceCrash, QueueProofs

-----------------------------------------------------------------------------
(* The inductive invariant.                                                *)

\* A request that somebody is going to process: it has a row, the row is not
\* final, no call of it has succeeded, and there is an attempt left.
Open(r) == /\ row[r].status \in {"pending", "processing"}
           /\ row[r].attempts < MaxAttempts /\ oks[r] = 0

\* A worker has an item, a step and a loaded count while it is in processItem
\* and at no other time; it never has two keys.
WorkersInv ==
  \A w \in Workers :
    /\ worker[w] = "busy" <=> held[w] # None
    /\ worker[w] # "busy" => step[w] = "load"
    /\ step[w] = "load" => loaded[w] = 0
    /\ \A k, l \in Keys : w \in holders[k] /\ w \in holders[l] => k = l

\* What waits for a worker, on a timer, in the queue or in its handler, is open.
WaitingInv ==
  \A r \in Items : r \in timers \/ r \in pq \/ r = hand \/ api[r] = "saved" => Open(r)

\* What a worker knows about the row of its item.  The row may lag behind by the
\* attempt under way, because the error of UpdateRequestStatus is ignored.
Knows(w) ==
  /\ row[held[w]].status \in {"pending", "processing"}
  /\ oks[held[w]] = IF step[w] = "success" THEN 1 ELSE 0
  /\ step[w] = "load" => row[held[w]].attempts < MaxAttempts
  /\ step[w] # "load" => loaded[w] < MaxAttempts
  /\ step[w] \in {"key", "mark"} => row[held[w]].attempts = loaded[w]
  /\ step[w] \notin {"load", "key", "mark"} =>
       row[held[w]].attempts \in {loaded[w], loaded[w] + 1}

ProcessingInv == \A w \in Workers : worker[w] = "busy" => Knows(w)

\* What the table says of requests that have no row, and of idempotency keys.
TableInv ==
  /\ \A r \in Items : api[r] \in {"new", "checked"} => row[r].status = "none"
  /\ \A r \in Items : row[r].status = "none" => calls[r] = 0 /\ oks[r] = 0
  /\ \A r, s \in Items : r # s /\ idem[r] = idem[s] /\ idem[r] # NoIdem =>
                           row[r].status = "none" \/ row[s].status = "none"

\* What the request's own variables satisfy, given the queue's.
RequestInv == /\ ServiceTypeOK /\ OneOwner /\ WorkersInv /\ WaitingInv
              /\ ProcessingInv /\ TableInv /\ ResultIsTrue

ServiceInv == OnePlace /\ RequestInv

-----------------------------------------------------------------------------
\* The largest limit is one of the limits.
LEMMA MaxAttemptsIsMax ==
  /\ MaxAttempts \in AttemptLimits /\ MaxAttempts \in Nat \ {0}
  /\ \A n \in AttemptLimits : n \in Nat /\ n <= MaxAttempts
<1>1. MaxAttempts \in AttemptLimits /\ \A n \in AttemptLimits : n <= MaxAttempts
  BY AttemptsAssumption, Zenon DEF MaxAttempts
<1> QED BY <1>1, AttemptsAssumption

\* Every step of the service is a step of the queue, or leaves the queue alone:
\* what is offered to it, by a handler or by a timer, is nowhere else.
LEMMA StepOfQueue ==
  ASSUME OneOwner, ServiceNext
  PROVE  [Next]_vars
<1>1. ASSUME NEW r \in Items, Submit(r) PROVE [Next]_vars
  <2>1. CASE Check(r) \/ Save(r)
    BY <2>1 DEF Check, Save
  <2>2. CASE Offer(r)
    BY <2>2 DEF Offer, OneOwner, Enqueue, Next
  <2> QED BY <1>1, <2>1, <2>2 DEF Submit
<1>2. ASSUME NEW r \in Items, RetryTimer(r) PROVE [Next]_vars
  <2>1. CASE TimerFires(r)
    BY <2>1 DEF TimerFires, OneOwner, Enqueue, Next
  <2>2. CASE TimerCancelled(r)
    BY <2>2 DEF TimerCancelled
  <2> QED BY <1>2, <2>1, <2>2 DEF RetryTimer
<1>3. CASE QueueStep \/ Stop \/ Close
  BY <1>3 DEF QueueStep, Stop, Close, Next
<1>4. ASSUME NEW w \in Workers, WorkerLoop(w) PROVE [Next]_vars
  <2>1. CASE Park(w) \/ WorkerExit(w)
    BY <2>1 DEF Next, WorkerStep
  <2>2. CASE ProcessItem(w)
    <3>1. UNCHANGED vars \/ Finish(w)
      BY <2>2 DEF ProcessItem, Load, KeyFound, NoKeyFound, Mark, CallFails, Call, Settle,
                  HandleFailure, Goto, Return
    <3> QED BY <3>1 DEF Next, WorkerStep
  <2> QED BY <1>4, <2>1, <2>2 DEF WorkerLoop
<1> QED BY <1>1, <1>2, <1>3, <1>4 DEF ServiceNext

-----------------------------------------------------------------------------
(* What the steps of the queue do to the places of a request.              *)

\* The steps of the queue in which no item enters or is let go of.
Handover == \/ Dispatcher \/ CloseMark \/ CloseSignal \/ RootCancel
            \/ \E w \in Workers : Park(w) \/ WorkerExit(w)

\* Items move from the heap to the hand to a worker that had none, or get lost;
\* a worker in processItem is left alone.
ItemsMove ==
  /\ pq' \subseteq pq /\ hand' \in pq \cup {hand, None}
  /\ lost' \subseteq lost \cup pq \cup {hand}
  /\ \A w \in Workers :
       \/ worker[w] = "busy" /\ worker'[w] = "busy" /\ held'[w] = held[w]
       \/ worker[w] # "busy" /\ worker'[w] # "busy" /\ held'[w] = held[w]
       \/ worker[w] # "busy" /\ worker'[w] = "busy" /\ held'[w] \in (pq \cup {hand}) \ {None}

\* Which is all that the dispatcher, Close, rootCancel and the select of
\* Worker.Start do.
LEMMA HandoverMoves ==
  ASSUME TypeOK, WorkersInv, Handover
  PROVE  ItemsMove
<1> USE ItemsAssumption DEF TypeOK, WorkersInv, dispatchVars, workerVars, WorkerStates, ItemsMove
<1>1. CASE TakeNotify \/ TakeDone \/ PopEmpty \/ DrainDone
  BY <1>1 DEF TakeNotify, TakeDone, PopEmpty, DrainDone
<1>2. CASE Pop
  BY <1>2 DEF Pop, PopItem, Front
<1>3. ASSUME NEW w \in Workers, Deliver(w)
      PROVE  ItemsMove
  BY <1>3 DEF Deliver, Receive
<1>4. CASE Abandon
  BY <1>4 DEF Abandon
<1>5. CASE DrainOne
  BY <1>5 DEF DrainOne, PopItem, Front, Receive
<1>6. CASE CloseMark \/ CloseSignal
  BY <1>6 DEF CloseMark, CloseSignal
<1>7. CASE RootCancel
  BY <1>7 DEF RootCancel
<1>8. CASE \E w \in Workers : Park(w) \/ WorkerExit(w)
  BY <1>8 DEF Park, WorkerExit
<1> QED BY <1>1, <1>2, <1>3, <1>4, <1>5, <1>6, <1>7, <1>8 DEF Handover, Dispatcher

\* A move of items in the queue keeps the invariant of the requests: what a
\* worker receives is open, and it begins with the load.
LEMMA HandoverKeeps ==
  ASSUME ServiceInv, Handover, UNCHANGED requestVars, TypeOK'
  PROVE  RequestInv'
<1> USE DEF ServiceInv, RequestInv, requestVars
<1>1. TypeOK /\ ItemsMove
  BY HandoverMoves DEF ServiceTypeOK
<1>2. ServiceTypeOK'
  <2>1. \A w \in Workers : worker'[w] = "busy" /\ step[w] \in {"mark", "call"}
                             <=> worker[w] = "busy" /\ step[w] \in {"mark", "call"}
    BY <1>1 DEF ItemsMove, WorkersInv
  <2>2. \A w \in Workers : Slots!HasKey(w)' <=> Slots!HasKey(w)
    BY DEF Slots!HasKey
  <2> QED BY <2>1, <2>2 DEF ServiceTypeOK
<1>3. OneOwner'
  BY <1>1, ItemsAssumption DEF OneOwner, Outside, ItemsMove, TypeOK
<1>4. WorkersInv'
  BY <1>1 DEF WorkersInv, ItemsMove
<1>5. WaitingInv'
  BY <1>1, ItemsAssumption DEF WaitingInv, Open, ItemsMove
<1>6. ProcessingInv'
  <2> SUFFICES ASSUME NEW w \in Workers, worker'[w] = "busy", worker[w] # "busy"
               PROVE  step[w] = "load" /\ Open(held'[w])
    BY <1>1 DEF ProcessingInv, Knows, Open, ItemsMove
  <2> QED BY <1>1 DEF WorkersInv, WaitingInv, ItemsMove, TypeOK
<1>7. TableInv' /\ ResultIsTrue'
  BY DEF TableInv, ResultIsTrue
<1> QED BY <1>2, <1>3, <1>4, <1>5, <1>6, <1>7

\* An enqueue puts its item into the heap or among the lost, and nothing else
\* but one evicted item moves.
LEMMA EnqueueMoves ==
  ASSUME TypeOK, NEW r \in Items, Enqueue(r)
  PROVE  /\ pq' \subseteq pq \cup {r} /\ lost' \subseteq lost \cup pq \cup {r}
         /\ UNCHANGED <<hand, worker, held, ctxDone>>
<1>1. pq' \subseteq pq \cup {r} /\ lost' \subseteq lost \cup pq \cup {r}
  BY EnqueueHeap
<1> QED BY <1>1 DEF Enqueue, EnqueueCall, dispatchVars, workerVars

\* A handler or a timer that hands its request to the queue gives it up, so it
\* keeps having one owner.
LEMMA EnqueueKeeps ==
  ASSUME ServiceInv, TypeOK', NEW r \in Items, Offer(r) \/ TimerFires(r)
  PROVE  RequestInv'
<1> USE DEF ServiceInv, RequestInv
<1>1. Enqueue(r) /\ Open(r) /\ UNCHANGED <<idem, row, step, loaded, holders, calls, oks>>
  BY DEF Offer, TimerFires, Enqueue, OneOwner, WaitingInv
<1>2. /\ TypeOK /\ pq' \subseteq pq \cup {r} /\ lost' \subseteq lost \cup pq \cup {r}
      /\ UNCHANGED <<hand, worker, held>>
  BY <1>1, EnqueueMoves DEF ServiceTypeOK
<1>3. \/ api[r] = "saved" /\ timers' = timers
         /\ api' = [api EXCEPT ![r] = IF r \in pq' THEN "accepted" ELSE "refused"]
      \/ r \in timers /\ timers' = timers \ {r} /\ api' = api
  BY DEF Offer, TimerFires
<1>4. /\ api' \in [Items -> {"new", "checked", "existing", "saved", "accepted", "refused"}]
      /\ timers' \subseteq Items /\ r \notin timers'
      /\ api'[r] \notin {"new", "checked", "saved"}
      /\ \A s \in Items \ {r} : api'[s] = api[s] /\ (s \in timers' <=> s \in timers)
  BY <1>3 DEF ServiceTypeOK, OneOwner
<1>5. ServiceTypeOK'
  BY <1>1, <1>2, <1>4 DEF ServiceTypeOK, Slots!HasKey
<1>6. OneOwner'
  BY <1>2, <1>4 DEF OneOwner, Outside
<1>7. WorkersInv'
  BY <1>1, <1>2 DEF WorkersInv
<1>8. WaitingInv'
  BY <1>1, <1>2, <1>4 DEF WaitingInv, Open
<1>9. ProcessingInv' /\ ResultIsTrue'
  BY <1>1, <1>2 DEF ProcessingInv, Knows, ResultIsTrue
<1>10. TableInv'
  BY <1>1, <1>4 DEF TableInv
<1> QED BY <1>5, <1>6, <1>7, <1>8, <1>9, <1>10

-----------------------------------------------------------------------------
(* The handler before it enqueues, and a cancelled timer.                  *)

\* The idempotency check writes nothing but the handler's own state.
LEMMA CheckKeeps ==
  ASSUME ServiceInv, NEW r \in Items, Check(r)
  PROVE  RequestInv'
<1> USE DEF ServiceInv, RequestInv
<1>1. UNCHANGED <<vars, idem, row, step, loaded, holders, timers, calls, oks>>
  BY DEF Check
<1>2. /\ api[r] = "new"
      /\ \E a \in {"checked", "existing", "refused"} : api' = [api EXCEPT ![r] = a]
  BY DEF Check
<1>3. ServiceTypeOK'
  BY <1>1, <1>2 DEF ServiceTypeOK, Slots!HasKey, TypeOK, vars
<1>4. OneOwner' /\ WaitingInv' /\ TableInv'
  BY <1>1, <1>2 DEF ServiceTypeOK, OneOwner, Outside, WaitingInv, Open, TableInv, vars
<1>5. WorkersInv' /\ ProcessingInv' /\ ResultIsTrue'
  BY <1>1 DEF WorkersInv, ProcessingInv, Knows, ResultIsTrue, vars
<1> QED BY <1>3, <1>4, <1>5

\* The insert gives a request that had none an open row, and the UNIQUE column
\* refuses a second row of an idempotency key although the check is older.
LEMMA SaveKeeps ==
  ASSUME ServiceInv, NEW r \in Items, Save(r)
  PROVE  RequestInv'
<1> USE DEF ServiceInv, RequestInv
<1>1. UNCHANGED <<vars, idem, step, loaded, holders, timers, calls, oks>>
  BY DEF Save
<1>2. /\ api[r] = "checked" /\ row[r].status = "none" /\ Outside(r) /\ r \notin timers
      /\ oks[r] = 0 /\ calls[r] = 0
  BY DEF Save, OneOwner, TableInv
<1>3. CASE api' = [api EXCEPT ![r] = "refused"] /\ UNCHANGED row
  <2>1. ServiceTypeOK'
    BY <1>1, <1>3 DEF ServiceTypeOK, Slots!HasKey, TypeOK, vars
  <2>2. OneOwner' /\ WaitingInv' /\ TableInv'
    BY <1>1, <1>2, <1>3 DEF ServiceTypeOK, OneOwner, Outside, WaitingInv, Open, TableInv, vars
  <2>3. WorkersInv' /\ ProcessingInv' /\ ResultIsTrue'
    BY <1>1, <1>3 DEF WorkersInv, ProcessingInv, Knows, ResultIsTrue, vars
  <2> QED BY <2>1, <2>2, <2>3
<1>4. CASE /\ MayInsert(r) /\ api' = [api EXCEPT ![r] = "saved"]
           /\ row' = [row EXCEPT ![r] = [status |-> "pending", attempts |-> 0]]
  <2>1. ServiceTypeOK'
    BY <1>1, <1>4, MaxAttemptsIsMax DEF ServiceTypeOK, Slots!HasKey, TypeOK, vars, Statuses
  <2>2. /\ row'[r] = [status |-> "pending", attempts |-> 0]
        /\ \A s \in Items \ {r} : row'[s] = row[s] /\ api'[s] = api[s]
        /\ api'[r] = "saved"
    BY <1>4 DEF ServiceTypeOK
  <2>3. OneOwner'
    BY <1>1, <1>2, <2>2 DEF OneOwner, Outside, vars
  <2>4. WaitingInv'
    BY <1>1, <1>2, <2>2, MaxAttemptsIsMax DEF WaitingInv, Open, vars
  <2>5. WorkersInv'
    BY <1>1 DEF WorkersInv, vars
  <2>6. ProcessingInv'
    <3>1. \A w \in Workers : worker[w] = "busy" => held[w] \in Items \ {r}
      BY <1>2 DEF Outside, WorkersInv, ServiceTypeOK, TypeOK
    <3> QED BY <1>1, <2>2, <3>1 DEF ProcessingInv, Knows, vars
  <2>7. TableInv'
    <3>1. \A s \in Items : idem[s] = idem[r] /\ idem[r] # NoIdem => row[s].status = "none"
      BY <1>4 DEF MayInsert, Existing
    <3> QED BY <1>1, <2>2, <3>1 DEF TableInv
  <2>8. ResultIsTrue'
    BY <1>1, <1>2, <2>2 DEF ResultIsTrue
  <2> QED BY <2>1, <2>3, <2>4, <2>5, <2>6, <2>7, <2>8
<1> QED BY <1>3, <1>4 DEF Save, CreateRequest

\* A timer whose context is cancelled leaves the request without an owner.
LEMMA TimerCancelledKeeps ==
  ASSUME ServiceInv, NEW r \in Items, TimerCancelled(r)
  PROVE  RequestInv'
<1> USE DEF ServiceInv, RequestInv
<1>1. /\ UNCHANGED <<vars, idem, api, row, step, loaded, holders, calls, oks>>
      /\ timers' \subseteq timers
  BY DEF TimerCancelled
<1>2. ServiceTypeOK'
  BY <1>1 DEF ServiceTypeOK, Slots!HasKey, TypeOK, vars
<1>3. OneOwner' /\ WaitingInv'
  BY <1>1 DEF OneOwner, Outside, WaitingInv, Open, vars
<1>4. WorkersInv' /\ ProcessingInv' /\ TableInv' /\ ResultIsTrue'
  BY <1>1 DEF WorkersInv, ProcessingInv, Knows, TableInv, ResultIsTrue, vars
<1> QED BY <1>2, <1>3, <1>4

-----------------------------------------------------------------------------
(* processItem.                                                            *)

\* The request a worker processes is nowhere else: no handler, timer, queue or
\* other worker can touch its row.
LEMMA HeldIsOwn ==
  ASSUME ServiceInv, NEW w \in Workers, worker[w] = "busy"
  PROVE  /\ held[w] \in Items /\ held[w] \notin timers \cup pq \cup lost \cup {hand}
         /\ api[held[w]] \notin {"new", "checked", "saved"}
         /\ \A v \in Workers \ {w} : held[v] # held[w]
<1> USE DEF ServiceInv, RequestInv
<1>1. held[w] # None /\ held[w] \in Items
  BY DEF WorkersInv, ServiceTypeOK, TypeOK
<1>2. held[w] \notin timers /\ api[held[w]] \notin {"new", "checked", "saved"}
  BY <1>1 DEF OneOwner, Outside
<1> QED BY <1>1, <1>2 DEF OnePlace

\* The effect of a step inside processItem that goes on to step s: it touches
\* only the row, the counters and the key of the worker's own request.
GoesOn(w, s) ==
  /\ worker[w] = "busy" /\ UNCHANGED <<vars, idem, api, timers>>
  /\ s \in Steps \ {"load"} /\ step' = [step EXCEPT ![w] = s]
  /\ loaded' \in [Workers -> 0..MaxAttempts]
  /\ \A v \in Workers \ {w} : loaded'[v] = loaded[v]
  /\ row' \in [Items -> [status : Statuses, attempts : 0..MaxAttempts]]
  /\ calls' \in [Items -> Nat] /\ oks' \in [Items -> Nat]
  /\ \A q \in Items \ {held[w]} : row'[q] = row[q] /\ calls'[q] = calls[q] /\ oks'[q] = oks[q]

\* What it must establish for the worker's next step.
Established(w, s) ==
  /\ row'[held[w]].status \in {"pending", "processing"}
  /\ oks'[held[w]] = IF s = "success" THEN 1 ELSE 0
  /\ loaded'[w] < MaxAttempts
  /\ s \in {"key", "mark"} => row'[held[w]].attempts = loaded'[w]
  /\ s \notin {"key", "mark"} => row'[held[w]].attempts \in {loaded'[w], loaded'[w] + 1}

\* The workers' keys, after a step in which w ends up with a key or without.
KeysAfter(w, has) ==
  /\ holders' \in [Keys -> SUBSET Workers]
  /\ \A v \in Workers : Slots!HasKey(v)' <=> IF v = w THEN has ELSE Slots!HasKey(v)
  /\ \A v \in Workers : \A k, l \in Keys : v \in holders'[k] /\ v \in holders'[l] => k = l

\* A step that goes on and establishes what the next one needs keeps the
\* invariant of the requests.
LEMMA GoesOnKeeps ==
  ASSUME ServiceInv, NEW w \in Workers, NEW s, GoesOn(w, s), Established(w, s),
         KeysAfter(w, s \in {"mark", "call"})
  PROVE  RequestInv'
<1> USE DEF ServiceInv, RequestInv
<1>1. /\ held[w] \in Items /\ held[w] \notin timers \cup pq \cup {hand} /\ api[held[w]] # "saved"
      /\ \A v \in Workers \ {w} : held[v] # held[w]
  BY HeldIsOwn DEF GoesOn
<1>2. /\ UNCHANGED <<pq, hand, lost, worker, held, idem, api, timers>>
      /\ step' \in [Workers -> Steps] /\ step'[w] = s /\ s # "load"
      /\ \A v \in Workers \ {w} : step'[v] = step[v] /\ loaded'[v] = loaded[v]
  BY DEF GoesOn, vars, ServiceTypeOK
<1>3. \A q \in Items \ {held[w]} : row'[q] = row[q] /\ calls'[q] = calls[q] /\ oks'[q] = oks[q]
  BY DEF GoesOn
<1>4. ServiceTypeOK'
  <2>1. TypeOK'
    BY DEF GoesOn, vars, TypeOK, ServiceTypeOK
  <2>2. \A v \in Workers : Slots!HasKey(v)' <=> worker'[v] = "busy" /\ step'[v] \in {"mark", "call"}
    BY <1>2 DEF KeysAfter, ServiceTypeOK, GoesOn
  <2> QED BY <1>2, <2>1, <2>2 DEF ServiceTypeOK, GoesOn, KeysAfter
<1>5. OneOwner'
  BY <1>2 DEF OneOwner, Outside
<1>6. WorkersInv'
  BY <1>2 DEF WorkersInv, KeysAfter, GoesOn
<1>7. WaitingInv'
  BY <1>1, <1>2, <1>3 DEF WaitingInv, Open
<1>8. ProcessingInv'
  <2> SUFFICES ASSUME NEW v \in Workers, worker[v] = "busy" PROVE Knows(v)'
    BY <1>2 DEF ProcessingInv
  <2>1. CASE v = w
    BY <1>2, <2>1 DEF Established, Knows
  <2>2. CASE v # w
    <3>1. held[v] \in Items \ {held[w]}
      BY <1>1, <2>2 DEF WorkersInv, ServiceTypeOK, TypeOK
    <3> QED BY <1>2, <1>3, <2>2, <3>1 DEF ProcessingInv, Knows
  <2> QED BY <2>1, <2>2
<1>9. TableInv'
  <2>1. row[held[w]].status # "none" /\ row'[held[w]].status # "none"
    BY DEF GoesOn, ProcessingInv, Knows, Established
  <2> QED BY <1>1, <1>2, <1>3, <2>1 DEF TableInv
<1>10. ResultIsTrue'
  BY <1>1, <1>3 DEF ResultIsTrue, Established
<1> QED BY <1>4, <1>5, <1>6, <1>7, <1>8, <1>9, <1>10

\* A worker that keeps its hands off the keys.
LEMMA KeysKept ==
  ASSUME ServiceInv, NEW w \in Workers, UNCHANGED holders
  PROVE  KeysAfter(w, Slots!HasKey(w))
BY DEF ServiceInv, RequestInv, ServiceTypeOK, WorkersInv, KeysAfter, Slots!HasKey

\* GetKey gives a worker without a key one slot of one key.
LEMMA KeyGranted ==
  ASSUME ServiceInv, NEW w \in Workers, NEW k \in Keys, Slots!Grant(w, k)
  PROVE  KeysAfter(w, TRUE)
<1>1. /\ ~ Slots!HasKey(w) /\ holders \in [Keys -> SUBSET Workers]
      /\ holders' = [holders EXCEPT ![k] = @ \cup {w}]
  BY DEF Slots!Grant, ServiceInv, RequestInv, ServiceTypeOK
<1>2. \A v \in Workers : \A l \in Keys : v \in holders'[l] <=> v \in holders[l] \/ (v = w /\ l = k)
  BY <1>1
<1>3. \A v \in Workers : \A l, m \in Keys : v \in holders[l] /\ v \in holders[m] => l = m
  BY DEF ServiceInv, RequestInv, WorkersInv
<1> QED BY <1>1, <1>2, <1>3 DEF KeysAfter, Slots!HasKey

\* ReleaseKey takes the only key of a worker back.
LEMMA KeyReturned ==
  ASSUME ServiceInv, NEW w \in Workers, NEW k \in Keys, Slots!Return(w, k)
  PROVE  KeysAfter(w, FALSE)
<1>1. /\ w \in holders[k] /\ holders \in [Keys -> SUBSET Workers]
      /\ holders' = [holders EXCEPT ![k] = @ \ {w}]
  BY DEF Slots!Return, ServiceInv, RequestInv, ServiceTypeOK
<1>2. \A v \in Workers : \A l \in Keys : v \in holders'[l] <=> v \in holders[l] /\ ~ (v = w /\ l = k)
  BY <1>1
<1>3. \A v \in Workers : \A l, m \in Keys : v \in holders[l] /\ v \in holders[m] => l = m
  BY DEF ServiceInv, RequestInv, WorkersInv
<1> QED BY <1>1, <1>2, <1>3 DEF KeysAfter, Slots!HasKey

\* What a database call leaves of the row: all of it, or its new contents.
LEMMA RowTyped ==
  ASSUME ServiceInv, NEW r \in Items, NEW rec \in [status : Statuses, attempts : 0..MaxAttempts],
         row' = [row EXCEPT ![r] = rec] \/ row' = row
  PROVE  /\ row' \in [Items -> [status : Statuses, attempts : 0..MaxAttempts]]
         /\ row'[r] \in {rec, row[r]} /\ \A q \in Items \ {r} : row'[q] = row[q]
BY DEF ServiceInv, RequestInv, ServiceTypeOK

\* A key is granted; the attempt is marked in the row, or not; a call that is
\* never made gives the key back.
LEMMA BeforeCallKeeps ==
  ASSUME ServiceInv, NEW w \in Workers,
         KeyFound(w) \/ Mark(w) \/ CallFails(w)
  PROVE  RequestInv'
<1> USE DEF ServiceInv, RequestInv
<1>1. /\ worker[w] = "busy" /\ held[w] \in Items /\ Knows(w)
      /\ UNCHANGED <<vars, idem, api, timers, loaded, calls, oks>>
  BY HeldIsOwn DEF KeyFound, Mark, CallFails, At, Goto, ProcessingInv
<1>2. CASE KeyFound(w)
  <2>1. step[w] = "key" /\ step' = [step EXCEPT ![w] = "mark"] /\ row' = row
    BY <1>2 DEF KeyFound, At, Goto
  <2>2. KeysAfter(w, "mark" \in {"mark", "call"})
    BY <1>2, KeyGranted DEF KeyFound, KeysAfter
  <2>3. GoesOn(w, "mark") /\ Established(w, "mark")
    BY <1>1, <2>1 DEF GoesOn, Established, Knows, ServiceTypeOK, Steps
  <2> QED BY <2>2, <2>3, GoesOnKeeps
<1>3. CASE Mark(w)
  <2> DEFINE rec == [status |-> "processing", attempts |-> Attempt(w)]
  <2>1. /\ step[w] = "mark" /\ step' = [step EXCEPT ![w] = "call"] /\ holders' = holders
        /\ row' = [row EXCEPT ![held[w]] = rec] \/ row' = row
    BY <1>3 DEF Mark, At, Goto, UpdateRequestStatus
  <2>2. loaded[w] \in 0..MaxAttempts /\ loaded[w] < MaxAttempts /\ row[held[w]].attempts = loaded[w]
    BY <1>1, <2>1 DEF Knows, ServiceTypeOK
  <2>3. rec \in [status : Statuses, attempts : 0..MaxAttempts]
    BY <2>2, MaxAttemptsIsMax DEF Attempt, Statuses
  <2>4. /\ row' \in [Items -> [status : Statuses, attempts : 0..MaxAttempts]]
        /\ row'[held[w]] \in {rec, row[held[w]]}
        /\ \A q \in Items \ {held[w]} : row'[q] = row[q]
    BY <1>1, <2>1, <2>3, RowTyped
  <2>5. Slots!HasKey(w) /\ KeysAfter(w, Slots!HasKey(w))
    BY <1>1, <2>1, KeysKept DEF ServiceTypeOK
  <2>6. KeysAfter(w, "call" \in {"mark", "call"})
    BY <2>5 DEF KeysAfter
  <2>7. GoesOn(w, "call") /\ Established(w, "call")
    BY <1>1, <2>1, <2>2, <2>4 DEF GoesOn, Established, Knows, ServiceTypeOK, Steps, Attempt
  <2> QED BY <2>6, <2>7, GoesOnKeeps
<1>4. CASE CallFails(w)
  <2>1. step[w] = "call" /\ step' = [step EXCEPT ![w] = "retry"] /\ row' = row
    BY <1>4 DEF CallFails, At, Goto
  <2>2. KeysAfter(w, "retry" \in {"mark", "call"})
    BY <1>4, KeyReturned DEF CallFails, ReleaseKey, KeysAfter
  <2>3. GoesOn(w, "retry") /\ Established(w, "retry")
    BY <1>1, <2>1 DEF GoesOn, Established, Knows, ServiceTypeOK, Steps
  <2> QED BY <2>2, <2>3, GoesOnKeeps
<1> QED BY <1>2, <1>3, <1>4

\* The upstream call counts, gives the key back, and a 2xx is the first one.
LEMMA CallKeeps ==
  ASSUME ServiceInv, NEW w \in Workers, Call(w)
  PROVE  RequestInv'
<1> USE DEF ServiceInv, RequestInv
<1>1. /\ worker[w] = "busy" /\ step[w] = "call" /\ held[w] \in Items /\ Knows(w)
      /\ UNCHANGED <<vars, idem, api, timers, loaded, row>>
      /\ calls' = [calls EXCEPT ![held[w]] = @ + 1]
  BY HeldIsOwn DEF Call, At, Goto, ProcessingInv
<1>2. PICK s \in {"success", "failed", "retry"} :
        /\ step' = [step EXCEPT ![w] = s]
        /\ oks' = IF s = "success" THEN [oks EXCEPT ![held[w]] = @ + 1] ELSE oks
  BY DEF Call, Goto
<1>3. KeysAfter(w, s \in {"mark", "call"})
  BY KeyReturned DEF Call, ReleaseKey, KeysAfter
<1>4. GoesOn(w, s)
  BY <1>1, <1>2 DEF GoesOn, ServiceTypeOK, Steps
<1>5. Established(w, s)
  BY <1>1, <1>2 DEF Established, Knows, ServiceTypeOK
<1> QED BY <1>3, <1>4, <1>5, GoesOnKeeps

\* The effect of a step with which processItem returns: the item goes back to a
\* timer or to nobody, with the last row that was written for it.
LetsGo(w) ==
  /\ worker[w] = "busy" /\ step[w] \notin {"mark", "call"} /\ Return(w)
  /\ UNCHANGED <<idem, api, holders, calls, oks>>
  /\ timers' \in {timers, timers \cup {held[w]}}
  /\ row' \in [Items -> [status : Statuses, attempts : 0..MaxAttempts]]
  /\ \A q \in Items \ {held[w]} : row'[q] = row[q]

\* What it must establish: a request with a timer is open, and a final status
\* is the upstream's.
Settled(w) ==
  /\ held[w] \in timers' => /\ row'[held[w]].status \in {"pending", "processing"}
                            /\ row'[held[w]].attempts < MaxAttempts /\ oks[held[w]] = 0
  /\ row'[held[w]].status # "none"
  /\ row'[held[w]].status = "success" => oks[held[w]] = 1
  /\ row'[held[w]].status = "failed" => oks[held[w]] = 0

\* A return that settles its request keeps the invariant of the requests.
LEMMA LetsGoKeeps ==
  ASSUME ServiceInv, TypeOK', NEW w \in Workers, LetsGo(w), Settled(w)
  PROVE  RequestInv'
<1> USE DEF ServiceInv, RequestInv
<1>1. /\ held[w] \in Items /\ held[w] \notin timers \cup pq \cup lost \cup {hand}
      /\ api[held[w]] \notin {"new", "checked", "saved"}
      /\ \A v \in Workers \ {w} : held[v] # held[w]
  BY HeldIsOwn DEF LetsGo
<1>2. /\ UNCHANGED <<pq, hand, lost, idem, api, holders, calls, oks>>
      /\ worker' = [worker EXCEPT ![w] = "idle"] /\ held' = [held EXCEPT ![w] = None]
      /\ step' = [step EXCEPT ![w] = "load"] /\ loaded' = [loaded EXCEPT ![w] = 0]
  BY DEF LetsGo, Return, Finish, dispatchVars
<1>3. /\ worker'[w] = "idle" /\ held'[w] = None /\ step'[w] = "load" /\ loaded'[w] = 0
      /\ \A v \in Workers \ {w} : /\ worker'[v] = worker[v] /\ held'[v] = held[v]
                                  /\ step'[v] = step[v] /\ loaded'[v] = loaded[v]
      /\ step' \in [Workers -> Steps] /\ loaded' \in [Workers -> 0..MaxAttempts]
  BY <1>2, MaxAttemptsIsMax DEF ServiceTypeOK, TypeOK, Steps
<1>4. \A q \in Items \ {held[w]} : row'[q] = row[q] /\ (q \in timers' <=> q \in timers)
  BY DEF LetsGo
<1>5. ServiceTypeOK'
  <2>1. \A v \in Workers : Slots!HasKey(v)' <=> Slots!HasKey(v)
    BY <1>2 DEF Slots!HasKey
  <2>2. \A v \in Workers : Slots!HasKey(v)' <=> worker'[v] = "busy" /\ step'[v] \in {"mark", "call"}
    BY <1>3, <2>1 DEF ServiceTypeOK, LetsGo
  <2>3. timers' \subseteq Items
    BY <1>1 DEF LetsGo, ServiceTypeOK
  <2> QED BY <1>2, <1>3, <2>2, <2>3 DEF ServiceTypeOK, LetsGo
<1>6. OneOwner'
  <2>1. \A q \in Items : Outside(q) \/ q = held[w] => Outside(q)'
    BY <1>1, <1>2, <1>3, ItemsAssumption DEF Outside
  <2> QED BY <1>1, <1>2, <1>4, <2>1 DEF OneOwner
<1>7. WorkersInv'
  BY <1>2, <1>3 DEF WorkersInv
<1>8. WaitingInv'
  BY <1>1, <1>2, <1>4 DEF WaitingInv, Open, Settled
<1>9. ProcessingInv'
  <2> SUFFICES ASSUME NEW v \in Workers \ {w}, worker[v] = "busy" PROVE Knows(v)'
    BY <1>3 DEF ProcessingInv
  <2>1. held[v] \in Items \ {held[w]}
    BY <1>1 DEF WorkersInv, ServiceTypeOK, TypeOK
  <2> QED BY <1>2, <1>3, <1>4, <2>1 DEF ProcessingInv, Knows
<1>10. TableInv'
  <2>1. row[held[w]].status # "none" /\ row'[held[w]].status # "none"
    BY DEF LetsGo, ProcessingInv, Knows, Settled
  <2> QED BY <1>1, <1>2, <1>4, <2>1 DEF TableInv
<1>11. ResultIsTrue'
  BY <1>1, <1>2, <1>4 DEF ResultIsTrue, Settled
<1> QED BY <1>5, <1>6, <1>7, <1>8, <1>9, <1>10, <1>11

\* GetRequest: an open row is loaded, anything else ends the call.
LEMMA LoadKeeps ==
  ASSUME ServiceInv, TypeOK', NEW w \in Workers, Load(w)
  PROVE  RequestInv'
<1> USE DEF ServiceInv, RequestInv
<1>1. /\ worker[w] = "busy" /\ step[w] = "load" /\ held[w] \in Items /\ Knows(w)
      /\ UNCHANGED <<idem, api, row, holders, timers, calls, oks>>
  BY HeldIsOwn DEF Load, At, ProcessingInv
<1>2. CASE loaded' = [loaded EXCEPT ![w] = row[held[w]].attempts] /\ Goto(w, "key")
  <2>1. GoesOn(w, "key") /\ Established(w, "key")
    BY <1>1, <1>2 DEF GoesOn, Established, Goto, Knows, ServiceTypeOK, Steps
  <2>2. ~ Slots!HasKey(w) /\ KeysAfter(w, Slots!HasKey(w))
    BY <1>1, KeysKept DEF ServiceTypeOK
  <2>3. KeysAfter(w, "key" \in {"mark", "call"})
    BY <2>2 DEF KeysAfter
  <2> QED BY <2>1, <2>3, GoesOnKeeps
<1>3. CASE Return(w)
  <2>1. held[w] \notin timers
    BY <1>1, HeldIsOwn
  <2>2. LetsGo(w) /\ Settled(w)
    BY <1>1, <1>3, <2>1 DEF LetsGo, Settled, Knows, ServiceTypeOK
  <2> QED BY <2>2, LetsGoKeeps
<1> QED BY <1>2, <1>3 DEF Load

\* requeueWithDelay: the request waits with the row it was loaded from.
LEMMA NoKeyFoundKeeps ==
  ASSUME ServiceInv, TypeOK', NEW w \in Workers, NoKeyFound(w)
  PROVE  RequestInv'
<1> USE DEF ServiceInv, RequestInv
<1>1. worker[w] = "busy" /\ step[w] = "key" /\ held[w] \in Items /\ Knows(w)
  BY HeldIsOwn DEF NoKeyFound, At, ProcessingInv
<1>2. LetsGo(w)
  BY <1>1 DEF NoKeyFound, LetsGo, ServiceTypeOK
<1>3. Settled(w)
  BY <1>1 DEF NoKeyFound, Settled, Knows
<1> QED BY <1>2, <1>3, LetsGoKeeps

\* persistResult writes the status or nothing.
LEMMA PersistWrites ==
  ASSUME ServiceInv, NEW r \in Items, NEW status \in Statuses, Persist(r, status)
  PROVE  /\ row' \in [Items -> [status : Statuses, attempts : 0..MaxAttempts]]
         /\ \A q \in Items \ {r} : row'[q] = row[q]
         /\ row'[r].attempts = row[r].attempts
         /\ row'[r].status \in {status, row[r].status}
BY DEF Persist, UpdateRequestResult, ServiceInv, RequestInv, ServiceTypeOK

\* The final result after an answer: success was counted, failed was not.
LEMMA SettleKeeps ==
  ASSUME ServiceInv, TypeOK', NEW w \in Workers, Settle(w)
  PROVE  RequestInv'
<1> USE DEF ServiceInv, RequestInv
<1>1. /\ worker[w] = "busy" /\ step[w] \in Terminal /\ Knows(w)
      /\ held[w] \in Items /\ held[w] \notin timers
      /\ UNCHANGED <<idem, api, holders, timers, calls, oks>>
  BY HeldIsOwn DEF Settle, ProcessingInv
<1>2. /\ row' \in [Items -> [status : Statuses, attempts : 0..MaxAttempts]]
      /\ \A q \in Items \ {held[w]} : row'[q] = row[q]
      /\ row'[held[w]].status \in {step[w], row[held[w]].status}
  BY <1>1, PersistWrites DEF Settle, Terminal, Statuses
<1>3. LetsGo(w) /\ Settled(w)
  BY <1>1, <1>2 DEF Settle, LetsGo, Settled, Knows, Terminal
<1> QED BY <1>3, LetsGoKeeps

\* handleFailure: a retry is allowed only with an attempt left, whatever limit
\* is in force; the other outcome is a true failure.
LEMMA HandleFailureKeeps ==
  ASSUME ServiceInv, TypeOK', NEW w \in Workers, HandleFailure(w)
  PROVE  RequestInv'
<1> USE DEF ServiceInv, RequestInv
<1>1. /\ worker[w] = "busy" /\ step[w] = "retry" /\ Knows(w)
      /\ held[w] \in Items /\ held[w] \notin timers /\ Return(w)
      /\ UNCHANGED <<idem, api, holders, calls, oks>>
  BY HeldIsOwn DEF HandleFailure, At, ProcessingInv
<1>2. PICK max \in AttemptLimits :
        \/ Attempt(w) < max /\ timers' = timers \cup {held[w]} /\ row' = row
        \/ Persist(held[w], "failed") /\ timers' = timers
  BY DEF HandleFailure, ShouldRetry
<1>3. CASE Attempt(w) < max /\ timers' = timers \cup {held[w]} /\ row' = row
  <2>1. row[held[w]].attempts < MaxAttempts
    BY <1>1, <1>3, MaxAttemptsIsMax DEF Attempt, Knows, ServiceTypeOK
  <2>2. LetsGo(w) /\ Settled(w)
    BY <1>1, <1>3, <2>1 DEF LetsGo, Settled, Knows, ServiceTypeOK
  <2> QED BY <2>2, LetsGoKeeps
<1>4. CASE Persist(held[w], "failed") /\ timers' = timers
  <2>1. /\ row' \in [Items -> [status : Statuses, attempts : 0..MaxAttempts]]
        /\ \A q \in Items \ {held[w]} : row'[q] = row[q]
        /\ row'[held[w]].status \in {"failed", row[held[w]].status}
    BY <1>1, <1>4, PersistWrites DEF Statuses
  <2>2. LetsGo(w) /\ Settled(w)
    BY <1>1, <1>4, <2>1 DEF LetsGo, Settled, Knows
  <2> QED BY <2>2, LetsGoKeeps
<1> QED BY <1>2, <1>3, <1>4

-----------------------------------------------------------------------------
(* The invariant.                                                          *)

\* A service that has just started satisfies the invariant.
LEMMA ServiceInvInit == ServiceInit => ServiceInv
<1> SUFFICES ASSUME ServiceInit PROVE ServiceInv
  OBVIOUS
<1> USE MaxAttemptsIsMax, ItemsAssumption DEF ServiceInit, Init, Slots!Init
<1>1. TypeOK /\ OnePlace
  BY DEF TypeOK, OnePlace, DispatchStates, WorkerStates
<1>2. ServiceTypeOK
  BY <1>1 DEF ServiceTypeOK, Statuses, Steps, Slots!HasKey
<1>3. OneOwner /\ WorkersInv /\ WaitingInv
  BY DEF OneOwner, Outside, WorkersInv, WaitingInv
<1>4. ProcessingInv /\ TableInv /\ ResultIsTrue
  BY DEF ProcessingInv, TableInv, ResultIsTrue
<1> QED BY <1>1, <1>2, <1>3, <1>4 DEF ServiceInv, RequestInv

\* Every step of the service keeps the invariant.
LEMMA ServiceInvStep == ServiceInv /\ [ServiceNext]_serviceVars => ServiceInv'
<1> SUFFICES ASSUME ServiceInv, [ServiceNext]_serviceVars PROVE ServiceInv'
  OBVIOUS
<1>1. CASE UNCHANGED serviceVars
  BY <1>1 DEF serviceVars, vars, requestVars, ServiceInv, RequestInv, ServiceTypeOK, TypeOK, OnePlace,
              OneOwner, Outside, WorkersInv, WaitingInv, Open, ProcessingInv, Knows, TableInv,
              ResultIsTrue, Slots!HasKey
<1>2. CASE ServiceNext
  <2>1. TypeOK /\ OnePlace /\ OneOwner
    BY DEF ServiceInv, RequestInv, ServiceTypeOK
  <2>2. TypeOK' /\ OnePlace'
    BY <1>2, <2>1, StepOfQueue, TypeStep, OnePlaceStep
  <2>3. ASSUME NEW r \in Items, Submit(r) \/ RetryTimer(r) PROVE RequestInv'
    BY <2>2, <2>3, CheckKeeps, SaveKeeps, EnqueueKeeps, TimerCancelledKeeps DEF Submit, RetryTimer
  <2>4. ASSUME QueueStep \/ Stop \/ Close PROVE RequestInv'
    BY <2>2, <2>4, HandoverKeeps DEF QueueStep, Stop, Close, Handover
  <2>5. ASSUME NEW w \in Workers, WorkerLoop(w) PROVE RequestInv'
    <3>1. CASE (Park(w) \/ WorkerExit(w)) /\ UNCHANGED requestVars
      BY <2>2, <3>1, HandoverKeeps DEF Handover
    <3>2. CASE ProcessItem(w)
      BY <2>2, <3>2, LoadKeeps, BeforeCallKeeps, NoKeyFoundKeeps, CallKeeps, SettleKeeps,
         HandleFailureKeeps DEF ProcessItem
    <3> QED BY <2>5, <3>1, <3>2 DEF WorkerLoop
  <2>6. RequestInv'
    BY <1>2, <2>3, <2>4, <2>5 DEF ServiceNext
  <2> QED BY <2>2, <2>6 DEF ServiceInv
<1> QED BY <1>1, <1>2

\* The invariant of the service.
LEMMA ServiceInvariant == ServiceSpec => []ServiceInv
BY ServiceInvInit, ServiceInvStep, PTL DEF ServiceSpec

-----------------------------------------------------------------------------
(* The theorems about Service.                                             *)

\* Type correctness: in particular the attempts in a row never exceed the
\* largest retry_max_attempts there ever was, and a worker has a key exactly
\* from GetKey to ReleaseKey (worker.go:99-255).
THEOREM ServiceTypeCorrect == ServiceSpec => []ServiceTypeOK
<1>1. ServiceInv => ServiceTypeOK
  BY DEF ServiceInv, RequestInv
<1> QED BY <1>1, ServiceInvariant, PTL

\* A request has one owner at a time: its handler, a retry timer, the queue or
\* one worker (handlers.go:80-140, worker.go:99-255).
THEOREM OneOwnerHolds == ServiceSpec => []OneOwner
<1>1. ServiceInv => OneOwner
  BY DEF ServiceInv, RequestInv
<1> QED BY <1>1, ServiceInvariant, PTL

\* The service is a legal user of the queue: every step of it is a step of Queue
\* or leaves the queue alone, so whatever is proved of Queue holds in the
\* service.
THEOREM ContractKept == ServiceSpec => KeepsQueueContract
<1>1. ServiceInit => Init
  BY DEF ServiceInit
<1>2. ServiceInv /\ [ServiceNext]_serviceVars => [Next]_vars
  BY StepOfQueue DEF ServiceInv, RequestInv, serviceVars
<1> QED BY <1>1, <1>2, ServiceInvariant, PTL DEF ServiceSpec, Spec, KeepsQueueContract

\* The theorems about Queue carry over: in the running service the queue keeps
\* its bound, loses no wake-up, strands nothing, and no request is with two
\* workers (queue.go:58-180, worker.go:74-97).
THEOREM QueueSafeInService ==
  ServiceSpec => [](SizeBound /\ NoLostWakeup /\ NothingStranded /\ OnePlace)
BY ContractKept, SizeBoundHolds, NoLostWakeupHolds, NothingStrandedHolds, OnePlaceHolds, PTL
   DEF KeepsQueueContract

\* Of the requests that share an idempotency key at most one has a row, and
\* without a row nothing is sent upstream, however submissions overlap.
LEMMA RowsDecide == ServiceInv => ProcessedOnce
BY DEF ServiceInv, RequestInv, TableInv, ProcessedOnce

\* An idempotency key prevents duplicate processing (handlers.go:80-121,
\* migrations/002_create_requests.sql:4).
THEOREM ProcessedOnceHolds == ServiceSpec => []ProcessedOnce
BY RowsDecide, ServiceInvariant, PTL

\* The row and the upstream agree: at most one call succeeds, and a final status
\* is what the upstream said, whatever the database loses (worker.go:99-255).
THEOREM ResultIsTrueHolds == ServiceSpec => []ResultIsTrue
<1>1. ServiceInv => ResultIsTrue
  BY DEF ServiceInv, RequestInv
<1> QED BY <1>1, ServiceInvariant, PTL

\* A final row is nobody's: the insert finds no row, and a worker writes only to
\* the row of its own request, which is not final.
LEMMA FinalRowStays ==
  ASSUME ServiceInv, [ServiceNext]_serviceVars
  PROVE  \A r \in Items : row[r].status \in Terminal => row'[r] = row[r]
<1> USE DEF ServiceInv, RequestInv, Terminal
<1>1. CASE row' = row
  BY <1>1
<1>2. ASSUME NEW r \in Items, Save(r)
      PROVE  \A q \in Items : row[q].status \in Terminal => row'[q] = row[q]
  BY <1>2 DEF Save, CreateRequest, TableInv, ServiceTypeOK
<1>3. ASSUME NEW w \in Workers, Mark(w) \/ Settle(w) \/ HandleFailure(w)
      PROVE  \A q \in Items : row[q].status \in Terminal => row'[q] = row[q]
  <2>1. held[w] \in Items /\ row[held[w]].status \notin Terminal
    BY <1>3, HeldIsOwn DEF Mark, Settle, HandleFailure, At, ProcessingInv, Knows
  <2>2. \A q \in Items \ {held[w]} : row'[q] = row[q]
    BY <1>3 DEF Mark, Settle, HandleFailure, Persist, UpdateRequestStatus, UpdateRequestResult,
                ServiceTypeOK
  <2> QED BY <2>1, <2>2
<1>4. ASSUME NEW r \in Items, Check(r) \/ Offer(r) \/ RetryTimer(r) PROVE row' = row
  BY <1>4 DEF Check, Offer, RetryTimer, TimerFires, TimerCancelled
<1>5. CASE QueueStep \/ Stop \/ Close
  BY <1>1, <1>5 DEF QueueStep, Stop, Close, requestVars
<1>6. ASSUME NEW w \in Workers,
             \/ (Park(w) \/ WorkerExit(w)) /\ UNCHANGED requestVars
             \/ Load(w) \/ KeyFound(w) \/ NoKeyFound(w) \/ CallFails(w) \/ Call(w)
      PROVE  row' = row
  BY <1>6 DEF Load, KeyFound, NoKeyFound, CallFails, Call, requestVars
<1>7. CASE UNCHANGED serviceVars
  BY <1>1, <1>7 DEF serviceVars, requestVars
<1> QED BY <1>1, <1>2, <1>3, <1>4, <1>5, <1>6, <1>7
        DEF ServiceNext, Submit, WorkerLoop, ProcessItem

\* A finished request stays finished: no late write of a worker changes a final
\* status (worker.go:110-116, 222-255).
THEOREM FinishedIsFinalHolds == ServiceSpec => FinishedIsFinal
<1>1. ServiceInv /\ [ServiceNext]_serviceVars =>
        [\A r \in Items : row[r].status \in Terminal => row'[r] = row[r]]_serviceVars
  BY FinalRowStays
<1> QED BY <1>1, ServiceInvariant, PTL DEF ServiceSpec, FinishedIsFinal

-----------------------------------------------------------------------------
(* Crashes.                                                                *)

\* A restart takes nothing over but the table, and whatever it finds there
\* belongs to nobody.
LEMMA RestartKeeps == ServiceInv /\ CrashRestart => ServiceInv'
<1> SUFFICES ASSUME ServiceInv, CrashRestart PROVE ServiceInv'
  OBVIOUS
<1> USE MaxAttemptsIsMax, ItemsAssumption DEF ServiceInv, RequestInv, CrashRestart, Requeued
<1>1. TypeOK' /\ OnePlace'
  BY DEF TypeOK, OnePlace, DispatchStates, WorkerStates
<1>2. \A r \in Items : /\ api'[r] \in {api[r], "refused"}
                       /\ api'[r] \notin {"checked", "saved"}
  BY DEF ServiceTypeOK
<1>3. ServiceTypeOK'
  <2>1. api' \in [Items -> {"new", "checked", "existing", "saved", "accepted", "refused"}]
    BY DEF ServiceTypeOK
  <2>2. \A w \in Workers : ~ Slots!HasKey(w)' /\ worker'[w] # "busy"
    BY DEF Slots!HasKey
  <2> QED BY <1>1, <2>1, <2>2 DEF ServiceTypeOK, Steps
<1>4. OneOwner' /\ WorkersInv' /\ WaitingInv'
  BY <1>2 DEF OneOwner, Outside, WorkersInv, WaitingInv
<1>5. ProcessingInv' /\ TableInv' /\ ResultIsTrue'
  BY <1>2 DEF ProcessingInv, TableInv, ResultIsTrue
<1> QED BY <1>1, <1>3, <1>4, <1>5

\* The invariant of the service holds across crashes.
LEMMA CrashInvariant == CrashSpec => []ServiceInv
<1>1. CrashInit => ServiceInv
  BY ServiceInvInit DEF CrashInit
<1>2. ServiceInv /\ [CrashNext]_crashVars => ServiceInv'
  BY ServiceInvStep, RestartKeeps DEF CrashNext, crashVars
<1> QED BY <1>1, <1>2, PTL DEF CrashSpec

\* Nothing that the requests are promised is lost in a crash: one owner, one
\* processed request per idempotency key, and true results, with any database
\* failures and any number of restarts (main.go, worker.go:99-255).
THEOREM SafeAcrossCrashes == CrashSpec => [](OneOwner /\ ProcessedOnce /\ ResultIsTrue)
<1>1. ServiceInv => OneOwner /\ ResultIsTrue
  BY DEF ServiceInv, RequestInv
<1> QED BY <1>1, RowsDecide, CrashInvariant, PTL

\* A finished request stays finished across crashes.
THEOREM FinalAcrossCrashes == CrashSpec => FinishedIsFinal
<1>1. ServiceInv /\ [CrashNext]_crashVars =>
        [\A r \in Items : row[r].status \in Terminal => row'[r] = row[r]]_serviceVars
  <2> SUFFICES ASSUME ServiceInv, [CrashNext]_crashVars
               PROVE  \A r \in Items : row[r].status \in Terminal => row'[r] = row[r]
    OBVIOUS
  <2>1. CASE CrashRestart
    BY <2>1 DEF CrashRestart
  <2>2. CASE [ServiceNext]_serviceVars
    BY <2>2, FinalRowStays
  <2> QED BY <2>1, <2>2 DEF CrashNext, crashVars
<1> QED BY <1>1, CrashInvariant, PTL DEF CrashSpec, FinishedIsFinal

-----------------------------------------------------------------------------
(* The number of calls, when the database works.                           *)

\* The row counts the calls: it is ahead of them from the mark to the call.  A
\* mark that fails because the context is cancelled is followed by no call.
CountedInv ==
  /\ \A r \in Items : calls[r] <= row[r].attempts
  /\ \A w \in Workers : At(w, "call") /\ ~ ctxDone => calls[held[w]] < row[held[w]].attempts

\* A step that neither calls nor writes to a row keeps the count.  A worker's
\* pending call is unaffected as well, unless it is made.
LEMMA CountKept ==
  ASSUME ServiceInv, CountedInv, UNCHANGED <<row, calls>>, ctxDone => ctxDone',
         \A w \in Workers : At(w, "call")' => At(w, "call") /\ held'[w] = held[w]
  PROVE  CountedInv'
BY DEF CountedInv, ServiceInv, RequestInv, ServiceTypeOK, TypeOK

\* The step between the load and the call that writes to the row, and the one
\* that calls.
LEMMA AttemptCounted ==
  ASSUME DBFails = FALSE, ServiceInv, CountedInv, NEW w \in Workers, Mark(w) \/ Call(w)
  PROVE  CountedInv'
<1> USE DEF ServiceInv, RequestInv
<1>1. /\ worker[w] = "busy" /\ held[w] \in Items /\ Knows(w) /\ UNCHANGED vars
      /\ \A v \in Workers \ {w} : At(v, "call") => held[v] \in Items \ {held[w]}
  BY HeldIsOwn DEF Mark, Call, At, Goto, ProcessingInv
<1>2. \A r \in Items : calls[r] \in Nat /\ row[r].attempts \in Nat
  BY MaxAttemptsIsMax DEF ServiceTypeOK
<1>3. loaded[w] \in Nat /\ UNCHANGED <<worker, held, ctxDone>>
  BY <1>1, MaxAttemptsIsMax DEF ServiceTypeOK, vars
<1>4. CASE Mark(w)
  <2>1. /\ row[held[w]].attempts = loaded[w] /\ calls' = calls
        /\ \A v \in Workers \ {w} : step'[v] = step[v]
    BY <1>1, <1>4 DEF Mark, At, Goto, Knows, ServiceTypeOK
  <2>2. \A r \in Items \ {held[w]} : row'[r] = row[r]
    BY <1>4 DEF Mark, UpdateRequestStatus, ServiceTypeOK
  <2>3. \/ ~ ctxDone /\ row'[held[w]].attempts = loaded[w] + 1
        \/ ctxDone /\ row' = row
    BY <1>1, <1>4 DEF Mark, UpdateRequestStatus, DBAnswers, Attempt, ServiceTypeOK, TypeOK
  <2>4. \A r \in Items : calls'[r] <= row'[r].attempts
    BY <1>1, <1>2, <1>3, <2>1, <2>2, <2>3 DEF CountedInv
  <2>5. ~ ctxDone => calls[held[w]] < row'[held[w]].attempts
    BY <1>1, <1>2, <1>3, <2>1, <2>3 DEF CountedInv
  <2> QED BY <1>1, <1>3, <2>1, <2>2, <2>4, <2>5 DEF CountedInv, At
<1>5. CASE Call(w)
  <2>1. /\ At(w, "call") /\ ~ ctxDone /\ row' = row /\ step'[w] # "call"
        /\ \A v \in Workers \ {w} : step'[v] = step[v]
        /\ calls'[held[w]] = calls[held[w]] + 1
        /\ \A r \in Items \ {held[w]} : calls'[r] = calls[r]
    BY <1>1, <1>5 DEF Call, Goto, ServiceTypeOK
  <2>2. \A r \in Items : calls'[r] <= row'[r].attempts
    BY <1>1, <1>2, <2>1 DEF CountedInv
  <2> QED BY <1>1, <1>3, <2>1, <2>2 DEF CountedInv, At
<1> QED BY <1>4, <1>5

\* Every step of the service and every crash keeps the count.
LEMMA CountedStep ==
  ASSUME DBFails = FALSE, ServiceInv, CountedInv, [CrashNext]_crashVars
  PROVE  CountedInv'
<1> USE DEF ServiceInv, RequestInv
<1>1. CASE UNCHANGED crashVars
  BY <1>1 DEF crashVars, serviceVars, vars, requestVars, CountedInv, At
<1>2. CASE CrashRestart
  BY <1>2 DEF CrashRestart, CountedInv, At
<1>3. ASSUME NEW r \in Items, Check(r) \/ TimerCancelled(r) PROVE CountedInv'
  BY <1>3, CountKept DEF Check, TimerCancelled, vars, At
<1>4. ASSUME NEW r \in Items, Offer(r) \/ TimerFires(r) PROVE CountedInv'
  BY <1>4, CountKept DEF Offer, TimerFires, EnqueueCall, workerVars, At
<1>5. ASSUME NEW r \in Items, Save(r) PROVE CountedInv'
  <2>1. calls[r] = 0 /\ \A w \in Workers : worker[w] = "busy" => held[w] \in Items \ {r}
    BY <1>5, HeldIsOwn DEF Save, TableInv, At
  <2>2. /\ UNCHANGED <<vars, step, calls>> /\ \A q \in Items \ {r} : row'[q] = row[q]
        /\ row'[r] = row[r] \/ row'[r].attempts = 0
    BY <1>5 DEF Save, CreateRequest, ServiceTypeOK
  <2>3. \A q \in Items : calls'[q] <= row'[q].attempts
    BY <2>1, <2>2 DEF CountedInv
  <2> QED BY <2>1, <2>2, <2>3 DEF CountedInv, At, vars
<1>6. ASSUME Handover, UNCHANGED requestVars PROVE CountedInv'
  <2>1. ItemsMove /\ (ctxDone => ctxDone')
    <3>1. ctxDone => ctxDone'
      BY <1>6 DEF Handover, Dispatcher, TakeNotify, TakeDone, Pop, PopEmpty, Deliver, Abandon, DrainOne,
                  DrainDone, CloseMark, CloseSignal, RootCancel, Park, WorkerExit
    <3> QED BY <1>6, <3>1, HandoverMoves DEF ServiceTypeOK
  <2> QED BY <1>6, <2>1, CountKept DEF ItemsMove, WorkersInv, requestVars, At
<1>7. ASSUME NEW w \in Workers, KeyFound(w) \/ CallFails(w) PROVE CountedInv'
  BY <1>7, CountKept DEF KeyFound, CallFails, Goto, vars, At, ServiceTypeOK
<1>8. ASSUME NEW w \in Workers, Load(w) \/ NoKeyFound(w) PROVE CountedInv'
  BY <1>8, CountKept DEF Load, NoKeyFound, Return, Finish, Goto, vars, At, ServiceTypeOK, TypeOK
<1>9. ASSUME NEW w \in Workers, Settle(w) \/ HandleFailure(w) PROVE CountedInv'
  <2>1. /\ \A q \in Items : row'[q].attempts = row[q].attempts
        /\ calls' = calls /\ Return(w) /\ step[w] # "call"
    BY <1>9 DEF Settle, HandleFailure, At, Persist, UpdateRequestResult, Terminal, ServiceTypeOK
  <2>2. \A v \in Workers : At(v, "call")' => At(v, "call") /\ held'[v] = held[v] /\ held[v] \in Items
    BY <2>1, HeldIsOwn DEF Return, Finish, At, ServiceTypeOK, TypeOK
  <2> QED BY <2>1, <2>2 DEF CountedInv, Return, Finish
<1> QED BY <1>1, <1>2, <1>3, <1>4, <1>5, <1>6, <1>7, <1>8, <1>9, AttemptCounted
        DEF CrashNext, crashVars, ServiceNext, Submit, RetryTimer, QueueStep, Stop, Close, WorkerLoop,
            ProcessItem, Handover

\* With a database that works, crashes and shutdowns make the service neither
\* repeat a call that succeeded, nor record a result that is not the upstream's,
\* nor exceed the largest retry_max_attempts (worker.go:99-255, main.go).
THEOREM TrueAcrossCrashesHolds ==
  ASSUME DBFails = FALSE
  PROVE  CrashSpec => []TrueAcrossCrashes
<1>1. CrashInit => CountedInv
  BY DEF CrashInit, ServiceInit, Init, CountedInv, At
<1>2. ServiceInv /\ CountedInv /\ [CrashNext]_crashVars => CountedInv'
  BY CountedStep
<1>3. ServiceInv /\ CountedInv => TrueAcrossCrashes
  BY MaxAttemptsIsMax DEF ServiceInv, RequestInv, ServiceTypeOK, CountedInv, TrueAcrossCrashes,
     AttemptsRespected
<1> QED BY <1>1, <1>2, <1>3, CrashInvariant, PTL DEF CrashSpec
=============================================================================
