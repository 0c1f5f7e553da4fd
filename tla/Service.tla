------------------------------ MODULE Service ------------------------------
(***************************************************************************)
(* The life of a request: the handler that saves and enqueues it           *)
(* (SubmitRequest), the queue, the workers that process it (processItem),  *)
(* the retry timers (delayedEnqueue), its row in the requests table, and   *)
(* main's shutdown.  A request is identified with its queue item.          *)
(*                                                                         *)
(* The module extends Queue and uses its actions, except Enqueue: that a   *)
(* request is never enqueued while it is queued or being processed is      *)
(* Queue's assumption about its callers, and a property to be checked here *)
(* (see KeepsQueueContract).  The key pool is KeySlots, which KeyPool      *)
(* implements: GetKey may always find nothing (open circuits, rate limits, *)
(* its own early exits), and what it gives comes out of the slots.         *)
(***************************************************************************)
EXTENDS Queue

CONSTANTS
  Keys, ConcurrentLimit,   \* as in KeySlots
  AttemptLimits, \* the values retry_max_attempts may take while the service runs
  DBFails,       \* may a database call fail while the context is alive?
  CanStop,       \* may main shut the service down?
  MaxCalls,      \* bound on the upstream calls of one request
  NoIdem,        \* "no idempotency_key in the body"
  Submissions    \* the ways in which clients may assign idempotency keys

\* retry_max_attempts is an int: of the values it takes one is the largest.
ASSUME AttemptsAssumption == /\ AttemptLimits \subseteq Nat \ {0}
                             /\ \E max \in AttemptLimits : \A n \in AttemptLimits : n <= max
ASSUME SwitchesAssumption == DBFails \in BOOLEAN /\ CanStop \in BOOLEAN /\ MaxCalls \in Nat

VARIABLES
  idem,      \* the idempotency key of each request's body
  api,       \* how far each request's handler is, and its answer
  row,       \* the row in requests: status and attempts
  step,      \* where each busy worker is in processItem
  loaded,    \* req.Attempts as each worker has read it
  holders,   \* the workers that use each key
  timers,    \* requests waiting in a delayedEnqueue goroutine
  calls,     \* history: upstream calls made for each request
  oks        \* history: 2xx answers received for each request

requestVars == <<idem, api, row, step, loaded, holders, timers, calls, oks>>
serviceVars == <<vars, requestVars>>

Statuses == {"none", "pending", "processing", "success", "failed"}
Terminal == {"success", "failed"}
Steps    == {"load", "key", "mark", "call", "success", "failed", "retry"}

MaxAttempts == CHOOSE max \in AttemptLimits : \A n \in AttemptLimits : n <= max

Slots == INSTANCE KeySlots

-----------------------------------------------------------------------------
(* The requests table.                                                     *)

CreateRequest(r) == row' = [row EXCEPT ![r] = [status |-> "pending", attempts |-> 0]]

UpdateRequestStatus(r, status, attempts) ==
  row' = [row EXCEPT ![r] = [status |-> status, attempts |-> attempts]]

UpdateRequestResult(r, status) == row' = [row EXCEPT ![r].status = status]

\* What a database call with the workers' context may do: a cancelled context
\* fails it, and so may the database.
DBAnswers == {ok \in BOOLEAN : IF ok THEN ~ ctxDone ELSE ctxDone \/ DBFails}

-----------------------------------------------------------------------------
(* SubmitRequest.  There is no guard on the state of main: Shutdown gives  *)
(* up on slow handlers, which run on.                                      *)

\* The rows that have the idempotency key of r.
Existing(r) == {s \in Items : idem[s] = idem[r] /\ idem[r] # NoIdem /\ row[s].status # "none"}

\* Validation and the idempotency check: 200 with the existing row, or go on.
Check(r) ==
  /\ api[r] = "new"
  /\ \/ Existing(r) = {} /\ api' = [api EXCEPT ![r] = "checked"]
     \/ Existing(r) # {} /\ api' = [api EXCEPT ![r] = "existing"]
     \/ DBFails /\ idem[r] # NoIdem /\ api' = [api EXCEPT ![r] = "refused"]
  /\ UNCHANGED <<vars, idem, row, step, loaded, holders, timers, calls, oks>>

\* A table without the constraint.
InsertAlways(r) == TRUE

\* idempotency_key is UNIQUE: the check may be out of date by now.
MayInsert(r) == Existing(r) = {}

\* CreateRequest; 500 when it fails.
Save(r) ==
  /\ api[r] = "checked"
  /\ \/ /\ MayInsert(r)
        /\ CreateRequest(r) /\ api' = [api EXCEPT ![r] = "saved"]
     \/ /\ DBFails \/ ~ MayInsert(r)
        /\ api' = [api EXCEPT ![r] = "refused"] /\ UNCHANGED row
  /\ UNCHANGED <<vars, idem, step, loaded, holders, timers, calls, oks>>

\* Enqueue and the answer: 202, or 503 with the row left as it is.
Offer(r) ==
  /\ api[r] = "saved" /\ EnqueueCall(r)
  /\ api' = [api EXCEPT ![r] = IF r \in pq' THEN "accepted" ELSE "refused"]
  /\ UNCHANGED <<idem, row, step, loaded, holders, timers, calls, oks>>

-----------------------------------------------------------------------------
(* processItem.                                                            *)

At(w, s) == worker[w] = "busy" /\ step[w] = s

Goto(w, s) == step' = [step EXCEPT ![w] = s] /\ UNCHANGED vars

\* processItem returns: the worker lets go of the item, its locals go.
Return(w) == /\ Finish(w) /\ step' = [step EXCEPT ![w] = "load"]
             /\ loaded' = [loaded EXCEPT ![w] = 0]

\* Rows that are already finished are skipped.
Skip(r) == row[r].status \in Terminal

\* GetRequest and the test for a finished request; on an error the item is
\* dropped with a line in the log.
Load(w) ==
  /\ At(w, "load")
  /\ \E ok \in DBAnswers :
       IF ok /\ ~ Skip(held[w])
       THEN loaded' = [loaded EXCEPT ![w] = row[held[w]].attempts] /\ Goto(w, "key")
       ELSE Return(w)
  /\ UNCHANGED <<idem, api, row, holders, timers, calls, oks>>

\* GetKey returns a key.
KeyFound(w) ==
  /\ At(w, "key") /\ Goto(w, "mark")
  /\ \E k \in Keys : Slots!Grant(w, k)
  /\ UNCHANGED <<idem, api, row, loaded, timers, calls, oks>>

\* A slot that is kept.
ReleaseForgotten(w) == UNCHANGED holders

\* ReleaseKey: after the call, whatever came of it, or a failed decryption.
ReleaseKey(w) == \E k \in Keys : Slots!Return(w, k)

\* requeueWithDelay: the attempt does not count.
NoKeyFound(w) ==
  /\ At(w, "key")
  /\ timers' = timers \cup {held[w]} /\ Return(w)
  /\ UNCHANGED <<idem, api, row, holders, calls, oks>>

\* req.Attempts+1.
Attempt(w) == loaded[w] + 1

\* UpdateRequestStatus, whose error is ignored.
Mark(w) ==
  /\ At(w, "mark") /\ Goto(w, "call")
  /\ \E ok \in DBAnswers :
       IF ok THEN UpdateRequestStatus(held[w], "processing", Attempt(w)) ELSE UNCHANGED row
  /\ UNCHANGED <<idem, api, loaded, holders, timers, calls, oks>>

\* The key cannot be decrypted, or the context is cancelled and Do fails.
CallFails(w) ==
  /\ At(w, "call") /\ Goto(w, "retry") /\ ReleaseKey(w)
  /\ UNCHANGED <<idem, api, row, loaded, timers, calls, oks>>

\* The upstream call: 2xx, another 4xx, or an error, 429 or 5xx.
Call(w) ==
  /\ At(w, "call") /\ ~ ctxDone /\ calls[held[w]] < MaxCalls
  /\ calls' = [calls EXCEPT ![held[w]] = @ + 1] /\ ReleaseKey(w)
  /\ \E answer \in {"success", "failed", "retry"} :
       /\ Goto(w, answer)
       /\ oks' = IF answer = "success" THEN [oks EXCEPT ![held[w]] = @ + 1] ELSE oks
  /\ UNCHANGED <<idem, api, row, loaded, timers>>

\* persistResult (best effort).
Persist(r, status) ==
  \E ok \in DBAnswers : IF ok THEN UpdateRequestResult(r, status) ELSE UNCHANGED row

\* A success is put back into the queue when its result cannot be stored.
SettleRetries(w) ==
  /\ worker[w] = "busy" /\ step[w] \in Terminal
  /\ Persist(held[w], step[w])
  /\ timers' = IF row' = row THEN timers \cup {held[w]} ELSE timers
  /\ Return(w)
  /\ UNCHANGED <<idem, api, holders, calls, oks>>

Settle(w) ==
  /\ worker[w] = "busy" /\ step[w] \in Terminal
  /\ Persist(held[w], step[w]) /\ Return(w)
  /\ UNCHANGED <<idem, api, holders, timers, calls, oks>>

\* One retry too many.
ShouldRetryOnceMore(attempts, max) == attempts <= max

ShouldRetry(attempts, max) == attempts < max

\* handleFailure: a timer, or the final result.  Every failure reads the running
\* configuration, which a reload may have changed since the last one.
HandleFailure(w) ==
  /\ At(w, "retry")
  /\ \E max \in AttemptLimits :
       \/ ShouldRetry(Attempt(w), max) /\ timers' = timers \cup {held[w]} /\ UNCHANGED row
       \/ ~ ShouldRetry(Attempt(w), max) /\ Persist(held[w], "failed") /\ UNCHANGED timers
  /\ Return(w)
  /\ UNCHANGED <<idem, api, holders, calls, oks>>

ProcessItem(w) == \/ Load(w) \/ KeyFound(w) \/ NoKeyFound(w) \/ Mark(w)
                  \/ CallFails(w) \/ Call(w) \/ Settle(w) \/ HandleFailure(w)

-----------------------------------------------------------------------------
(* delayedEnqueue.                                                         *)

\* A ticker in the place of the timer.
TimerFiresAgain(r) ==
  /\ r \in timers /\ timers' = timers /\ EnqueueCall(r)
  /\ UNCHANGED <<idem, api, row, step, loaded, holders, calls, oks>>

\* The timer fires; an error of Enqueue is logged.
TimerFires(r) ==
  /\ r \in timers /\ timers' = timers \ {r} /\ EnqueueCall(r)
  /\ UNCHANGED <<idem, api, row, step, loaded, holders, calls, oks>>

\* ctx.Done: the goroutine returns.
TimerCancelled(r) ==
  /\ r \in timers /\ ctxDone
  /\ timers' = timers \ {r}
  /\ UNCHANGED <<vars, idem, api, row, step, loaded, holders, calls, oks>>

-----------------------------------------------------------------------------
(* main: rootCancel(), then q.Close().                                     *)

Stop  == CanStop /\ RootCancel /\ UNCHANGED requestVars
Close == ctxDone /\ (CloseMark \/ CloseSignal) /\ UNCHANGED requestVars

ServiceInit ==
  /\ Init /\ idem \in Submissions
  /\ api = [r \in Items |-> "new"]
  /\ row = [r \in Items |-> [status |-> "none", attempts |-> 0]]
  /\ step = [w \in Workers |-> "load"] /\ loaded = [w \in Workers |-> 0]
  /\ Slots!Init /\ timers = {} /\ calls = [r \in Items |-> 0] /\ oks = [r \in Items |-> 0]

Submit(r)     == Check(r) \/ Save(r) \/ Offer(r)
RetryTimer(r) == TimerFires(r) \/ TimerCancelled(r)
QueueStep     == Dispatcher /\ UNCHANGED requestVars
WorkerLoop(w) == \/ (Park(w) \/ WorkerExit(w)) /\ UNCHANGED requestVars
                 \/ ProcessItem(w)

ServiceNext == \/ \E r \in Items : Submit(r) \/ RetryTimer(r)
               \/ QueueStep \/ Stop \/ Close
               \/ \E w \in Workers : WorkerLoop(w)

ServiceSpec == ServiceInit /\ [][ServiceNext]_serviceVars

\* Goroutines run, calls end, timers fire; and a key is found now and then
\* when a request keeps asking for one (breakers cool down, slots are released,
\* rate windows end).
ServiceFairness ==
  /\ WF_serviceVars(QueueStep) /\ WF_serviceVars(Close)
  /\ \A r \in Items : WF_serviceVars(Save(r) \/ Offer(r)) /\ WF_serviceVars(RetryTimer(r))
  /\ \A w \in Workers : WF_serviceVars(WorkerLoop(w)) /\ SF_serviceVars(KeyFound(w))

-----------------------------------------------------------------------------
(* Properties.                                                             *)

\* The type invariant of the request's row, handler and worker.  A worker has a
\* key from GetKey to ReleaseKey and at no other time.
ServiceTypeOK ==
  /\ TypeOK /\ idem \in Submissions
  /\ api \in [Items -> {"new", "checked", "existing", "saved", "accepted", "refused"}]
  /\ row \in [Items -> [status : Statuses, attempts : 0..MaxAttempts]]
  /\ step \in [Workers -> Steps] /\ loaded \in [Workers -> 0..MaxAttempts]
  /\ timers \subseteq Items /\ holders \in [Keys -> SUBSET Workers]
  /\ \A w \in Workers : Slots!HasKey(w) <=> worker[w] = "busy" /\ step[w] \in {"mark", "call"}
  /\ calls \in [Items -> Nat] /\ oks \in [Items -> Nat]

\* The service is a legal user of the queue: every step of it is a step of
\* Queue or leaves the queue alone.  In particular a retry timer never puts
\* a request back that is queued, in the dispatcher's hand or with a worker.
KeepsQueueContract == Spec

\* A request has one owner: its handler, a timer, the queue or one worker.
OneOwner ==
  \A r \in Items :
    /\ r \in timers => Outside(r)
    /\ api[r] \in {"new", "checked", "saved"} => r \notin timers /\ Outside(r)

\* An idempotency key "Prevents duplicate processing" (README.md:470): of the
\* requests that share one at most one is ever sent upstream, although the
\* check and the insert are separate calls and submissions may overlap
\* (handlers.go:80-121, migrations/002_create_requests.sql:4).
ProcessedOnce ==
  \A r, s \in Items :
    r # s /\ idem[r] = idem[s] /\ idem[r] # NoIdem => calls[r] = 0 \/ calls[s] = 0

\* A finished request stays finished: no late write of a worker that still
\* believes it is processing the request changes its final status.
FinishedIsFinal ==
  [][\A r \in Items : row[r].status \in Terminal => row'[r] = row[r]]_serviceVars

\* A request is never called more often than retry_max_attempts ever allowed,
\* although the count is carried by a row that every attempt reads and writes
\* back, and waiting for a key and cancelled calls do not count.
AttemptsRespected == \A r \in Items : calls[r] <= MaxAttempts

\* The upstream's answer and the row agree: at most one call of a request
\* succeeds, one that succeeded is never recorded as failed, and
\* "success" is only recorded after a 2xx; whatever the database loses.
ResultIsTrue ==
  \A r \in Items : /\ oks[r] <= 1
                   /\ row[r].status = "success" => oks[r] = 1
                   /\ row[r].status = "failed" => oks[r] = 0
=============================================================================
