---------------------------- MODULE ServiceCrash ----------------------------
(***************************************************************************)
(* Service in a process that can die at any moment (a crash, or main       *)
(* returning while workers are still busy) and is started again.  Only the *)
(* requests table survives.                                                *)
(***************************************************************************)
EXTENDS Service

CONSTANT MaxCrashes   \* bound on the restarts

ASSUME CrashesAssumption == MaxCrashes \in Nat

VARIABLE crashes

crashVars == <<serviceVars, crashes>>

Unfinished == {r \in Items : row[r].status \in {"pending", "processing"}}

\* A startup that rebuilds the queue from the unfinished rows.
RequeuedUnfinished == Unfinished

\* What main puts into the new queue: nothing.
Requeued == {}

\* The process dies and main runs again, to the point where it serves requests.
\* A handler that was under way has not answered.
CrashRestart ==
  /\ crashes < MaxCrashes /\ crashes' = crashes + 1
  /\ pq' = Requeued /\ notify' = (Requeued # {}) /\ lost' = {} /\ hand' = None
  /\ closed' = FALSE /\ done' = FALSE /\ ctxDone' = FALSE /\ dispatch' = "wait"
  /\ worker' = [w \in Workers |-> "idle"] /\ held' = [w \in Workers |-> None]
  /\ step' = [w \in Workers |-> "load"] /\ loaded' = [w \in Workers |-> 0]
  /\ holders' = [k \in Keys |-> {}] /\ timers' = {}
  /\ api' = [r \in Items |-> IF api[r] \in {"checked", "saved"} THEN "refused" ELSE api[r]]
  /\ UNCHANGED <<idem, row, calls, oks>>

CrashInit == ServiceInit /\ crashes = 0
CrashNext == (ServiceNext /\ UNCHANGED crashes) \/ CrashRestart
CrashSpec == CrashInit /\ [][CrashNext]_crashVars

\* A crash is never fair; what runs between crashes is.
FairCrashSpec == CrashSpec /\ ServiceFairness

-----------------------------------------------------------------------------
\* No crash makes the service repeat a call that has succeeded, record a result
\* that is not the upstream's, or exceed the attempts: a request whose process
\* died is not taken up again.
TrueAcrossCrashes == ResultIsTrue /\ AttemptsRespected

\* An accepted request is eventually finished unless the process dies, if the
\* queue has room for all requests, the database works and nobody stops the
\* service: no wake-up, timer or item is lost on the way from the handler
\* through any number of waits for a key and retries to the final write
\* (queue.go:94-98, 131-162; worker.go:99-255).
\* A request that was answered with an existing one is finished with it.
AcceptedIsFinished ==
  /\ \A r \in Items : api[r] = "accepted" ~> row[r].status \in Terminal \/ crashes > 0
  /\ \A r \in Items : api[r] = "existing" ~>
        crashes > 0 \/ \E s \in Existing(r) : row[s].status \in Terminal

\* Somebody in the process will still work on the request.
InProcess(r) == r \in pq \cup {hand} \cup timers \/ \E w \in Workers : held[w] = r

\* README.md:95: "requests are saved to SQLite before entering the queue. If the
\* server crashes, nothing is silently lost."  After a restart every accepted
\* request that is not finished is in the new process.
NothingLostInCrash ==
  crashes > 0 => \A r \in Unfinished : api[r] = "accepted" => InProcess(r)
=============================================================================
