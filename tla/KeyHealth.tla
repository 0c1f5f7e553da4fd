------------------------------ MODULE KeyHealth ------------------------------
(***************************************************************************)
(* The health of one API key: its circuit breaker, the workers that use    *)
(* the key, the two calls by which they report (Manager.MarkSuccess and    *)
(* Manager.MarkFailed), the health columns of the key's api_keys row, the  *)
(* key_events table, and the administrator's reset.                        *)
(*                                                                         *)
(* MarkSuccess and MarkFailed take the breaker's mutex once per question   *)
(* (State, RecordFailure, State, FailureCount), so each question is a step *)
(* and a worker carries what it read in local variables.                   *)
(***************************************************************************)
EXTENDS CircuitBreaker, FiniteSets

CONSTANTS
  Workers,
  MaxFailures    \* bound on failureCount, for TLC

ASSUME MaxFailuresAssumption == MaxFailures \in Nat

VARIABLES
  breaker,    \* the key's CircuitBreaker
  job,        \* where each worker is with this key
  local,      \* the local variables of each worker's call, see Locals
  row,        \* circuit_state and failure_count in api_keys
  events      \* the ids in key_events

vars == <<breaker, job, local, row, events>>
tableVars == <<row, events>>

Jobs == {"away", "filtered", "calling",
         "ok_prev", "ok_record", "ok_event",
         "fail_prev", "fail_record", "fail_seen", "fail_event", "fail_count", "fail_save"}

\* admitted (a history of the call): the breaker's state when the worker was let
\* through; prev and seen: previousState and newState in MarkSuccess and
\* MarkFailed; count: the FailureCount() passed to UpdateAPIKeyHealth.
Locals == [admitted : CircuitStates, prev : CircuitStates, seen : CircuitStates, count : Nat]

NoLocals == [admitted |-> "closed", prev |-> "closed", seen |-> "closed", count |-> 0]

Goto(w, j) == job' = [job EXCEPT ![w] = j]

\* The worker is done with the key; its local variables go out of scope.
Return(w) == Goto(w, "away") /\ local' = [local EXCEPT ![w] = NoLocals]

-----------------------------------------------------------------------------
(* GetKey, as far as this key is concerned.                                *)

\* The availability filter asks AllowRequest.
Filter(w) ==
  /\ job[w] = "away" /\ AllowRequest(breaker)
  /\ breaker' = AfterAllow(breaker)
  /\ local' = [local EXCEPT ![w].admitted = breaker'.state]
  /\ Goto(w, "filtered")
  /\ UNCHANGED tableVars

\* The strategy picks this key and its slot is acquired, or GetKey moves on.
Pick(w) ==
  /\ job[w] = "filtered"
  /\ (Goto(w, "calling") /\ UNCHANGED local) \/ Return(w)
  /\ UNCHANGED <<breaker, tableVars>>

\* processItem: the upstream call ends and decides which report is made.
Respond(w) ==
  /\ job[w] = "calling"
  /\ \/ Goto(w, "ok_prev")
     \/ /\ breaker.failureCount + Cardinality({v \in Workers : job[v] \in {"fail_prev", "fail_record"}})
             < MaxFailures
        /\ Goto(w, "fail_prev")
  /\ UNCHANGED <<breaker, local, tableVars>>

-----------------------------------------------------------------------------
(* logKeyEvent: the event is inserted with the zero value of its id, which *)
(* is the primary key of key_events; a failed insert is logged.            *)

LogKeyEvent == events' = events \cup {""}

(* MarkSuccess. *)

SuccessPrev(w) ==
  /\ job[w] = "ok_prev" /\ local' = [local EXCEPT ![w].prev = breaker.state]
  /\ Goto(w, "ok_record")
  /\ UNCHANGED <<breaker, tableVars>>

SuccessRecord(w) ==
  /\ job[w] = "ok_record" /\ breaker' = AfterSuccess(breaker)
  /\ Goto(w, "ok_event")
  /\ UNCHANGED <<local, tableVars>>

\* The event, if the circuit was not closed, then last_used_at only.
SuccessEvent(w) ==
  /\ job[w] = "ok_event" /\ Return(w)
  /\ IF local[w].prev # "closed" THEN LogKeyEvent ELSE UNCHANGED events
  /\ UNCHANGED <<breaker, row>>

(* MarkFailed. *)

FailPrev(w) ==
  /\ job[w] = "fail_prev" /\ local' = [local EXCEPT ![w].prev = breaker.state]
  /\ Goto(w, "fail_record")
  /\ UNCHANGED <<breaker, tableVars>>

FailRecord(w) ==
  /\ job[w] = "fail_record" /\ breaker' = AfterFailure(breaker)
  /\ Goto(w, "fail_seen")
  /\ UNCHANGED <<local, tableVars>>

FailSeen(w) ==
  /\ job[w] = "fail_seen" /\ local' = [local EXCEPT ![w].seen = breaker.state]
  /\ Goto(w, "fail_event")
  /\ UNCHANGED <<breaker, tableVars>>

FailEvent(w) ==
  /\ job[w] = "fail_event" /\ Goto(w, "fail_count")
  /\ IF local[w].prev # local[w].seen THEN LogKeyEvent ELSE UNCHANGED events
  /\ UNCHANGED <<breaker, local, row>>

FailCount(w) ==
  /\ job[w] = "fail_count" /\ local' = [local EXCEPT ![w].count = breaker.failureCount]
  /\ Goto(w, "fail_save")
  /\ UNCHANGED <<breaker, tableVars>>

\* UpdateAPIKeyHealth with what the worker read; a failed write is ignored.
FailSave(w) ==
  /\ job[w] = "fail_save" /\ Return(w)
  /\ row' \in {row, [state |-> local[w].seen, failureCount |-> local[w].count]}
  /\ UNCHANGED <<breaker, events>>

-----------------------------------------------------------------------------
\* The administrator's POST /admin/keys/{id}/reset: ResetAPIKeyCircuit, then
\* logKeyEvent, which panics on its nil context before it inserts anything.
ResetKeyCircuit ==
  /\ row' = [state |-> "closed", failureCount |-> 0]
  /\ UNCHANGED <<breaker, job, local, events>>

Cooldown ==
  /\ breaker.state = "open" /\ ~ breaker.cooled
  /\ breaker' = AfterCooldown(breaker)
  /\ UNCHANGED <<job, local, tableVars>>

Init ==
  /\ breaker = NewBreaker /\ job = [w \in Workers |-> "away"]
  /\ local = [w \in Workers |-> NoLocals]
  /\ row = [state |-> "closed", failureCount |-> 0]
  /\ events = {}

MarkSuccess(w) == SuccessPrev(w) \/ SuccessRecord(w) \/ SuccessEvent(w)
MarkFailed(w)  == \/ FailPrev(w) \/ FailRecord(w) \/ FailSeen(w)
                  \/ FailEvent(w) \/ FailCount(w) \/ FailSave(w)
WorkerStep(w)  == Filter(w) \/ Pick(w) \/ Respond(w) \/ MarkSuccess(w) \/ MarkFailed(w)

Next == (\E w \in Workers : WorkerStep(w)) \/ ResetKeyCircuit \/ Cooldown

Spec == Init /\ [][Next]_vars

\* Time passes, calls end, and requests keep asking for a key.
Fairness == WF_vars(Cooldown) /\ \A w \in Workers : WF_vars(WorkerStep(w))

FairSpec == Spec /\ Fairness

-----------------------------------------------------------------------------
(* Properties.                                                             *)

\* The type invariant of the breaker, the workers' local reads and the tables.
TypeOK ==
  /\ breaker \in Breakers /\ job \in [Workers -> Jobs]
  /\ local \in [Workers -> Locals]
  /\ row \in [state : CircuitStates, failureCount : Nat]
  /\ events \subseteq {""}

\* State and count never disagree: the circuit is closed exactly while the
\* count is under the threshold (under 1 for a threshold of zero or less),
\* although the two are changed by different methods and by workers that
\* report in any order (circuitbreaker.go:68-88).
CountMatchesState ==
  breaker.state = "closed" <=> breaker.failureCount < (IF Threshold > 1 THEN Threshold ELSE 1)

\* A failure recorded while the circuit is not closed always (re)opens it and
\* starts a new cooldown: AllowRequest leaves the count alone on its way to
\* half-open, so one failed probe is enough (circuitbreaker.go:44-65, 78-88).
FailedProbeReopens ==
  [][breaker.state # "closed" /\ breaker'.failureCount > breaker.failureCount =>
        breaker'.state = "open" /\ ~ breaker'.cooled]_vars

\* No key is lost for good: while workers keep asking for keys, an open circuit
\* is left again, although late failures keep restarting the cooldown.
OpenIsLeft == breaker.state = "open" ~> breaker.state # "open"

-----------------------------------------------------------------------------
(* What the repository says and the code does not do.                      *)

\* README.md:126: in half-open "one test request goes through".
OneProbe == Cardinality({w \in Workers : job[w] = "calling" /\ local[w].admitted = "half_open"}) <= 1
=============================================================================
