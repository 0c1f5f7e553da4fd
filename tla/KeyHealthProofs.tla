--------------------------- MODULE KeyHealthProofs ---------------------------
(***************************************************************************)
(* The breaker's safety for any number of workers reporting in any order   *)
(* and any configured threshold, zero and negative ones included.          *)
(***************************************************************************)
EXTENDS KeyHealth, TLAPS

\* The breaker stays well-formed under each of its methods.
LEMMA BreakerTyped ==
  ASSUME NEW b \in Breakers
  PROVE  /\ AfterAllow(b) \in Breakers /\ AfterSuccess(b) \in Breakers
         /\ AfterFailure(b) \in Breakers /\ AfterCooldown(b) \in Breakers
<1>1. AfterAllow(b) \in Breakers /\ AfterCooldown(b) \in Breakers
  BY DEF Breakers, CircuitStates, AfterAllow, AfterCooldown
<1>2. AfterSuccess(b) \in Breakers /\ AfterFailure(b) \in Breakers
  BY ThresholdAssumption DEF Breakers, CircuitStates, AfterSuccess, AfterFailure
<1> QED BY <1>1, <1>2

\* Every step leaves the breaker alone or applies one method to it.
LEMMA BreakerSteps ==
  ASSUME [Next]_vars
  PROVE  \/ breaker' = breaker
         \/ AllowRequest(breaker) /\ breaker' = AfterAllow(breaker)
         \/ breaker' = AfterSuccess(breaker)
         \/ breaker' = AfterFailure(breaker)
         \/ breaker.state = "open" /\ breaker' = AfterCooldown(breaker)
<1>1. CASE \E w \in Workers : WorkerStep(w)
  BY <1>1 DEF WorkerStep, Filter, Pick, Respond, MarkSuccess, SuccessPrev, SuccessRecord,
              SuccessEvent, MarkFailed, FailPrev, FailRecord, FailSeen, FailEvent, FailCount,
              FailSave
<1>2. CASE ResetKeyCircuit \/ Cooldown
  BY <1>2 DEF ResetKeyCircuit, Cooldown
<1> QED BY <1>1, <1>2 DEF Next, vars

\* Each assignment to a worker's local variables keeps them typed.
LEMMA LocalsTyped ==
  ASSUME local \in [Workers -> Locals], NEW w \in Workers, NEW s \in CircuitStates, NEW n \in Nat
  PROVE  /\ [local EXCEPT ![w] = NoLocals] \in [Workers -> Locals]
         /\ [local EXCEPT ![w].admitted = s] \in [Workers -> Locals]
         /\ [local EXCEPT ![w].prev = s] \in [Workers -> Locals]
         /\ [local EXCEPT ![w].seen = s] \in [Workers -> Locals]
         /\ [local EXCEPT ![w].count = n] \in [Workers -> Locals]
<1>1. NoLocals \in Locals
  BY DEF NoLocals, Locals, CircuitStates
<1>2. local[w] \in Locals
  OBVIOUS
<1>3. [local[w] EXCEPT !.admitted = s] \in Locals /\ [local[w] EXCEPT !.prev = s] \in Locals
  BY <1>2 DEF Locals
<1>4. [local[w] EXCEPT !.seen = s] \in Locals /\ [local[w] EXCEPT !.count = n] \in Locals
  BY <1>2 DEF Locals
<1> QED BY <1>1, <1>3, <1>4

\* Type correctness of the breaker, the workers' local reads and the tables.
THEOREM TypeCorrect == Spec => []TypeOK
<1>1. Init => TypeOK
  <2> SUFFICES ASSUME Init PROVE TypeOK
    OBVIOUS
  <2>1. breaker \in Breakers
    BY DEF Init, NewBreaker, Breakers, CircuitStates
  <2>2. local \in [Workers -> Locals] /\ job \in [Workers -> Jobs]
    BY DEF Init, NoLocals, Locals, CircuitStates, Jobs
  <2>3. row \in [state : CircuitStates, failureCount : Nat]
    BY DEF Init, CircuitStates
  <2>4. events \subseteq {""}
    BY DEF Init
  <2> QED BY <2>1, <2>2, <2>3, <2>4 DEF TypeOK
<1>2. TypeOK /\ [Next]_vars => TypeOK'
  <2> SUFFICES ASSUME TypeOK, [Next]_vars PROVE TypeOK'
    OBVIOUS
  <2>1. breaker \in Breakers /\ breaker' \in Breakers
    BY BreakerSteps, BreakerTyped DEF TypeOK
  <2>2. breaker.state \in CircuitStates /\ breaker'.state \in CircuitStates
        /\ breaker.failureCount \in Nat
    BY <2>1 DEF Breakers
  <2>3. ASSUME NEW w \in Workers, NEW j \in Jobs, Goto(w, j) PROVE job' \in [Workers -> Jobs]
    BY <2>3 DEF Goto, TypeOK
  <2>4. ASSUME NEW w \in Workers, Return(w)
        PROVE  job' \in [Workers -> Jobs] /\ local' \in [Workers -> Locals]
    BY <2>4, LocalsTyped, <2>2 DEF Goto, Return, Jobs, TypeOK
  <2>5. LogKeyEvent => events' \subseteq {""}
    BY DEF LogKeyEvent, TypeOK
  <2>6. ASSUME NEW w \in Workers, WorkerStep(w) PROVE job' \in [Workers -> Jobs]
    BY <2>3, <2>4, <2>6
       DEF WorkerStep, Filter, Pick, Respond, MarkSuccess, SuccessPrev, SuccessRecord,
           SuccessEvent, MarkFailed, FailPrev, FailRecord, FailSeen, FailEvent, FailCount,
           FailSave, Jobs
  <2>7. ASSUME NEW w \in Workers, WorkerStep(w) PROVE local' \in [Workers -> Locals]
    <3>1. local \in [Workers -> Locals]
      BY DEF TypeOK
    <3>2. \/ local' = local \/ Return(w)
          \/ local' = [local EXCEPT ![w].admitted = breaker'.state]
          \/ local' = [local EXCEPT ![w].prev = breaker.state]
          \/ local' = [local EXCEPT ![w].seen = breaker.state]
          \/ local' = [local EXCEPT ![w].count = breaker.failureCount]
      BY <2>7 DEF WorkerStep, Filter, Pick, Respond, MarkSuccess, SuccessPrev, SuccessRecord,
                  SuccessEvent, MarkFailed, FailPrev, FailRecord, FailSeen, FailEvent,
                  FailCount, FailSave
    <3>3. \A s \in CircuitStates :
            /\ [local EXCEPT ![w].admitted = s] \in [Workers -> Locals]
            /\ [local EXCEPT ![w].prev = s] \in [Workers -> Locals]
            /\ [local EXCEPT ![w].seen = s] \in [Workers -> Locals]
      BY <3>1, LocalsTyped, <2>2
    <3>4. [local EXCEPT ![w].count = breaker.failureCount] \in [Workers -> Locals]
      BY <3>1, LocalsTyped, <2>2
    <3> QED BY <3>1, <3>2, <3>3, <3>4, <2>2, <2>4, Zenon
  <2>8. ASSUME NEW w \in Workers, WorkerStep(w)
        PROVE  /\ row' \in [state : CircuitStates, failureCount : Nat]
               /\ events' \subseteq {""}
    <3>1. row \in [state : CircuitStates, failureCount : Nat] /\ local[w] \in Locals
      BY DEF TypeOK
    <3>2. row' = row \/ row' = [state |-> local[w].seen, failureCount |-> local[w].count]
      BY <2>8 DEF WorkerStep, Filter, Pick, Respond, MarkSuccess, SuccessPrev, SuccessRecord,
                  SuccessEvent, MarkFailed, FailPrev, FailRecord, FailSeen, FailEvent,
                  FailCount, FailSave, tableVars
    <3>3. UNCHANGED events \/ LogKeyEvent
      BY <2>8 DEF WorkerStep, Filter, Pick, Respond, MarkSuccess, SuccessPrev, SuccessRecord,
                  SuccessEvent, MarkFailed, FailPrev, FailRecord, FailSeen, FailEvent,
                  FailCount, FailSave, tableVars
    <3>4. row' \in [state : CircuitStates, failureCount : Nat]
      BY <3>1, <3>2 DEF Locals
    <3>5. events' \subseteq {""}
      BY <3>3, <2>5 DEF TypeOK
    <3> QED BY <3>4, <3>5
  <2>9. CASE \E w \in Workers : WorkerStep(w)
    BY <2>1, <2>6, <2>7, <2>8, <2>9 DEF TypeOK
  <2>10. CASE ResetKeyCircuit
    <3>1. row' \in [state : CircuitStates, failureCount : Nat]
      BY <2>10 DEF ResetKeyCircuit, CircuitStates
    <3> QED BY <2>1, <2>10, <3>1 DEF ResetKeyCircuit, TypeOK
  <2>11. CASE Cooldown
    BY <2>1, <2>11 DEF Cooldown, TypeOK, tableVars
  <2>12. CASE UNCHANGED vars
    BY <2>12 DEF vars, TypeOK
  <2> QED BY <2>9, <2>10, <2>11, <2>12 DEF Next
<1> QED BY <1>1, <1>2, PTL DEF Spec

\* The circuit is closed exactly while the failure count is under the threshold.
THEOREM CountMatchesStateHolds == Spec => []CountMatchesState
<1>1. Init => CountMatchesState
  BY ThresholdAssumption DEF Init, NewBreaker, CountMatchesState
<1>2. TypeOK /\ CountMatchesState /\ [Next]_vars => CountMatchesState'
  <2> SUFFICES ASSUME TypeOK, CountMatchesState, [Next]_vars PROVE CountMatchesState'
    OBVIOUS
  <2>1. breaker \in Breakers
    BY DEF TypeOK
  <2> QED
    BY <2>1, BreakerSteps, ThresholdAssumption
       DEF CountMatchesState, Breakers, CircuitStates, AfterAllow, AfterSuccess, AfterFailure,
           AfterCooldown
<1> QED BY <1>1, <1>2, TypeCorrect, PTL DEF Spec

\* A failure recorded while the circuit is not closed reopens it and restarts
\* its cooldown: the count is already at the threshold, by CountMatchesState.
THEOREM FailedProbeReopensHolds == Spec => FailedProbeReopens
<1>1. TypeOK /\ CountMatchesState /\ [Next]_vars =>
        [breaker.state # "closed" /\ breaker'.failureCount > breaker.failureCount =>
           breaker'.state = "open" /\ ~ breaker'.cooled]_vars
  <2> SUFFICES ASSUME TypeOK, CountMatchesState, [Next]_vars, breaker.state # "closed",
                      breaker'.failureCount > breaker.failureCount
               PROVE  breaker'.state = "open" /\ ~ breaker'.cooled
    OBVIOUS
  <2>1. breaker \in Breakers
    BY DEF TypeOK
  <2>2. breaker' = AfterFailure(breaker)
    BY <2>1, BreakerSteps DEF Breakers, AfterAllow, AfterSuccess, AfterCooldown
  <2> QED BY <2>1, <2>2, ThresholdAssumption DEF CountMatchesState, Breakers, AfterFailure
<1> QED BY <1>1, TypeCorrect, CountMatchesStateHolds, PTL DEF Spec, FailedProbeReopens
=============================================================================
