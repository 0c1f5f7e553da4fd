--------------------------- MODULE CircuitBreaker ---------------------------
(***************************************************************************)
(* internal/keypool/circuitbreaker.go: one breaker, as a record and what   *)
(* each method does to it under the breaker's own mutex.  The clock is     *)
(* reduced to the one question the code asks of it: cooled says whether    *)
(* openDuration has passed since lastFailedAt.                             *)
(***************************************************************************)
EXTENDS Integers

CONSTANT Threshold   \* failureThreshold; the configuration does not validate it

ASSUME ThresholdAssumption == Threshold \in Int

CircuitStates == {"closed", "open", "half_open"}

Breakers == [state : CircuitStates, failureCount : Nat, cooled : BOOLEAN]

\* NewCircuitBreaker; a zero lastFailedAt is long past.
NewBreaker == [state |-> "closed", failureCount |-> 0, cooled |-> TRUE]

\* An open breaker never lets anyone through.
AllowRequestUnlessOpen(b) == b.state # "open"

\* The return value of AllowRequest.
AllowRequest(b) == b.state = "open" => b.cooled

\* A probe that starts from a clean count.
AfterAllowResets(b) == IF b.state = "open" THEN [NewBreaker EXCEPT !.state = "half_open"] ELSE b

\* The transition AllowRequest makes when it returns true.
AfterAllow(b) == [b EXCEPT !.state = IF @ = "open" THEN "half_open" ELSE @]

\* A success that leaves the old failures on the count.
AfterSuccessKeepCount(b) == [b EXCEPT !.state = "closed"]

AfterSuccess(b) == [state |-> "closed", failureCount |-> 0, cooled |-> b.cooled]

\* A failure that counts down.
AfterFailureDown(b) ==
  [state |-> b.state, failureCount |-> b.failureCount - 1, cooled |-> FALSE]

AfterFailure(b) ==
  [state        |-> IF b.failureCount + 1 >= Threshold THEN "open" ELSE b.state,
   failureCount |-> b.failureCount + 1,
   cooled       |-> FALSE]

\* Time passes: openDuration is over.
AfterCooldown(b) == [b EXCEPT !.cooled = TRUE]
=============================================================================
