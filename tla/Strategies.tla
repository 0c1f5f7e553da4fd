----------------------------- MODULE Strategies -----------------------------
(***************************************************************************)
(* internal/keypool/roundrobin.go and weightedrr.go: the two selection     *)
(* strategies, each under its own mutex, called with the list of keys that *)
(* GetKey found available, and the switch between them (updateStrategy).   *)
(* Keys are numbered in the order of the pool (created_at); a list is a    *)
(* set of keys and keeps that order.                                       *)
(***************************************************************************)
EXTENDS Integers, Sequences, FiniteSets, FiniteSetsExt

CONSTANTS
  KeyCount,      \* the keys are 1..KeyCount
  MaxWeight,     \* bound on the configured weights
  Lists,         \* the lists of available keys that GetKey may pass
  MaxReweighs,   \* bound on the administrator's changes of weights
  MaxCalls       \* bound on the round-robin counter

Keys == 1..KeyCount
Nil  == 0

ASSUME ListsAssumption == /\ KeyCount \in Nat \ {0} /\ MaxWeight \in Nat \ {0}
                          /\ Lists \subseteq SUBSET Keys \ {{}}
                          /\ MaxReweighs \in Nat /\ MaxCalls \in Nat

VARIABLES
  active,       \* Manager.activeStmt
  weight,       \* PoolKey.Weight
  current,      \* currentWeights: a missing entry reads as zero
  picked,       \* history: the key the last weighted Select returned
  picks, calls, \* history: how often each key was picked, in how many calls
  reweighs,     \* how many weights were changed
  reweighed,    \* history: have they changed since current was last cleared?
  counter,      \* RoundRobinStrategy.counter
  recent        \* history: the last KeyCount results of the round robin

vars == <<active, weight, current, picked, picks, calls, reweighs, reweighed, counter, recent>>
weightVars   == <<weight, reweighs, reweighed>>
weightedVars == <<current, picked, picks, calls>>
roundVars    == <<counter, recent>>

\* The sums of f over the first keys of the pool, and over all of them.
Prefix(f) == LET upTo[n \in 0..KeyCount] == IF n = 0 THEN 0 ELSE upTo[n - 1] + f[n] IN upTo
SumOf(f)  == Prefix(f)[KeyCount]

\* totalWeight, added up in the loop over the list.
Total(keys) == SumOf([k \in Keys |-> IF k \in keys THEN weight[k] ELSE 0])

-----------------------------------------------------------------------------
(* WeightedRoundRobinStrategy.Select.                                      *)

\* A loop that starts at the second key of the list.
RaisedSkipsFirst(keys) ==
  [k \in Keys |-> current[k] + (IF k \in keys \ {Min(keys)} THEN weight[k] ELSE 0)]

\* Step 1: every listed key gains its weight.
Raised(keys) == [k \in Keys |-> current[k] + (IF k \in keys THEN weight[k] ELSE 0)]

\* Step 2: the first key with the highest current weight, if that exceeds the
\* initial maxWeight of -1; nil otherwise.
Heaviest(keys, cw) ==
  LET best == Min({k \in keys : \A j \in keys : cw[k] >= cw[j]})
  IN  IF cw[best] > -1 THEN best ELSE Nil

\* Only the picked key's own weight is taken off.
ChargeOwnWeight(keys, k) == weight[k]

\* Step 3: what the picked key pays.
Charge(keys, k) == Total(keys)

\* The whole call; the history starts again after every period.
WeightedSelect(keys) ==
  LET cw == Raised(keys)
      k  == Heaviest(keys, cw)
  IN  /\ active = "weighted_round_robin"
      /\ picked' = k
      /\ current' = IF k = Nil THEN cw ELSE [cw EXCEPT ![k] = @ - Charge(keys, k)]
      /\ IF calls = Total(Keys)
         THEN calls' = 1 /\ picks' = [j \in Keys |-> IF j = k THEN 1 ELSE 0]
         ELSE calls' = calls + 1 /\ picks' = [j \in Keys |-> picks[j] + (IF j = k THEN 1 ELSE 0)]
      /\ UNCHANGED <<active, weightVars, roundVars>>

\* PUT /admin/keys/{id}/weight, applied by the next reload; Reset is not called.
UpdateKeyWeight(k, new) ==
  /\ reweighs < MaxReweighs /\ reweighs' = reweighs + 1
  /\ weight' = [weight EXCEPT ![k] = new] /\ reweighed' = TRUE
  /\ calls' = 0 /\ picks' = [j \in Keys |-> 0]
  /\ UNCHANGED <<active, current, picked, roundVars>>

-----------------------------------------------------------------------------
(* RoundRobinStrategy.Select.                                              *)

\* The list as the slice it is.
InOrder(keys) == [i \in 1..Cardinality(keys) |->
                    CHOOSE k \in keys : Cardinality({j \in keys : j <= k}) = i]

\* The last key is never reached.
IndexOffByOne(n) == (counter % (n - 1)) + 1

Index(n) == (counter % n) + 1

RoundSelect(keys) ==
  /\ active = "round_robin"
  /\ counter < MaxCalls /\ counter' = counter + 1
  /\ LET k == InOrder(keys)[Index(Cardinality(keys))]
     IN  recent' = IF Len(recent) < KeyCount THEN Append(recent, k)
                   ELSE Append(Tail(recent), k)
  /\ UNCHANGED <<active, weightVars, weightedVars>>

-----------------------------------------------------------------------------
(* updateStrategy, after hotCfg.Strategy has changed: the strategy that    *)
(* becomes active is Reset; the one that is left keeps its state.          *)

\* A switch that takes the new strategy as it was left.
ResumeWeighted == UNCHANGED current

ResetWeighted == current' = [k \in Keys |-> 0]

SwitchToWeighted ==
  /\ active = "round_robin" /\ active' = "weighted_round_robin"
  /\ ResetWeighted /\ calls' = 0 /\ picks' = [k \in Keys |-> 0] /\ reweighed' = FALSE
  /\ UNCHANGED <<weight, reweighs, picked, roundVars>>

SwitchToRound ==
  /\ active = "weighted_round_robin" /\ active' = "round_robin"
  /\ counter' = 0 /\ recent' = <<>>
  /\ UNCHANGED <<weightVars, weightedVars>>

-----------------------------------------------------------------------------
Init ==
  /\ active \in {"round_robin", "weighted_round_robin"}
  /\ weight \in [Keys -> 1..MaxWeight]
  /\ current = [k \in Keys |-> 0] /\ picked = 1
  /\ picks = [k \in Keys |-> 0] /\ calls = 0
  /\ reweighs = 0 /\ reweighed = FALSE
  /\ counter = 0 /\ recent = <<>>

Next == \/ \E keys \in Lists : WeightedSelect(keys) \/ RoundSelect(keys)
        \/ \E k \in Keys, new \in 1..MaxWeight : UpdateKeyWeight(k, new)
        \/ SwitchToWeighted \/ SwitchToRound

Spec == Init /\ [][Next]_vars

-----------------------------------------------------------------------------
(* Properties.                                                             *)

\* Proportional over a period: as many calls as the weights add up to pick
\* every key exactly as often as its weight says and leave every current
\* weight at zero, so that the pattern repeats: from startup, and again from
\* every switch to this strategy, whatever state it was left in
\* (weightedrr.go:36-75, manager.go:314-323).
Proportional ==
  ~ reweighed /\ calls = Total(Keys) => picks = weight /\ current = [k \in Keys |-> 0]

\* Smooth: the picks are "spread evenly rather than clustered" (weightedrr.go:8-9).
\* At no moment is a key a whole pick ahead of its share, and none lags behind it
\* by more than half a pick for each other key: in a pool of up to three keys by
\* less than one whole pick (with four keys the lag can exceed one).
Smooth ==
  ~ reweighed => \A k \in Keys :
    LET owed == calls * weight[k] - picks[k] * Total(Keys)
    IN  /\ -Total(Keys) < owed /\ 2 * owed <= (KeyCount - 1) * Total(Keys)
        /\ KeyCount <= 3 => owed < Total(Keys)

\* The round robin cycles: on an unchanged list no key comes up again before
\* every other one has (roundrobin.go:26-37).
Cycles == \A i, j \in 1..Len(recent) : i # j => recent[i] # recent[j]

\* The initial maxWeight of -1 never makes Select return nil (weightedrr.go:48-58)
\* while the list is the whole pool, although administrators change weights and
\* nobody resets the current weights, which may be far below zero by then.
AlwaysPicks == picked # Nil
=============================================================================
