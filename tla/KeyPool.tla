------------------------------- MODULE KeyPool -------------------------------
(***************************************************************************)
(* internal/keypool/manager.go and types.go: the in-memory pool of keys,   *)
(* GetKey with its concurrency slots and rate limits, and the loop that    *)
(* reloads the pool from the api_keys table while administrators add and   *)
(* delete keys.                                                            *)
(*                                                                         *)
(* GetKey runs under the read lock m.mu, so several calls interleave: the  *)
(* breakers, the strategy and every key have mutexes of their own, and     *)
(* each use of one of those is a step.  The reload takes the write lock.   *)
(* A key's breaker is reduced to what GetKey asks of it (KeyHealth has its *)
(* detail), the choice of the strategy to a choice among the keys offered  *)
(* (Strategies has its detail).                                            *)
(***************************************************************************)
EXTENDS Integers, FiniteSets

CONSTANTS
  Keys,              \* every key that is ever created
  Workers,
  NoKey,             \* nil
  Windows,           \* the rate-limit windows: minute and day
  ConcurrentLimit,   \* per key
  RateLimit,         \* per key and window: RateLimitPerMinute, RateLimitPerDay
  MayPickNone        \* can the strategy return nil? (weighted round robin does)

ASSUME KeysAssumption    == NoKey \notin Keys
ASSUME WorkersAssumption == IsFiniteSet(Workers)
ASSUME LimitsAssumption  == /\ ConcurrentLimit \in [Keys -> Int]
                            /\ RateLimit \in [Keys -> [Windows -> Int]]
ASSUME PickAssumption    == MayPickNone \in BOOLEAN

VARIABLES
  fresh, stored,     \* keys not yet created; keys in api_keys
  pool,              \* m.keys
  reloader,          \* where the reload goroutine is
  snapshot,          \* the dbKeys it has read
  blocked,           \* keys whose AllowRequest returns false
  conc,              \* currentConcurrent of each key
  used, expired,     \* minuteCounter/dayCounter; has the window's reset time passed?
  pc,                \* where each worker is in GetKey
  avail,             \* its list of available keys
  tries,             \* its loop counter
  key                \* the key it has selected, then holds

vars == <<fresh, stored, pool, reloader, snapshot, blocked, conc, used, expired,
          pc, avail, tries, key>>
tableVars  == <<fresh, stored>>
reloadVars == <<pool, reloader, snapshot>>
rateVars   == <<used, expired>>
getVars    == <<pc, avail, tries, key>>

Deleted == Keys \ (fresh \cup stored)

\* The workers that have the read lock, and those that occupy a slot of k.
Readers  == {w \in Workers : pc[w] \in {"select", "acquire", "rate"}}
Users(k) == {w \in Workers : pc[w] \in {"rate", "holding"} /\ key[w] = k}

-----------------------------------------------------------------------------
(* GetKey.                                                                 *)

\* RLock of a lock that lets readers pass a waiting writer.
CanRLockPastWriter == reloader # "write"

\* RLock: sync.RWMutex makes new readers wait for a waiting writer.
CanRLock == reloader # "lock"

\* A nil result that leaves the selected key behind.
BackKeepsKey(w) == /\ pc' = [pc EXCEPT ![w] = "idle"] /\ avail' = [avail EXCEPT ![w] = {}]
                   /\ tries' = [tries EXCEPT ![w] = 0] /\ UNCHANGED key

\* GetKey returns nil, or the worker is done with its key.
Back(w) == /\ pc' = [pc EXCEPT ![w] = "idle"] /\ avail' = [avail EXCEPT ![w] = {}]
           /\ tries' = [tries EXCEPT ![w] = 0] /\ key' = [key EXCEPT ![w] = NoKey]

\* RLock and the filter.  AllowRequest is asked of one key after the other; as
\* each answer depends on its own key only, one step stands for the loop.
GetKey(w) ==
  /\ pc[w] = "idle" /\ CanRLock
  /\ pool \ blocked # {}
  /\ pc' = [pc EXCEPT ![w] = "select"] /\ avail' = [avail EXCEPT ![w] = pool \ blocked]
  /\ UNCHANGED <<tableVars, reloadVars, blocked, conc, rateVars, tries, key>>

\* strategy.Select(available).
Select(w) ==
  /\ pc[w] = "select"
  /\ \/ \E k \in avail[w] : /\ key' = [key EXCEPT ![w] = k]
                            /\ pc' = [pc EXCEPT ![w] = "acquire"]
                            /\ UNCHANGED <<avail, tries>>
     \/ MayPickNone /\ Back(w)
  /\ UNCHANGED <<tableVars, reloadVars, blocked, conc, rateVars>>

\* removeKey, the test for an empty list, the loop's increment and its test:
\* the counter goes up while the list that bounds it gets shorter.
NextTry(w) ==
  LET rest == avail[w] \ {key[w]}
  IN  IF rest # {} /\ tries[w] + 1 < Cardinality(rest)
      THEN /\ pc' = [pc EXCEPT ![w] = "select"] /\ avail' = [avail EXCEPT ![w] = rest]
           /\ tries' = [tries EXCEPT ![w] = @ + 1] /\ key' = [key EXCEPT ![w] = NoKey]
      ELSE Back(w)

UnderLimit(k) == conc[k] < ConcurrentLimit[k]

\* TryConcurrentAcquire.
Acquire(w) ==
  /\ pc[w] = "acquire"
  /\ \/ /\ UnderLimit(key[w])
        /\ conc' = [conc EXCEPT ![key[w]] = @ + 1]
        /\ pc' = [pc EXCEPT ![w] = "rate"] /\ UNCHANGED <<avail, tries, key>>
     \/ ~ UnderLimit(key[w]) /\ NextTry(w) /\ UNCHANGED conc
  /\ UNCHANGED <<tableVars, reloadVars, blocked, rateVars>>

\* The counters of k once TryRateLimit has reset the windows that are over.
Current(k) == [win \in Windows |-> IF expired[k][win] THEN 0 ELSE used[k][win]]

\* One grant too many.
WithinRateOffByOne(k) == \A win \in Windows : Current(k)[win] <= RateLimit[k][win]

WithinRate(k) == \A win \in Windows : Current(k)[win] < RateLimit[k][win]

\* ConcurrentRelease.
Release(k) == conc' = [conc EXCEPT ![k] = IF @ > 0 THEN @ - 1 ELSE @]

\* TryRateLimit.
Rate(w) ==
  /\ pc[w] = "rate"
  /\ expired' = [expired EXCEPT ![key[w]] = [win \in Windows |-> FALSE]]
  /\ \/ /\ WithinRate(key[w])
        /\ used' = [used EXCEPT ![key[w]] = [win \in Windows |-> Current(key[w])[win] + 1]]
        /\ pc' = [pc EXCEPT ![w] = "holding"]
        /\ avail' = [avail EXCEPT ![w] = {}] /\ tries' = [tries EXCEPT ![w] = 0]
        /\ UNCHANGED <<conc, key>>
     \/ /\ ~ WithinRate(key[w])
        /\ used' = [used EXCEPT ![key[w]] = Current(key[w])]
        /\ Release(key[w]) /\ NextTry(w)
  /\ UNCHANGED <<tableVars, reloadVars, blocked>>

\* processItem: ReleaseKey after the call (or after a failed decryption).
ReleaseKey(w) ==
  /\ pc[w] = "holding" /\ Release(key[w]) /\ Back(w)
  /\ UNCHANGED <<tableVars, reloadVars, blocked, rateVars>>

-----------------------------------------------------------------------------
(* What happens to the keys meanwhile.                                     *)

\* A breaker opens, cools down or closes.  (Nobody asks one outside the pool.)
BreakerMoves(k) ==
  /\ k \in pool
  /\ blocked' = IF k \in blocked THEN blocked \ {k} ELSE blocked \cup {k}
  /\ UNCHANGED <<tableVars, reloadVars, conc, rateVars, getVars>>

\* The clock passes a window's reset time.
WindowEnds(k, win) ==
  /\ k \in pool /\ ~ expired[k][win] /\ expired' = [expired EXCEPT ![k][win] = TRUE]
  /\ UNCHANGED <<tableVars, reloadVars, blocked, conc, used, getVars>>

\* POST /admin/keys and DELETE /admin/keys/{id}: the table only.
AddKey(k) ==
  /\ k \in fresh /\ fresh' = fresh \ {k} /\ stored' = stored \cup {k}
  /\ UNCHANGED <<reloadVars, blocked, conc, rateVars, getVars>>

DeleteKey(k) ==
  /\ k \in stored /\ stored' = stored \ {k}
  /\ UNCHANGED <<fresh, reloadVars, blocked, conc, rateVars, getVars>>

-----------------------------------------------------------------------------
(* The reload loop: GetAllAPIKeys, then the write lock.                    *)

ReloadRead ==
  /\ reloader = "sleep"
  /\ reloader' = "read" /\ snapshot' = stored
  /\ UNCHANGED <<tableVars, pool, blocked, conc, rateVars, getVars>>

\* Lock() is called: new readers wait from here on.
ReloadLock ==
  /\ reloader = "read" /\ reloader' = "lock"
  /\ UNCHANGED <<tableVars, pool, snapshot, blocked, conc, rateVars, getVars>>

\* A reload that takes no lock.
NoExclusion == TRUE

\* The write lock is granted when the last reader leaves.
CanLock == Readers = {}

\* No runtime state survives a reload.
AllAreNew == snapshot

\* The keys of the snapshot that are not in the map of existing keys.
NewKeys == snapshot \ pool

\* Known keys keep their runtime state, new ones start with none.
ReloadApply ==
  LET Reset(f, v) == [k \in Keys |-> IF k \in NewKeys THEN v ELSE f[k]]
  IN  /\ reloader = "lock" /\ CanLock
      /\ pool' = snapshot /\ reloader' = "sleep" /\ snapshot' = {}
      /\ blocked' = blocked \ NewKeys
      /\ conc' = Reset(conc, 0)
      /\ used' = Reset(used, [win \in Windows |-> 0])
      /\ expired' = Reset(expired, [win \in Windows |-> TRUE])
      /\ UNCHANGED <<tableVars, getVars>>

\* NewManager has loaded the keys that the table holds at startup.
Init ==
  /\ stored \in SUBSET Keys /\ fresh = Keys \ stored /\ pool = stored
  /\ reloader = "sleep" /\ snapshot = {} /\ blocked = {}
  /\ conc = [k \in Keys |-> 0]
  /\ used = [k \in Keys |-> [win \in Windows |-> 0]]
  /\ expired = [k \in Keys |-> [win \in Windows |-> TRUE]]
  /\ pc = [w \in Workers |-> "idle"] /\ avail = [w \in Workers |-> {}]
  /\ tries = [w \in Workers |-> 0] /\ key = [w \in Workers |-> NoKey]

InGetKey(w) == Select(w) \/ Acquire(w) \/ Rate(w)
Reload      == ReloadRead \/ ReloadLock \/ ReloadApply

Next == \/ \E w \in Workers : GetKey(w) \/ InGetKey(w) \/ ReleaseKey(w)
        \/ \E k \in Keys : BreakerMoves(k) \/ AddKey(k) \/ DeleteKey(k)
        \/ \E k \in Keys, win \in Windows : WindowEnds(k, win)
        \/ Reload

Spec == Init /\ [][Next]_vars

\* A call of GetKey that has begun runs on, and so does the reload loop.
Fairness == WF_vars(Reload) /\ \A w \in Workers : WF_vars(InGetKey(w))

FairSpec == Spec /\ Fairness

-----------------------------------------------------------------------------
(* Properties.                                                             *)

\* The type invariant of the pool, the reload loop and the calls of GetKey.
TypeOK ==
  /\ stored \subseteq Keys /\ fresh \subseteq Keys /\ pool \subseteq Keys
  /\ reloader \in {"sleep", "read", "lock"} /\ snapshot \subseteq Keys
  /\ blocked \subseteq Keys /\ conc \in [Keys -> Nat]
  /\ used \in [Keys -> [Windows -> Nat]] /\ expired \in [Keys -> [Windows -> BOOLEAN]]
  /\ pc \in [Workers -> {"idle", "select", "acquire", "rate", "holding"}]
  /\ avail \in [Workers -> SUBSET Keys] /\ tries \in [Workers -> Nat]
  /\ key \in [Workers -> Keys \cup {NoKey}]
  /\ \A w \in Workers : pc[w] \in {"acquire", "rate", "holding"} <=> key[w] # NoKey

\* Slots are neither leaked nor freed twice: a key's counter is the number of
\* workers between TryConcurrentAcquire and ConcurrentRelease, through failed
\* rate checks, reloads and the deletion of a key that is in use
\* (types.go:30-49, manager.go:88-123, 252-305).
SlotAccounting == \A k \in Keys : conc[k] = Cardinality(Users(k))

\* Concurrent calls never push a key over its limits: no more holders than
\* slots, no more grants in a window than its rate limit (types.go:30-82).
WithinLimits ==
  \A k \in Keys : /\ conc[k] > 0 => conc[k] <= ConcurrentLimit[k]
                  /\ \A win \in Windows : used[k][win] > 0 => used[k][win] <= RateLimit[k][win]

\* GetKey chooses from the pool as it is: the list it filtered stays part of
\* the pool while it works on it, since the reload waits for the read locks.
ListIsCurrent == \A w \in Readers : avail[w] \subseteq pool

\* A deleted key leaves the pool: the reload is not starved by GetKey calls that
\* keep overlapping, because a waiting writer holds new readers back.
DeletedKeyLeaves == \A k \in Keys : k \in Deleted ~> k \notin pool

-----------------------------------------------------------------------------
(* The pool implements KeySlots.                                           *)

\* The workers that GetKey has given k to and that have not released it.
Holders(k) == {w \in Workers : pc[w] = "holding" /\ key[w] = k}

Slots == INSTANCE KeySlots WITH holders <- [k \in Keys |-> Holders(k)]

\* For the workers GetKey and ReleaseKey are single steps of a table of slots:
\* interleaved calls never give out a slot twice, and reloads, deletions, rate
\* windows and breakers are invisible to whoever uses a key
\* (manager.go:64-123, 252-305; types.go:30-49).
ImplementsKeySlots == Slots!Spec

-----------------------------------------------------------------------------
(* What the repository says and the code does not do.                      *)

Usable(k) == k \notin blocked /\ UnderLimit(k) /\ WithinRate(k)

\* GetKey's comment (manager.go:63): "Returns nil if no key is available", and
\* manager.go:87: "Try each key the strategy selects until we find one that can
\* be acquired": it does not give up on a list that holds an untried usable key.
TriesEveryKey ==
  [][\A w \in Workers : pc[w] \in {"acquire", "rate"} /\ pc'[w] = "idle" =>
        \A k \in avail[w] \ {key[w]} : ~ Usable(k)]_vars
=============================================================================
