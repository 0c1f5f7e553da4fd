---------------------------- MODULE KeyPoolProofs ----------------------------
(***************************************************************************)
(* Proofs about KeyPool, for every number of keys, workers and windows and *)
(* all limits.                                                             *)
(***************************************************************************)
EXTENDS KeyPool, FiniteSetTheorems, TLAPS

USE DEF vars, tableVars, reloadVars, rateVars, getVars

-----------------------------------------------------------------------------
(* What a worker's step in GetKey does to its own variables.               *)

\* GetKey's locals are well typed.
LocalsOK ==
  /\ pc \in [Workers -> {"idle", "select", "acquire", "rate", "holding"}]
  /\ avail \in [Workers -> SUBSET Keys] /\ tries \in [Workers -> Nat]
  /\ key \in [Workers -> Keys \cup {NoKey}]
  /\ \A w \in Workers : pc[w] \in {"acquire", "rate", "holding"} <=> key[w] # NoKey

\* Returning nil leaves a worker idle with its locals cleared.
LEMMA BackTyped ==
  ASSUME LocalsOK, NEW w \in Workers, Back(w) PROVE LocalsOK'
BY DEF LocalsOK, Back

\* The next try, or the return of nil after a failed one (manager.go:96-115),
\* keeps the locals well typed.
LEMMA NextTryTyped ==
  ASSUME LocalsOK, NEW w \in Workers, pc[w] # "idle", NextTry(w) PROVE LocalsOK'
<1> DEFINE rest == avail[w] \ {key[w]}
<1>1. CASE rest # {} /\ tries[w] + 1 < Cardinality(rest)
  BY <1>1 DEF NextTry, LocalsOK
<1>2. CASE ~ (rest # {} /\ tries[w] + 1 < Cardinality(rest))
  <2>1. Back(w)
    BY <1>2 DEF NextTry
  <2>2. QED
    BY <2>1, BackTyped
<1>3. QED
  BY <1>1, <1>2

\* Every step keeps the locals of all calls of GetKey well typed.
LEMMA LocalsTyped ==
  ASSUME LocalsOK, pool \subseteq Keys, [Next]_vars PROVE LocalsOK'
<1>1. CASE UNCHANGED getVars
  BY <1>1 DEF LocalsOK
<1>2. ASSUME NEW w \in Workers, GetKey(w) PROVE LocalsOK'
  BY <1>2 DEF GetKey, LocalsOK
<1>3. ASSUME NEW w \in Workers, Select(w) PROVE LocalsOK'
  <2>1. CASE \E k \in avail[w] : /\ key' = [key EXCEPT ![w] = k]
                                 /\ pc' = [pc EXCEPT ![w] = "acquire"]
                                 /\ UNCHANGED <<avail, tries>>
    BY <2>1, KeysAssumption DEF LocalsOK
  <2>2. CASE Back(w)
    BY <2>2, BackTyped
  <2>3. QED
    BY <1>3, <2>1, <2>2 DEF Select
<1>4. ASSUME NEW w \in Workers, Acquire(w) PROVE LocalsOK'
  <2>1. CASE NextTry(w)
    BY <1>4, <2>1, NextTryTyped DEF Acquire
  <2>2. CASE pc' = [pc EXCEPT ![w] = "rate"] /\ UNCHANGED <<avail, tries, key>>
    BY <1>4, <2>2 DEF Acquire, LocalsOK
  <2>3. QED
    BY <1>4, <2>1, <2>2 DEF Acquire
<1>5. ASSUME NEW w \in Workers, Rate(w) PROVE LocalsOK'
  <2>1. CASE NextTry(w)
    BY <1>5, <2>1, NextTryTyped DEF Rate
  <2>2. CASE /\ pc' = [pc EXCEPT ![w] = "holding"] /\ UNCHANGED key
             /\ avail' = [avail EXCEPT ![w] = {}] /\ tries' = [tries EXCEPT ![w] = 0]
    BY <1>5, <2>2 DEF Rate, LocalsOK
  <2>3. QED
    BY <1>5, <2>1, <2>2 DEF Rate
<1>6. ASSUME NEW w \in Workers, ReleaseKey(w) PROVE LocalsOK'
  BY <1>6, BackTyped DEF ReleaseKey
<1>7. QED
  BY <1>1, <1>2, <1>3, <1>4, <1>5, <1>6
     DEF Next, InGetKey, Reload, BreakerMoves, WindowEnds, AddKey, DeleteKey,
         ReloadRead, ReloadLock, ReloadApply

-----------------------------------------------------------------------------
(* The state of the keys.                                                  *)

\* The pool, the reload loop and the keys' counters are well typed.
KeysOK ==
  /\ stored \subseteq Keys /\ fresh \subseteq Keys /\ pool \subseteq Keys
  /\ reloader \in {"sleep", "read", "lock"} /\ snapshot \subseteq Keys
  /\ blocked \subseteq Keys /\ conc \in [Keys -> Nat]
  /\ used \in [Keys -> [Windows -> Nat]] /\ expired \in [Keys -> [Windows -> BOOLEAN]]

\* The counters of a key after TryRateLimit has reset what is over are numbers.
LEMMA CurrentTyped ==
  ASSUME KeysOK, NEW k \in Keys PROVE Current(k) \in [Windows -> Nat]
BY DEF Current, KeysOK

\* Every step keeps the state of the keys well typed.
LEMMA KeysTyped ==
  ASSUME KeysOK, LocalsOK, [Next]_vars PROVE KeysOK'
<1> USE DEF KeysOK
<1>1. ASSUME NEW w \in Workers, GetKey(w) \/ Select(w) PROVE KeysOK'
  BY <1>1 DEF GetKey, Select
<1>2. ASSUME NEW w \in Workers, Acquire(w) PROVE KeysOK'
  <2>1. key[w] \in Keys
    BY <1>2 DEF Acquire, LocalsOK
  <2>2. QED
    BY <1>2, <2>1 DEF Acquire
<1>3. ASSUME NEW w \in Workers, Rate(w) PROVE KeysOK'
  <2>1. key[w] \in Keys /\ Current(key[w]) \in [Windows -> Nat]
    BY <1>3, CurrentTyped DEF Rate, LocalsOK
  <2>2. conc' \in [Keys -> Nat]
    BY <1>3, <2>1 DEF Rate, Release
  <2>3. expired' \in [Keys -> [Windows -> BOOLEAN]]
    BY <1>3, <2>1 DEF Rate
  <2>4. used' \in [Keys -> [Windows -> Nat]]
    <3> DEFINE up == [win \in Windows |-> Current(key[w])[win] + 1]
    <3>1. up \in [Windows -> Nat]
      BY <2>1
    <3> HIDE DEF up
    <3>2. used' = [used EXCEPT ![key[w]] = up] \/ used' = [used EXCEPT ![key[w]] = Current(key[w])]
      BY <1>3 DEF Rate, up
    <3>3. QED
      BY <2>1, <3>1, <3>2
  <2>5. QED
    BY <1>3, <2>2, <2>3, <2>4 DEF Rate
<1>4. ASSUME NEW w \in Workers, ReleaseKey(w) PROVE KeysOK'
  <2>1. key[w] \in Keys
    BY <1>4 DEF ReleaseKey, LocalsOK
  <2>2. QED
    BY <1>4, <2>1 DEF ReleaseKey, Release
<1>5. ASSUME NEW k \in Keys, NEW win \in Windows, WindowEnds(k, win) PROVE KeysOK'
  BY <1>5 DEF WindowEnds
<1>6. ASSUME NEW k \in Keys, BreakerMoves(k) \/ AddKey(k) \/ DeleteKey(k) PROVE KeysOK'
  BY <1>6 DEF BreakerMoves, AddKey, DeleteKey
<1>7. CASE ReloadRead \/ ReloadLock
  BY <1>7 DEF ReloadRead, ReloadLock
<1>8. CASE ReloadApply
  <2>1. conc' \in [Keys -> Nat]
    BY <1>8 DEF ReloadApply
  <2>2. used' \in [Keys -> [Windows -> Nat]]
    BY <1>8 DEF ReloadApply
  <2>3. expired' \in [Keys -> [Windows -> BOOLEAN]]
    BY <1>8 DEF ReloadApply
  <2>4. QED
    BY <1>8, <2>1, <2>2, <2>3 DEF ReloadApply
<1>9. CASE UNCHANGED vars
  BY <1>9
<1>10. QED
  BY <1>1, <1>2, <1>3, <1>4, <1>5, <1>6, <1>7, <1>8, <1>9 DEF Next, InGetKey, Reload

\* Type correctness: the pool, the reload loop and every call of GetKey stay
\* well typed, and a worker has a key exactly while it tries or holds one.
THEOREM TypeCorrect == Spec => []TypeOK
<1>1. Init => TypeOK
  BY DEF Init, TypeOK
<1>2. TypeOK /\ [Next]_vars => TypeOK'
  <2>1. TypeOK <=> KeysOK /\ LocalsOK
    BY DEF TypeOK, KeysOK, LocalsOK
  <2>2. TypeOK' <=> KeysOK' /\ LocalsOK'
    BY DEF TypeOK, KeysOK, LocalsOK
  <2>3. KeysOK => pool \subseteq Keys
    BY DEF KeysOK
  <2>4. QED
    BY <2>1, <2>2, <2>3, KeysTyped, LocalsTyped
<1>3. QED
  BY <1>1, <1>2, PTL DEF Spec

-----------------------------------------------------------------------------
(* The limits.                                                             *)

\* No interleaving of GetKey, releases, window changes and reloads takes a key
\* over its concurrency limit or over the rate limit of any window: each
\* test and the increment it guards are one critical section of the key.
THEOREM WithinLimitsHolds == Spec => []WithinLimits
<1>1. Init => WithinLimits
  BY DEF Init, WithinLimits
<1>2. TypeOK /\ WithinLimits /\ [Next]_vars => WithinLimits'
  <2> SUFFICES ASSUME TypeOK, WithinLimits, [Next]_vars PROVE WithinLimits'
    OBVIOUS
  <2> USE DEF WithinLimits
  <2>0. /\ conc \in [Keys -> Nat] /\ used \in [Keys -> [Windows -> Nat]]
        /\ \A k \in Keys : ConcurrentLimit[k] \in Int
        /\ \A k \in Keys, win \in Windows : RateLimit[k][win] \in Int
        /\ \A w \in Workers : pc[w] \in {"acquire", "rate", "holding"} => key[w] \in Keys
    BY LimitsAssumption DEF TypeOK
  <2>1. CASE UNCHANGED <<conc, used>>
    BY <2>1
  <2>2. ASSUME NEW w \in Workers, Acquire(w) PROVE WithinLimits'
    BY <2>0, <2>2 DEF Acquire, UnderLimit
  <2>3. ASSUME NEW w \in Workers, Rate(w) PROVE WithinLimits'
    <3> DEFINE k0 == key[w]
    <3>1. k0 \in Keys
      BY <2>0, <2>3 DEF Rate
    <3>2. \A win \in Windows : /\ Current(k0)[win] \in Nat
                               /\ Current(k0)[win] = 0 \/ Current(k0)[win] = used[k0][win]
      BY <2>0, <3>1 DEF Current
    <3>3. \A k \in Keys : conc'[k] > 0 => conc'[k] <= ConcurrentLimit[k]
      BY <2>0, <2>3, <3>1 DEF Rate, Release
    <3>4. \A win \in Windows : used'[k0][win] > 0 => used'[k0][win] <= RateLimit[k0][win]
      <4>1. CASE /\ WithinRate(k0)
                 /\ used' = [used EXCEPT ![k0] = [win \in Windows |-> Current(k0)[win] + 1]]
        <5>1. \A win \in Windows : used'[k0][win] = Current(k0)[win] + 1
          BY <2>0, <3>1, <4>1
        <5>2. QED
          BY <2>0, <3>1, <3>2, <4>1, <5>1 DEF WithinRate
      <4>2. CASE used' = [used EXCEPT ![k0] = Current(k0)]
        <5>1. used'[k0] = Current(k0)
          BY <2>0, <3>1, <4>2
        <5>2. QED
          BY <2>0, <3>1, <3>2, <5>1
      <4>3. QED
        BY <2>3, <4>1, <4>2 DEF Rate
    <3>5. \A k \in Keys : k # k0 => used'[k] = used[k]
      BY <2>0, <2>3, <3>1 DEF Rate
    <3>6. QED
      BY <3>3, <3>4, <3>5
  <2>4. ASSUME NEW w \in Workers, ReleaseKey(w) PROVE WithinLimits'
    BY <2>0, <2>4 DEF ReleaseKey, Release
  <2>5. CASE ReloadApply
    <3>1. \A k \in Keys : /\ conc'[k] = 0 \/ conc'[k] = conc[k]
                          /\ used'[k] = [win \in Windows |-> 0] \/ used'[k] = used[k]
      BY <2>5 DEF ReloadApply
    <3>2. QED
      BY <3>1
  <2>6. QED
    BY <2>1, <2>2, <2>3, <2>4, <2>5
       DEF Next, InGetKey, Reload, GetKey, Select, BreakerMoves, WindowEnds, AddKey, DeleteKey,
           ReloadRead, ReloadLock
<1>3. QED
  BY <1>1, <1>2, TypeCorrect, PTL DEF Spec

-----------------------------------------------------------------------------
(* The pool as the callers of GetKey see it.                               *)

\* The list a call of GetKey works on stays part of the pool: the write lock
\* of the reload excludes it.
THEOREM ListIsCurrentHolds == Spec => []ListIsCurrent
<1>1. Init => ListIsCurrent
  BY DEF Init, ListIsCurrent, Readers
<1>2. TypeOK /\ ListIsCurrent /\ [Next]_vars => ListIsCurrent'
  <2> SUFFICES ASSUME TypeOK, ListIsCurrent, [Next]_vars PROVE ListIsCurrent'
    OBVIOUS
  <2> USE DEF ListIsCurrent, Readers
  <2>0. pc \in [Workers -> {"idle", "select", "acquire", "rate", "holding"}] /\ avail \in [Workers -> SUBSET Keys]
    BY DEF TypeOK
  <2>1. CASE UNCHANGED <<pool, pc, avail>>
    BY <2>1
  <2>2. ASSUME NEW w \in Workers, GetKey(w) PROVE ListIsCurrent'
    BY <2>0, <2>2 DEF GetKey
  <2>3. ASSUME NEW w \in Workers, Select(w) \/ ReleaseKey(w) PROVE ListIsCurrent'
    BY <2>0, <2>3 DEF Select, ReleaseKey, Back
  <2>4. ASSUME NEW w \in Workers, Acquire(w) \/ Rate(w) PROVE ListIsCurrent'
    BY <2>0, <2>4 DEF Acquire, Rate, NextTry, Back
  <2>5. CASE ReloadApply
    BY <2>5 DEF ReloadApply, CanLock
  <2>6. QED
    BY <2>1, <2>2, <2>3, <2>4, <2>5
       DEF Next, InGetKey, Reload, BreakerMoves, WindowEnds, AddKey, DeleteKey,
           ReloadRead, ReloadLock
<1>3. QED
  BY <1>1, <1>2, TypeCorrect, PTL DEF Spec

-----------------------------------------------------------------------------
(* The slots.  SlotAccounting is not inductive: a reload gives every key   *)
(* that is new to the pool a fresh counter, so a key in use must never be  *)
(* new to the pool.  That holds because ids are not reused: a key that has *)
(* left the pool while somebody held it is deleted, and a later snapshot   *)
(* of the table cannot bring it back.                                      *)

\* The keys that are used, in the pool, in the snapshot and in the table.
Provenance ==
  /\ fresh \cap (stored \cup pool \cup snapshot) = {}
  /\ reloader = "sleep" => snapshot = {}
  /\ reloader # "sleep" => pool \ snapshot \subseteq Deleted
  /\ \A w \in Workers : key[w] # NoKey =>
        key[w] \in pool \/ (key[w] \in Deleted /\ key[w] \notin snapshot)

\* Provenance is an invariant: no key comes back once it is deleted.
THEOREM ProvenanceHolds == Spec => []Provenance
<1>1. Init => Provenance
  BY DEF Init, Provenance
<1>2. TypeOK /\ ListIsCurrent /\ Provenance /\ [Next]_vars => Provenance'
  <2> SUFFICES ASSUME TypeOK, ListIsCurrent, Provenance, [Next]_vars PROVE Provenance'
    OBVIOUS
  <2> USE DEF Provenance, Deleted
  <2>0. /\ key \in [Workers -> Keys \cup {NoKey}]
        /\ stored \subseteq Keys /\ fresh \subseteq Keys /\ pool \subseteq Keys /\ snapshot \subseteq Keys
        /\ reloader \in {"sleep", "read", "lock"}
    BY DEF TypeOK
  <2>1. CASE UNCHANGED <<fresh, stored, pool, reloader, snapshot, key>>
    BY <2>1
  <2>2. ASSUME NEW w \in Workers, Select(w) PROVE Provenance'
    <3>1. avail[w] \subseteq pool
      BY <2>2 DEF Select, ListIsCurrent, Readers
    <3>2. QED
      BY <2>0, <2>2, <3>1 DEF Select, Back
  <2>3. ASSUME NEW w \in Workers, Acquire(w) \/ Rate(w) \/ ReleaseKey(w) PROVE Provenance'
    <3>1. key' = key \/ key' = [key EXCEPT ![w] = NoKey]
      BY <2>3 DEF Acquire, Rate, ReleaseKey, NextTry, Back
    <3>2. UNCHANGED <<fresh, stored, pool, reloader, snapshot>>
      BY <2>3 DEF Acquire, Rate, ReleaseKey
    <3>3. QED
      BY <2>0, <3>1, <3>2
  <2>4. ASSUME NEW k \in Keys, AddKey(k) \/ DeleteKey(k) PROVE Provenance'
    BY <2>0, <2>4 DEF AddKey, DeleteKey
  <2>5. CASE ReloadRead
    BY <2>0, <2>5 DEF ReloadRead
  <2>6. CASE ReloadLock
    BY <2>0, <2>6 DEF ReloadLock
  <2>7. CASE ReloadApply
    BY <2>0, <2>7 DEF ReloadApply
  <2>8. QED
    BY <2>1, <2>2, <2>3, <2>4, <2>5, <2>6, <2>7
       DEF Next, InGetKey, Reload, GetKey, BreakerMoves, WindowEnds
<1>3. QED
  BY <1>1, <1>2, TypeCorrect, ListIsCurrentHolds, PTL DEF Spec

\* The users of a key are finitely many.
LEMMA UsersFinite ==
  ASSUME NEW k PROVE IsFiniteSet(Users(k)) /\ Cardinality(Users(k)) \in Nat
BY WorkersAssumption, FS_Subset, FS_CardinalityType DEF Users

\* TryConcurrentAcquire: the counter and the set of users grow together.
LEMMA AcquireCounts ==
  ASSUME TypeOK, SlotAccounting, NEW w \in Workers, pc[w] = "acquire",
         conc' = [conc EXCEPT ![key[w]] = @ + 1],
         pc' = [pc EXCEPT ![w] = "rate"], key' = key
  PROVE  SlotAccounting'
<1>1. key[w] \in Keys /\ conc \in [Keys -> Nat]
      /\ pc \in [Workers -> {"idle", "select", "acquire", "rate", "holding"}]
  BY DEF TypeOK
<1>2. SUFFICES ASSUME NEW k \in Keys PROVE conc'[k] = Cardinality(Users(k)')
  BY DEF SlotAccounting
<1>3. CASE k = key[w]
  <2>1. Users(k)' = Users(k) \cup {w} /\ w \notin Users(k)
    BY <1>1, <1>3 DEF Users
  <2>2. Cardinality(Users(k) \cup {w}) = Cardinality(Users(k)) + 1
    BY <2>1, UsersFinite, FS_AddElement
  <2>3. QED
    BY <1>1, <1>3, <2>1, <2>2 DEF SlotAccounting
<1>4. CASE k # key[w]
  <2>1. Users(k)' = Users(k)
    BY <1>1, <1>4 DEF Users
  <2>2. QED
    BY <1>1, <1>4, <2>1 DEF SlotAccounting
<1>5. QED
  BY <1>3, <1>4

\* ConcurrentRelease: a user leaves, so the counter is positive and goes down.
LEMMA ReleaseCounts ==
  ASSUME TypeOK, SlotAccounting, NEW w \in Workers, pc[w] \in {"rate", "holding"},
         Release(key[w]), NEW s \in {"idle", "select"},
         pc' = [pc EXCEPT ![w] = s], key' = [key EXCEPT ![w] = NoKey]
  PROVE  SlotAccounting'
<1>1. /\ key[w] \in Keys /\ conc \in [Keys -> Nat] /\ key \in [Workers -> Keys \cup {NoKey}]
      /\ pc \in [Workers -> {"idle", "select", "acquire", "rate", "holding"}]
  BY DEF TypeOK
<1>2. SUFFICES ASSUME NEW k \in Keys PROVE conc'[k] = Cardinality(Users(k)')
  BY DEF SlotAccounting
<1>3. CASE k = key[w]
  <2>1. Users(k)' = Users(k) \ {w} /\ w \in Users(k)
    BY <1>1, <1>3 DEF Users
  <2>2. Cardinality(Users(k) \ {w}) = Cardinality(Users(k)) - 1
    BY <2>1, UsersFinite, FS_RemoveElement
  <2>3. Cardinality(Users(k)) \in Nat /\ Cardinality(Users(k) \ {w}) \in Nat
    BY UsersFinite, FS_RemoveElement, FS_CardinalityType
  <2>4. conc[k] > 0
    BY <2>2, <2>3 DEF SlotAccounting
  <2>5. QED
    BY <1>1, <1>3, <2>1, <2>2, <2>4 DEF SlotAccounting, Release
<1>4. CASE k # key[w]
  <2>1. Users(k)' = Users(k)
    BY <1>1, <1>4 DEF Users
  <2>2. QED
    BY <1>1, <1>4, <2>1 DEF SlotAccounting, Release
<1>5. QED
  BY <1>3, <1>4

\* Slots are neither leaked nor freed twice, for any number of keys and
\* workers: a key's counter is the number of workers that occupy a slot of it,
\* whatever is reloaded, added or deleted meanwhile.
THEOREM SlotAccountingHolds == Spec => []SlotAccounting
<1>1. Init => SlotAccounting
  <2>1. ASSUME Init, NEW k \in Keys PROVE conc[k] = Cardinality(Users(k))
    <3>1. Users(k) = {}
      BY <2>1 DEF Init, Users
    <3>2. QED
      BY <2>1, <3>1, FS_EmptySet DEF Init
  <2>2. QED
    BY <2>1 DEF SlotAccounting
<1>2. TypeOK /\ Provenance /\ SlotAccounting /\ [Next]_vars => SlotAccounting'
  <2> SUFFICES ASSUME TypeOK, Provenance, SlotAccounting, [Next]_vars PROVE SlotAccounting'
    OBVIOUS
  <2>0. /\ key \in [Workers -> Keys \cup {NoKey}] /\ conc \in [Keys -> Nat]
        /\ pc \in [Workers -> {"idle", "select", "acquire", "rate", "holding"}]
        /\ \A w \in Workers : pc[w] \in {"acquire", "rate", "holding"} <=> key[w] # NoKey
    BY DEF TypeOK
  <2>1. CASE conc' = conc /\ \A k \in Keys : Users(k)' = Users(k)
    BY <2>1 DEF SlotAccounting
  <2>2. ASSUME NEW w \in Workers, GetKey(w) \/ Select(w) PROVE SlotAccounting'
    <3>1. conc' = conc
      BY <2>2 DEF GetKey, Select
    <3>2. \A k \in Keys : Users(k)' = Users(k)
      BY <2>0, <2>2, KeysAssumption DEF GetKey, Select, Back, Users
    <3>3. QED
      BY <2>1, <3>1, <3>2
  <2>3. ASSUME NEW w \in Workers, Acquire(w) PROVE SlotAccounting'
    <3>1. CASE NextTry(w) /\ UNCHANGED conc
      <4>1. \E s \in {"idle", "select"} : pc' = [pc EXCEPT ![w] = s]
        BY <3>1 DEF NextTry, Back
      <4>2. key' = [key EXCEPT ![w] = NoKey] /\ pc[w] = "acquire"
        BY <2>3, <3>1 DEF Acquire, NextTry, Back
      <4>3. \A k \in Keys : Users(k)' = Users(k)
        BY <2>0, <4>1, <4>2 DEF Users
      <4>4. QED
        BY <2>1, <3>1, <4>3
    <3>2. QED
      BY <2>3, <3>1, AcquireCounts DEF Acquire
  <2>4. ASSUME NEW w \in Workers, Rate(w) PROVE SlotAccounting'
    <3>1. CASE Release(key[w]) /\ NextTry(w)
      <4>1. PICK s \in {"idle", "select"} : pc' = [pc EXCEPT ![w] = s]
        BY <3>1 DEF NextTry, Back
      <4>2. key' = [key EXCEPT ![w] = NoKey]
        BY <3>1 DEF NextTry, Back
      <4>3. QED
        BY <2>4, <3>1, <4>1, <4>2, ReleaseCounts DEF Rate
    <3>2. CASE pc' = [pc EXCEPT ![w] = "holding"] /\ UNCHANGED <<conc, key>>
      <4>1. pc[w] = "rate"
        BY <2>4 DEF Rate
      <4>2. \A k \in Keys : Users(k)' = Users(k)
        BY <2>0, <3>2, <4>1 DEF Users
      <4>3. QED
        BY <2>1, <3>2, <4>2
    <3>3. QED
      BY <2>4, <3>1, <3>2 DEF Rate
  <2>5. ASSUME NEW w \in Workers, ReleaseKey(w) PROVE SlotAccounting'
    BY <2>5, ReleaseCounts DEF ReleaseKey, Back
  <2>6. CASE ReloadApply
    <3>1. \A k \in Keys : Users(k)' = Users(k)
      BY <2>6 DEF ReloadApply, Users
    <3>2. ASSUME NEW k \in NewKeys PROVE Users(k) = {}
      BY <2>0, <3>2 DEF Users, NewKeys, Provenance
    <3>3. ASSUME NEW k \in Keys PROVE conc'[k] = Cardinality(Users(k))
      <4>1. CASE k \in NewKeys
        BY <2>6, <3>2, <4>1, FS_EmptySet DEF ReloadApply
      <4>2. CASE k \notin NewKeys
        BY <2>6, <4>2 DEF ReloadApply, SlotAccounting
      <4>3. QED
        BY <4>1, <4>2
    <3>4. QED
      BY <3>1, <3>3 DEF SlotAccounting
  <2>7. CASE UNCHANGED <<conc, getVars>>
    <3>1. \A k \in Keys : Users(k)' = Users(k)
      BY <2>7 DEF Users
    <3>2. QED
      BY <2>1, <2>7, <3>1
  <2>8. QED
    BY <2>2, <2>3, <2>4, <2>5, <2>6, <2>7
       DEF Next, InGetKey, Reload, BreakerMoves, WindowEnds, AddKey, DeleteKey,
           ReloadRead, ReloadLock
<1>3. QED
  BY <1>1, <1>2, TypeCorrect, ProvenanceHolds, PTL DEF Spec

-----------------------------------------------------------------------------
(* The refinement.  GetKey's slot becomes a holder's slot when the rate    *)
(* check passes; from TryConcurrentAcquire until then it is counted but    *)
(* given to nobody, which is why a holder more still fits.                 *)

\* A worker whose rate check passes gets a slot that is free in KeySlots.
LEMMA RateGrants ==
  ASSUME TypeOK, WithinLimits, SlotAccounting, NEW w \in Workers, pc[w] = "rate",
         pc' = [pc EXCEPT ![w] = "holding"], key' = key
  PROVE  Slots!Grant(w, key[w]) /\ key[w] \in Keys
<1> DEFINE k0 == key[w]
<1>1. /\ k0 \in Keys /\ ConcurrentLimit[k0] \in Int /\ conc[k0] \in Nat
      /\ pc \in [Workers -> {"idle", "select", "acquire", "rate", "holding"}]
  BY LimitsAssumption DEF TypeOK
<1>2. /\ w \in Users(k0) /\ Holders(k0) \subseteq Users(k0) \ {w}
      /\ \A k \in Keys : w \notin Holders(k)
  BY DEF Users, Holders
<1>3. /\ IsFiniteSet(Users(k0)) /\ Cardinality(Users(k0)) \in Nat
      /\ conc[k0] = Cardinality(Users(k0))
  BY <1>1, UsersFinite DEF SlotAccounting
<1>4. /\ IsFiniteSet(Users(k0) \ {w})
      /\ Cardinality(Users(k0) \ {w}) = Cardinality(Users(k0)) - 1
  BY <1>2, <1>3, FS_RemoveElement
<1>5. /\ Cardinality(Holders(k0)) <= Cardinality(Users(k0) \ {w})
      /\ Cardinality(Holders(k0)) \in Nat /\ Cardinality(Users(k0) \ {w}) \in Nat
  BY <1>2, <1>4, FS_Subset, FS_CardinalityType
<1>6. Cardinality(Holders(k0)) < ConcurrentLimit[k0]
  <2>1. conc[k0] > 0 /\ conc[k0] <= ConcurrentLimit[k0]
    BY <1>1, <1>3, <1>4, <1>5 DEF WithinLimits
  <2>2. QED
    BY <1>1, <1>3, <1>4, <1>5, <2>1
<1>7. \A k \in Keys : Holders(k)' = IF k = k0 THEN Holders(k) \cup {w} ELSE Holders(k)
  BY <1>1 DEF Holders
<1>8. Slots!Cardinality(Holders(k0)) = Cardinality(Holders(k0))
  BY DEF Slots!Cardinality, Cardinality, Slots!IsFiniteSet, IsFiniteSet
<1>9. QED
  BY <1>1, <1>2, <1>6, <1>7, <1>8 DEF Slots!Grant, Slots!HasKey

\* ReleaseKey gives back the slot of the key the worker holds.
LEMMA ReleaseReturns ==
  ASSUME TypeOK, NEW w \in Workers, ReleaseKey(w)
  PROVE  Slots!Return(w, key[w]) /\ key[w] \in Keys
<1> DEFINE k0 == key[w]
<1>1. /\ k0 \in Keys /\ pc[w] = "holding" /\ key \in [Workers -> Keys \cup {NoKey}]
      /\ pc \in [Workers -> {"idle", "select", "acquire", "rate", "holding"}]
  BY DEF TypeOK, ReleaseKey
<1>2. \A k \in Keys : Holders(k)' = IF k = k0 THEN Holders(k) \ {w} ELSE Holders(k)
  BY <1>1 DEF Holders, ReleaseKey, Back
<1>3. w \in Holders(k0)
  BY <1>1 DEF Holders
<1>4. QED
  BY <1>1, <1>2, <1>3 DEF Slots!Return

\* A worker that did not hold a key and does not hold one afterwards changes
\* nothing that KeySlots can see.
LEMMA NobodyHolds ==
  ASSUME TypeOK, NEW w \in Workers, pc[w] # "holding",
         NEW s \in {"idle", "select", "acquire", "rate"}, pc' = [pc EXCEPT ![w] = s],
         NEW k \in Keys \cup {NoKey}, key' = [key EXCEPT ![w] = k]
  PROVE  \A k1 \in Keys : Holders(k1)' = Holders(k1)
BY DEF TypeOK, Holders

\* The pool implements the table of slots: every step of GetKey, ReleaseKey,
\* the reload loop and the administrators is a Grant, a Return or invisible,
\* for any number of keys and workers and all limits.
THEOREM ImplementsKeySlotsHolds == Spec => ImplementsKeySlots
<1>1. Init => Slots!Init
  BY DEF Init, Slots!Init, Holders
<1>2. TypeOK /\ WithinLimits /\ SlotAccounting /\ [Next]_vars =>
        [Slots!Next]_([k \in Keys |-> Holders(k)])
  <2> SUFFICES ASSUME TypeOK, WithinLimits, SlotAccounting, [Next]_vars
               PROVE  Slots!Next \/ \A k \in Keys : Holders(k)' = Holders(k)
    OBVIOUS
  <2>0. /\ key \in [Workers -> Keys \cup {NoKey}]
        /\ pc \in [Workers -> {"idle", "select", "acquire", "rate", "holding"}]
        /\ \A w \in Workers : avail[w] \subseteq Keys
    BY DEF TypeOK
  <2>1. CASE UNCHANGED <<pc, key>>
    BY <2>1 DEF Holders
  <2>2. ASSUME NEW w \in Workers, GetKey(w) \/ Select(w) \/ Acquire(w)
        PROVE  \A k \in Keys : Holders(k)' = Holders(k)
    <3>1. pc[w] # "holding"
      BY <2>2 DEF GetKey, Select, Acquire
    <3>2. \E s \in {"idle", "select", "acquire", "rate"} : pc' = [pc EXCEPT ![w] = s]
      BY <2>2 DEF GetKey, Select, Acquire, NextTry, Back
    <3>3. \E k \in Keys \cup {NoKey} : key' = [key EXCEPT ![w] = k]
      <4>1. key = [key EXCEPT ![w] = key[w]] /\ key[w] \in Keys \cup {NoKey}
        BY <2>0
      <4>2. \/ key' = key \/ key' = [key EXCEPT ![w] = NoKey]
            \/ \E k \in avail[w] : key' = [key EXCEPT ![w] = k]
        BY <2>2 DEF GetKey, Select, Acquire, NextTry, Back
      <4>3. QED
        BY <2>0, <4>1, <4>2
    <3>4. QED
      BY <3>1, <3>2, <3>3, NobodyHolds
  <2>3. ASSUME NEW w \in Workers, Rate(w)
        PROVE  Slots!Next \/ \A k \in Keys : Holders(k)' = Holders(k)
    <3>1. CASE pc' = [pc EXCEPT ![w] = "holding"] /\ UNCHANGED key
      <4>1. Slots!Grant(w, key[w]) /\ key[w] \in Keys
        BY <2>3, <3>1, RateGrants DEF Rate
      <4>2. QED
        BY <4>1 DEF Slots!Next
    <3>2. CASE NextTry(w)
      <4>1. pc[w] # "holding" /\ key' = [key EXCEPT ![w] = NoKey]
        BY <2>3, <3>2 DEF Rate, NextTry, Back
      <4>2. \E s \in {"idle", "select", "acquire", "rate"} : pc' = [pc EXCEPT ![w] = s]
        BY <3>2 DEF NextTry, Back
      <4>3. QED
        BY <4>1, <4>2, NobodyHolds
    <3>3. QED
      BY <2>3, <3>1, <3>2 DEF Rate
  <2>4. ASSUME NEW w \in Workers, ReleaseKey(w) PROVE Slots!Next
    BY <2>4, ReleaseReturns DEF Slots!Next
  <2>5. QED
    BY <2>1, <2>2, <2>3, <2>4
       DEF Next, InGetKey, Reload, BreakerMoves, WindowEnds, AddKey, DeleteKey,
           ReloadRead, ReloadLock, ReloadApply
<1>3. QED
  BY <1>1, <1>2, TypeCorrect, WithinLimitsHolds, SlotAccountingHolds, PTL
     DEF Spec, ImplementsKeySlots, Slots!Spec
=============================================================================
