-------------------------- MODULE StrategiesProofs --------------------------
(***************************************************************************)
(* The properties of the two selection strategies, for every number of     *)
(* keys and every assignment of weights, while the list is the whole pool. *)
(*                                                                         *)
(* What a loop over the keys computes is shown by induction over sets of   *)
(* numbers (Upwards), in which the statement to be proved is a set.        *)
(***************************************************************************)
EXTENDS Strategies, FiniteSetTheorems, NaturalsInduction, TLAPS

\* A set of natural numbers has a least element.
LEMMA LeastElement ==
  ASSUME NEW S \in SUBSET Nat, S # {}
  PROVE  \E n \in S : \A m \in S : n <= m
<1>1. PICK n \in S : \A m \in S : ~ (<<m, n>> \in OpToRel(<, Nat))
  BY NatLessThanWellFounded, WFMin
<1>2. \A m \in S : ~ (m < n)
  BY <1>1 DEF OpToRel
<1> QED BY <1>2

\* Induction along the list of keys.
LEMMA Upwards ==
  ASSUME NEW S, 0 \in S, \A n \in Keys : n - 1 \in S => n \in S
  PROVE  0..KeyCount \subseteq S
<1> DEFINE R == {n \in 0..KeyCount : n \notin S}
<1>1. SUFFICES ASSUME R # {} PROVE FALSE
  OBVIOUS
<1>2. R \in SUBSET Nat
  BY ListsAssumption
<1>3. PICK n \in R : \A m \in R : n <= m
  <2> HIDE DEF R
  <2> QED BY <1>1, <1>2, LeastElement
<1>4. n \in Keys /\ n - 1 \in 0..KeyCount /\ n - 1 \notin R
  BY <1>3, ListsAssumption DEF Keys
<1> QED BY <1>3, <1>4

-----------------------------------------------------------------------------
(* Sums.                                                                   *)

\* The prefix sums of f are what the recursion says.
IsPrefix(f, g) == /\ g \in [0..KeyCount -> Int] /\ g[0] = 0
                  /\ \A n \in Keys : g[n] = g[n - 1] + f[n]

\* Prefix sums exist.
LEMMA PrefixExists ==
  ASSUME NEW f \in [Keys -> Int]
  PROVE  \E g : IsPrefix(f, g)
<1> DEFINE Good(n, g) == /\ g \in [0..KeyCount -> Int] /\ g[0] = 0
                         /\ \A m \in 1..n : g[m] = g[m - 1] + f[m]
           S == {n \in 0..KeyCount : \E g : Good(n, g)}
<1>1. 0 \in S
  <2>1. Good(0, [m \in 0..KeyCount |-> 0])
    BY ListsAssumption
  <2> HIDE DEF Good
  <2> QED BY <2>1, ListsAssumption
<1>2. ASSUME NEW n \in Keys, n - 1 \in S PROVE n \in S
  <2>1. PICK g : Good(n - 1, g)
    BY <1>2
  <2>2. n \in 1..KeyCount /\ f[n] \in Int /\ g[n - 1] \in Int
    BY <2>1, ListsAssumption DEF Keys
  <2> DEFINE h == [g EXCEPT ![n] = g[n - 1] + f[n]]
  <2>3. /\ h \in [0..KeyCount -> Int] /\ h[n] = g[n - 1] + f[n]
        /\ \A m \in 0..KeyCount : m # n => h[m] = g[m]
    BY <2>1, <2>2, ListsAssumption
  <2>4. ASSUME NEW m \in 1..n PROVE h[m] = h[m - 1] + f[m]
    <3> HIDE DEF h
    <3>1. n \in Nat /\ m \in Nat /\ m - 1 \in 0..KeyCount /\ m \in 0..KeyCount /\ m - 1 # n
      BY <2>2, ListsAssumption
    <3>2. CASE m = n
      BY <2>2, <2>3, <3>1, <3>2
    <3>3. CASE m # n
      <4>1. m \in 1..(n - 1)
        BY <3>1, <3>3
      <4> QED BY <2>1, <2>3, <3>1, <3>3, <4>1
    <3> QED BY <3>2, <3>3
  <2>5. Good(n, h)
    <3>1. h[0] = 0
      BY <2>1, <2>2, <2>3, ListsAssumption
    <3> HIDE DEF h
    <3> QED BY <2>3, <2>4, <3>1
  <2> HIDE DEF Good, h
  <2> QED BY <2>2, <2>5
<1>3. 0..KeyCount \subseteq S
  <2> HIDE DEF S
  <2> QED BY <1>1, <1>2, Upwards
<1>4. PICK g : Good(KeyCount, g)
  BY <1>3, ListsAssumption
<1> QED BY <1>4 DEF IsPrefix, Keys

\* Prefix computes them.
LEMMA PrefixComputes ==
  ASSUME NEW f \in [Keys -> Int]
  PROVE  IsPrefix(f, Prefix(f))
<1> DEFINE Step(g) == [n \in 0..KeyCount |-> IF n = 0 THEN 0 ELSE g[n - 1] + f[n]]
<1>1. PICK g : IsPrefix(f, g)
  BY PrefixExists
<1>2. g = Step(g)
  BY <1>1, ListsAssumption DEF IsPrefix, Keys
<1>3. Prefix(f) = CHOOSE u : u = Step(u)
  BY DEF Prefix
<1>4. Prefix(f) = Step(Prefix(f))
  <2> HIDE DEF Step
  <2> QED BY <1>2, <1>3
<1> DEFINE p == Prefix(f)
           S == {n \in 0..KeyCount : p[n] \in Int}
<1>5. p[0] = 0 /\ \A n \in Keys : p[n] = p[n - 1] + f[n]
  BY <1>4, ListsAssumption DEF Keys
<1>6. 0..KeyCount \subseteq S
  <2>1. 0 \in S
    BY <1>5, ListsAssumption
  <2>2. \A n \in Keys : n - 1 \in S => n \in S
    BY <1>5, ListsAssumption DEF Keys
  <2> HIDE DEF S
  <2> QED BY <2>1, <2>2, Upwards
<1>7. p \in [0..KeyCount -> Int]
  BY <1>4, <1>6
<1> QED BY <1>5, <1>7 DEF IsPrefix

\* One key further in the list.
LEMMA PrefixStep ==
  ASSUME NEW f \in [Keys -> Int], NEW n \in Keys
  PROVE  /\ n \in Int /\ n \in 0..KeyCount /\ n - 1 \in 0..KeyCount
         /\ f[n] \in Int /\ Prefix(f)[n - 1] \in Int
         /\ Prefix(f)[n] = Prefix(f)[n - 1] + f[n]
<1>1. n \in Int /\ n \in 0..KeyCount /\ n - 1 \in 0..KeyCount
  BY ListsAssumption DEF Keys
<1>2. IsPrefix(f, Prefix(f))
  BY PrefixComputes
<1> QED BY <1>1, <1>2 DEF IsPrefix

\* Sums are integers.
LEMMA SumType ==
  ASSUME NEW f \in [Keys -> Int]
  PROVE  SumOf(f) \in Int
BY PrefixComputes, ListsAssumption DEF SumOf, IsPrefix

\* The sum of a pointwise sum.
LEMMA SumAdds ==
  ASSUME NEW f \in [Keys -> Int], NEW g \in [Keys -> Int], NEW h \in [Keys -> Int],
         \A k \in Keys : h[k] = f[k] + g[k]
  PROVE  SumOf(h) = SumOf(f) + SumOf(g)
<1> DEFINE S == {n \in 0..KeyCount : Prefix(h)[n] = Prefix(f)[n] + Prefix(g)[n]}
<1>1. IsPrefix(f, Prefix(f)) /\ IsPrefix(g, Prefix(g)) /\ IsPrefix(h, Prefix(h))
  BY PrefixComputes
<1>2. 0 \in S
  BY <1>1, ListsAssumption DEF IsPrefix
<1>3. ASSUME NEW n \in Keys, n - 1 \in S PROVE n \in S
  <2>1. Prefix(h)[n - 1] = Prefix(f)[n - 1] + Prefix(g)[n - 1] /\ h[n] = f[n] + g[n]
    BY <1>3
  <2> QED BY <2>1, PrefixStep
<1>4. 0..KeyCount \subseteq S
  <2> HIDE DEF S
  <2> QED BY <1>2, <1>3, Upwards
<1> QED BY <1>4, ListsAssumption DEF SumOf

\* The sum of a constant.
LEMMA SumConstant ==
  ASSUME NEW c \in Int, NEW f \in [Keys -> Int], \A k \in Keys : f[k] = c
  PROVE  SumOf(f) = KeyCount * c
<1> DEFINE S == {n \in 0..KeyCount : Prefix(f)[n] = n * c}
<1>1. IsPrefix(f, Prefix(f))
  BY PrefixComputes
<1>2. 0 \in S
  BY <1>1, ListsAssumption DEF IsPrefix
<1>3. ASSUME NEW n \in Keys, n - 1 \in S PROVE n \in S
  <2>1. n \in Int /\ Prefix(f)[n] = (n - 1) * c + c
    BY <1>1, <1>3, ListsAssumption DEF IsPrefix, Keys
  <2>2. (n - 1) * c + c = n * c
    BY <2>1
  <2> QED BY <2>1, <2>2, ListsAssumption DEF Keys
<1>4. 0..KeyCount \subseteq S
  <2> HIDE DEF S
  <2> QED BY <1>2, <1>3, Upwards
<1> QED BY <1>4, ListsAssumption DEF SumOf

\* A change of one summand changes the sum by as much.
LEMMA SumChanges ==
  ASSUME NEW f \in [Keys -> Int], NEW k \in Keys, NEW d \in Int
  PROVE  SumOf([f EXCEPT ![k] = @ + d]) = SumOf(f) + d
<1> DEFINE g == [f EXCEPT ![k] = @ + d]
           S == {n \in 0..KeyCount : Prefix(g)[n] = Prefix(f)[n] + IF n < k THEN 0 ELSE d}
<1>1. g \in [Keys -> Int] /\ g[k] = f[k] + d /\ \A n \in Keys \ {k} : g[n] = f[n]
  OBVIOUS
<1> HIDE DEF g
<1>2. IsPrefix(f, Prefix(f)) /\ IsPrefix(g, Prefix(g))
  BY <1>1, PrefixComputes
<1>3. 0 \in S
  BY <1>2, ListsAssumption DEF IsPrefix, Keys
<1>4. ASSUME NEW n \in Keys, n - 1 \in S PROVE n \in S
  <2>1. Prefix(g)[n - 1] = Prefix(f)[n - 1] + IF n - 1 < k THEN 0 ELSE d
    BY <1>4
  <2>2. g[n] = f[n] + IF n = k THEN d ELSE 0
    BY <1>1
  <2>3. k \in Int /\ n \in Int
    BY ListsAssumption DEF Keys
  <2>4. Prefix(g)[n] = Prefix(f)[n] + IF n < k THEN 0 ELSE d
    BY <1>1, <2>1, <2>2, <2>3, PrefixStep
  <2> QED BY <2>4, PrefixStep
<1>5. 0..KeyCount \subseteq S
  <2> HIDE DEF S
  <2> QED BY <1>3, <1>4, Upwards
<1>6. KeyCount \in S /\ ~ (KeyCount < k)
  BY <1>5, ListsAssumption DEF Keys
<1> QED BY <1>6 DEF SumOf, g

\* A sum of non-negative numbers is at least each of them.
LEMMA SumDominates ==
  ASSUME NEW f \in [Keys -> Int], \A k \in Keys : f[k] >= 0, NEW k \in Keys
  PROVE  SumOf(f) >= f[k]
<1> DEFINE S == {n \in 0..KeyCount : Prefix(f)[n] >= IF n < k THEN 0 ELSE f[k]}
<1>1. IsPrefix(f, Prefix(f))
  BY PrefixComputes
<1>2. 0 \in S
  BY <1>1, ListsAssumption DEF IsPrefix, Keys
<1>3. ASSUME NEW n \in Keys, n - 1 \in S PROVE n \in S
  <2>1. Prefix(f)[n - 1] >= IF n - 1 < k THEN 0 ELSE f[k]
    BY <1>3
  <2>2. k \in Int /\ n \in Int /\ f[k] \in Int /\ f[n] >= 0 /\ f[k] >= 0
    BY ListsAssumption DEF Keys
  <2>3. Prefix(f)[n] >= IF n < k THEN 0 ELSE f[k]
    BY <2>1, <2>2, PrefixStep
  <2> QED BY <2>3, PrefixStep
<1>4. 0..KeyCount \subseteq S
  <2> HIDE DEF S
  <2> QED BY <1>2, <1>3, Upwards
<1> QED BY <1>4, ListsAssumption DEF SumOf, Keys

\* A positive sum has a positive summand.
LEMMA PositiveSummand ==
  ASSUME NEW f \in [Keys -> Int], SumOf(f) > 0
  PROVE  \E k \in Keys : f[k] > 0
<1> SUFFICES ASSUME \A k \in Keys : ~ (f[k] > 0) PROVE FALSE
  OBVIOUS
<1> DEFINE S == {n \in 0..KeyCount : Prefix(f)[n] <= 0}
<1>1. IsPrefix(f, Prefix(f))
  BY PrefixComputes
<1>2. 0 \in S
  BY <1>1, ListsAssumption DEF IsPrefix
<1>3. ASSUME NEW n \in Keys, n - 1 \in S PROVE n \in S
  BY <1>3, PrefixStep
<1>4. 0..KeyCount \subseteq S
  <2> HIDE DEF S
  <2> QED BY <1>2, <1>3, Upwards
<1> QED BY <1>4, SumType, ListsAssumption DEF SumOf

-----------------------------------------------------------------------------
(* The key with the highest weight.                                        *)

\* Some key has the highest weight, and one of those is the first.
LEMMA FirstMaximum ==
  ASSUME NEW f \in [Keys -> Int]
  PROVE  LET best == Min({k \in Keys : \A j \in Keys : f[k] >= f[j]})
         IN  best \in Keys /\ \A j \in Keys : f[best] >= f[j]
<1> DEFINE S == {n \in 0..KeyCount : n = 0 \/ \E k \in 1..n : \A j \in 1..n : f[k] >= f[j]}
           M == {k \in Keys : \A j \in Keys : f[k] >= f[j]}
<1>1. 0 \in S
  BY ListsAssumption
<1>2. ASSUME NEW n \in Keys, n - 1 \in S PROVE n \in S
  <2>1. n \in 1..KeyCount /\ \A j \in 1..n : f[j] \in Int /\ (j = n \/ j \in 1..(n - 1))
    BY ListsAssumption DEF Keys
  <2>2. CASE n = 1
    BY <2>1, <2>2
  <2>3. CASE n # 1
    <3>1. PICK k \in 1..(n - 1) : \A j \in 1..(n - 1) : f[k] >= f[j]
      BY <1>2, <2>1, <2>3
    <3>2. CASE f[k] >= f[n]
      BY <2>1, <3>1, <3>2
    <3>3. CASE f[n] >= f[k]
      <4>1. \A j \in 1..n : f[n] >= f[j]
        BY <2>1, <3>1, <3>3
      <4> QED BY <2>1, <4>1
    <3> QED BY <2>1, <3>1, <3>2, <3>3
  <2> QED BY <2>2, <2>3
<1>3. 0..KeyCount \subseteq S
  <2> HIDE DEF S
  <2> QED BY <1>1, <1>2, Upwards
<1>4. M # {} /\ M \in SUBSET Nat
  <2>1. KeyCount \in S /\ KeyCount # 0
    BY <1>3, ListsAssumption
  <2>2. PICK k \in 1..KeyCount : \A j \in 1..KeyCount : f[k] >= f[j]
    BY <2>1
  <2>3. k \in M
    BY <2>2 DEF Keys
  <2> QED BY <2>3, ListsAssumption DEF Keys
<1>5. PICK n \in M : \A m \in M : n <= m
  <2> HIDE DEF M
  <2> QED BY <1>4, LeastElement
<1>6. Min(M) \in M
  <2> HIDE DEF M
  <2> QED BY <1>5 DEF Min
<1> QED BY <1>6

\* Two summands of a sum of non-negative numbers.
LEMMA SumDominatesPair ==
  ASSUME NEW f \in [Keys -> Int], \A k \in Keys : f[k] >= 0,
         NEW i \in Keys, NEW j \in Keys, i # j
  PROVE  SumOf(f) >= f[i] + f[j]
<1> DEFINE g == [f EXCEPT ![i] = @ + (- f[i])]
<1>1. /\ f[i] \in Int /\ f[j] \in Int /\ - f[i] \in Int
      /\ g \in [Keys -> Int] /\ g[j] = f[j] /\ \A k \in Keys : g[k] >= 0
  OBVIOUS
<1>2. SumOf(g) = SumOf(f) + (- f[i])
  BY <1>1, SumChanges
<1> HIDE DEF g
<1>3. SumOf(g) >= g[j]
  BY <1>1, SumDominates
<1> QED BY <1>1, <1>2, <1>3, SumType

-----------------------------------------------------------------------------
(* The inductive invariant of the weighted round robin.                    *)

\* The types of the strategies' state.
TypeInv ==
  /\ weight \in [Keys -> 1..MaxWeight] /\ current \in [Keys -> Int]
  /\ picks \in [Keys -> Nat] /\ calls \in Nat /\ reweighed \in BOOLEAN

\* What Select adds to the current weights it takes off again.
BalanceInv == SumOf(current) = 0 /\ picked # Nil

\* The current weight of a key is what it is owed since the period began, and
\* stays within the bounds that Smooth states.
Owed(k) ==
  /\ current[k] = calls * weight[k] - picks[k] * Total(Keys)
  /\ current[k] > - Total(Keys)
  /\ 2 * current[k] <= (KeyCount - 1) * Total(Keys) - (KeyCount - 2)

PeriodInv ==
  ~ reweighed => /\ calls <= Total(Keys) /\ SumOf(picks) = calls
                 /\ \A k \in Keys : Owed(k)

\* The total is the sum of the weights, and positive.
LEMMA TotalFacts ==
  ASSUME TypeInv
  PROVE  /\ Total(Keys) = SumOf(weight) /\ Total(Keys) \in Nat \ {0}
         /\ weight \in [Keys -> Int] /\ picks \in [Keys -> Int]
         /\ \A k \in Keys : weight[k] \in Nat \ {0} /\ weight[k] <= Total(Keys)
<1>1. /\ weight \in [Keys -> Int] /\ picks \in [Keys -> Int]
      /\ \A k \in Keys : weight[k] \in Nat \ {0}
  BY ListsAssumption DEF TypeInv
<1>2. [k \in Keys |-> IF k \in Keys THEN weight[k] ELSE 0] = weight
  BY <1>1
<1>3. Total(Keys) = SumOf(weight)
  BY <1>2 DEF Total
<1>4. \A k \in Keys : SumOf(weight) >= weight[k]
  BY <1>1, SumDominates
<1>5. SumOf(weight) \in Int /\ 1 \in Keys
  BY <1>1, SumType, ListsAssumption DEF Keys
<1> QED BY <1>1, <1>3, <1>4, <1>5

\* What Select finds and leaves when every key is listed.
LEMMA SelectFacts ==
  ASSUME TypeInv, BalanceInv, WeightedSelect(Keys)
  PROVE  /\ picked' \in Keys
         /\ \A k \in Keys : current[k] + weight[k] <= current[picked'] + weight[picked']
         /\ current[picked'] + weight[picked'] > 0
         /\ SumOf(Raised(Keys)) = Total(Keys) /\ Raised(Keys) \in [Keys -> Int]
         /\ \A k \in Keys : Raised(Keys)[k] = current[k] + weight[k]
         /\ current' = [Raised(Keys) EXCEPT ![picked'] = @ + (- Total(Keys))]
<1> DEFINE cw   == Raised(Keys)
           best == Min({k \in Keys : \A j \in Keys : cw[k] >= cw[j]})
<1>1. current \in [Keys -> Int] /\ weight \in [Keys -> Int] /\ Total(Keys) \in Nat \ {0}
  BY TotalFacts DEF TypeInv
<1>2. cw \in [Keys -> Int] /\ \A k \in Keys : cw[k] = current[k] + weight[k]
  BY <1>1 DEF Raised
<1>3. picked' = Heaviest(Keys, cw)
  BY DEF WeightedSelect
<1>4. current' = IF picked' = Nil THEN cw ELSE [cw EXCEPT ![picked'] = @ - Total(Keys)]
  BY DEF WeightedSelect, Charge
<1>5. Heaviest(Keys, cw) = IF cw[best] > -1 THEN best ELSE Nil
  BY DEF Heaviest
<1> HIDE DEF cw
<1>6. SumOf(cw) = SumOf(current) + SumOf(weight)
  BY <1>1, <1>2, SumAdds
<1>7. SumOf(cw) = Total(Keys)
  BY <1>1, <1>6, TotalFacts DEF BalanceInv
<1>8. PICK k \in Keys : cw[k] > 0
  BY <1>1, <1>2, <1>7, PositiveSummand
<1>9. best \in Keys /\ \A j \in Keys : cw[best] >= cw[j]
  BY <1>2, FirstMaximum
<1> HIDE DEF best
<1>10. cw[best] > 0 /\ cw[best] > -1
  BY <1>2, <1>8, <1>9
<1>11. picked' = best /\ best # Nil
  BY <1>3, <1>5, <1>9, <1>10, ListsAssumption DEF Keys, Nil
<1>12. current' = [cw EXCEPT ![best] = @ + (- Total(Keys))]
  BY <1>1, <1>2, <1>4, <1>9, <1>11
<1>13. \A k1 \in Keys : current[k1] + weight[k1] <= current[best] + weight[best]
  BY <1>1, <1>2, <1>9
<1>14. current[best] + weight[best] > 0
  BY <1>2, <1>9, <1>10
<1> QED BY <1>2, <1>7, <1>9, <1>11, <1>12, <1>13, <1>14 DEF cw

\* After as many calls as the weights add up to every key has been picked as
\* often as its weight says: no key can be ahead, and the picks add up to the
\* weights.
LEMMA PeriodEnds ==
  ASSUME TypeInv, PeriodInv, ~ reweighed, calls = Total(Keys)
  PROVE  picks = weight /\ current = [k \in Keys |-> 0]
<1> DEFINE T == Total(Keys)
           d == [k \in Keys |-> weight[k] - picks[k]]
<1>1. /\ T \in Nat \ {0} /\ T = SumOf(weight) /\ SumOf(picks) = T
      /\ weight \in [Keys -> Int] /\ picks \in [Keys -> Int]
  BY TotalFacts DEF PeriodInv
<1>2. \A k \in Keys : current[k] = T * weight[k] - picks[k] * T /\ current[k] > - T
  BY DEF PeriodInv, Owed
<1> HIDE DEF T
<1>3. ASSUME NEW k \in Keys PROVE current[k] = (weight[k] - picks[k]) * T
  <2>1. weight[k] \in Int /\ picks[k] \in Int /\ T \in Int
    BY <1>1
  <2>2. T * weight[k] - picks[k] * T = (weight[k] - picks[k]) * T
    BY <2>1
  <2> QED BY <1>2, <2>2
<1>4. ASSUME NEW k \in Keys PROVE weight[k] - picks[k] >= 0
  <2> DEFINE x == weight[k] - picks[k]
  <2>1. x \in Int /\ T \in Nat \ {0} /\ x * T > - T
    BY <1>1, <1>2, <1>3
  <2> HIDE DEF x
  <2>2. x <= -1 => x * T <= (-1) * T
    BY <2>1
  <2>3. x >= 0
    BY <2>1, <2>2
  <2> QED BY <2>3 DEF x
<1>5. d \in [Keys -> Int] /\ \A k \in Keys : d[k] >= 0 /\ weight[k] = d[k] + picks[k]
  BY <1>1, <1>4
<1> HIDE DEF d
<1>6. SumOf(weight) = SumOf(d) + SumOf(picks)
  BY <1>1, <1>5, SumAdds
<1>7. \A k \in Keys : SumOf(d) >= d[k]
  BY <1>5, SumDominates
<1>8. SumOf(d) = 0
  BY <1>1, <1>5, <1>6, SumType
<1>9. \A k \in Keys : d[k] = 0
  BY <1>5, <1>7, <1>8
<1>10. \A k \in Keys : weight[k] = picks[k]
  BY <1>1, <1>5, <1>9
<1>11. picks = weight
  BY <1>1, <1>10
<1>12. \A k \in Keys : current[k] = 0
  <2> SUFFICES ASSUME NEW k \in Keys PROVE current[k] = 0
    OBVIOUS
  <2>1. weight[k] \in Int /\ picks[k] \in Int /\ T \in Int /\ weight[k] - picks[k] = 0
    BY <1>1, <1>10
  <2> QED BY <1>3, <2>1
<1>13. current = [k \in Keys |-> 0]
  BY <1>12 DEF TypeInv
<1> QED BY <1>11, <1>13

\* A Select keeps every current weight within its bounds: the picked key pays
\* less than it had, and a key that is passed over has at most half of what
\* the two of them have.
LEMMA SelectWithinBounds ==
  ASSUME TypeInv, BalanceInv, WeightedSelect(Keys), NEW k \in Keys,
         \A j \in Keys : /\ current[j] > - Total(Keys)
                         /\ 2 * current[j] <= (KeyCount - 1) * Total(Keys) - (KeyCount - 2)
  PROVE  /\ current'[k] = current[k] + weight[k] - IF k = picked' THEN Total(Keys) ELSE 0
         /\ current'[k] > - Total(Keys)
         /\ 2 * current'[k] <= (KeyCount - 1) * Total(Keys) - (KeyCount - 2)
<1> DEFINE T  == Total(Keys)
           cw == Raised(Keys)
           p  == picked'
           g  == [j \in Keys |-> T - 1]
           f  == [j \in Keys |-> cw[j] + (T - 1)]
<1>1. /\ p \in Keys /\ cw \in [Keys -> Int] /\ cw[p] > 0
      /\ SumOf(cw) = T /\ current' = [cw EXCEPT ![p] = @ + (- T)]
      /\ \A j \in Keys : cw[j] = current[j] + weight[j] /\ cw[j] <= cw[p]
  BY SelectFacts
<1>2. T \in Nat \ {0} /\ \A j \in Keys : weight[j] \in Nat \ {0} /\ weight[j] <= T
  BY TotalFacts
<1>3. \A j \in Keys : current[j] \in Int /\ current[j] > - T
  BY DEF TypeInv
<1>4. 2 * current[k] <= (KeyCount - 1) * T - (KeyCount - 2)
  OBVIOUS
<1>5. KeyCount \in Nat \ {0}
  BY ListsAssumption
<1> HIDE DEF T, cw, p
<1>6. current'[k] = current[k] + weight[k] - IF k = p THEN T ELSE 0
  BY <1>1, <1>2, <1>3
<1>7. current'[k] > - T
  BY <1>1, <1>2, <1>3, <1>6
<1>8. 2 * current'[k] <= (KeyCount - 1) * T - (KeyCount - 2)
  <2>1. CASE k = p
    <3> DEFINE bound == (KeyCount - 1) * T - (KeyCount - 2)
    <3>1. bound \in Int
      BY <1>2, <1>5
    <3>2. 2 * current[k] <= bound
      BY <1>4
    <3> HIDE DEF bound
    <3>3. current'[k] <= current[k] /\ current'[k] \in Int
      BY <1>2, <1>3, <1>6, <2>1
    <3>4. 2 * current'[k] <= bound
      BY <1>3, <3>1, <3>2, <3>3
    <3> QED BY <3>4 DEF bound
  <2>2. CASE k # p
    <3>1. /\ f \in [Keys -> Int] /\ g \in [Keys -> Int] /\ T - 1 \in Int
          /\ \A j \in Keys : f[j] = cw[j] + g[j] /\ g[j] = T - 1 /\ f[j] >= 0
      BY <1>1, <1>2, <1>3
    <3> HIDE DEF f, g
    <3>2. SumOf(f) = SumOf(cw) + SumOf(g)
      BY <1>1, <3>1, SumAdds
    <3>3. SumOf(g) = KeyCount * (T - 1)
      BY <3>1, SumConstant
    <3>4. SumOf(f) >= f[k] + f[p]
      BY <1>1, <2>2, <3>1, SumDominatesPair
    <3>5. T + KeyCount * (T - 1) >= (cw[k] + (T - 1)) + (cw[p] + (T - 1))
      BY <1>1, <3>1, <3>2, <3>3, <3>4
    <3>6. current'[k] = cw[k] /\ cw[k] <= cw[p] /\ cw[k] \in Int /\ cw[p] \in Int
      BY <1>1, <2>2
    <3>7. KeyCount * (T - 1) = KeyCount * T - KeyCount
      BY <1>2, <1>5
    <3>8. (KeyCount - 1) * T - (KeyCount - 2) = KeyCount * T - T - KeyCount + 2
      BY <1>2, <1>5
    <3>9. KeyCount * T \in Int
      BY <1>2, <1>5
    <3> QED BY <1>2, <1>5, <3>5, <3>6, <3>7, <3>8, <3>9
  <2> QED BY <2>1, <2>2
<1> QED BY <1>6, <1>7, <1>8 DEF T, p

\* An all-zero function adds up to zero.
LEMMA SumZero == SumOf([k \in Keys |-> 0]) = 0
<1> DEFINE z == [k \in Keys |-> 0]
<1>1. z \in [Keys -> Int] /\ \A k \in Keys : z[k] = 0
  OBVIOUS
<1> HIDE DEF z
<1>2. SumOf(z) = KeyCount * 0
  BY <1>1, SumConstant
<1> QED BY <1>2, ListsAssumption DEF z

\* One more of b.
LEMMA OneMore ==
  ASSUME NEW a \in Int, NEW b \in Int
  PROVE  a * b \in Int /\ (a + 1) * b = a * b + b
OBVIOUS

\* A period that has just begun.
Fresh == TypeInv /\ current = [k \in Keys |-> 0] /\ picks = [k \in Keys |-> 0] /\ calls = 0

\* A new period starts with nothing owed.
LEMMA FreshPeriod == Fresh => PeriodInv
<1> SUFFICES ASSUME Fresh PROVE PeriodInv
  OBVIOUS
<1> USE DEF Fresh
<1>1. Total(Keys) \in Nat \ {0} /\ \A k \in Keys : weight[k] \in Nat
  BY TotalFacts
<1>2. KeyCount \in Nat \ {0}
  BY ListsAssumption
<1> DEFINE T == Total(Keys)
<1>3. T \in Nat \ {0}
  BY <1>1
<1> HIDE DEF T
<1>4. (KeyCount - 1) * T - (KeyCount - 2) >= 0
  <2>1. (KeyCount - 1) * T - (KeyCount - 2) = (KeyCount - 1) * (T - 1) + 1
    BY <1>2, <1>3
  <2>2. (KeyCount - 1) * (T - 1) >= 0
    BY <1>2, <1>3
  <2>3. (KeyCount - 1) * (T - 1) \in Int
    BY <1>2, <1>3
  <2> QED BY <2>1, <2>2, <2>3
<1>5. ASSUME NEW k \in Keys PROVE Owed(k)
  <2>1. current[k] = 0 /\ picks[k] = 0 /\ weight[k] \in Int
    BY <1>1
  <2>2. current[k] = calls * weight[k] - picks[k] * T
    BY <1>3, <2>1
  <2> QED BY <1>3, <1>4, <2>1, <2>2 DEF Owed, T
<1> QED BY <1>1, <1>5, SumZero DEF PeriodInv

\* The same for the state after a step.
LEMMA FreshPeriodNext == Fresh' => PeriodInv'
BY FreshPeriod, PTL

\* Every step preserves the types and the period's account.
LEMMA PeriodStep ==
  ASSUME Lists = {Keys}, TypeInv, BalanceInv, PeriodInv, [Next]_vars
  PROVE  TypeInv' /\ BalanceInv' /\ PeriodInv'
<1>1. CASE WeightedSelect(Keys)
  <2> DEFINE T == Total(Keys)
  <2>1. /\ weight' = weight /\ reweighed' = reweighed
        /\ calls' = (IF calls = T THEN 0 ELSE calls) + 1
        /\ picks' = [j \in Keys |-> (IF calls = T THEN 0 ELSE picks[j])
                                     + (IF j = picked' THEN 1 ELSE 0)]
    <3>1. weight' = weight /\ reweighed' = reweighed
      BY <1>1 DEF WeightedSelect, weightVars
    <3>2. picked' = Heaviest(Keys, Raised(Keys))
      BY <1>1 DEF WeightedSelect
    <3>3. CASE calls = T
      <4>1. calls' = 1 /\ picks' = [j \in Keys |-> IF j = picked' THEN 1 ELSE 0]
        BY <1>1, <3>2, <3>3 DEF WeightedSelect
      <4> QED BY <3>1, <3>3, <4>1
    <3>4. CASE calls # T
      <4>1. calls' = calls + 1 /\ picks' = [j \in Keys |-> picks[j] + (IF j = picked' THEN 1 ELSE 0)]
        BY <1>1, <3>2, <3>4 DEF WeightedSelect
      <4> QED BY <3>1, <3>4, <4>1
    <3> QED BY <3>3, <3>4
  <2>2. /\ picked' \in Keys /\ current' = [Raised(Keys) EXCEPT ![picked'] = @ + (- T)]
        /\ Raised(Keys) \in [Keys -> Int] /\ SumOf(Raised(Keys)) = T
    BY <1>1, SelectFacts
  <2>3. T \in Nat \ {0} /\ T' = T /\ \A k \in Keys : weight[k] \in Nat \ {0}
    BY <2>1, TotalFacts DEF Total
  <2> HIDE DEF T
  <2>4. TypeInv'
    BY <2>1, <2>2, <2>3 DEF TypeInv
  <2>5. BalanceInv'
    <3>1. SumOf(current') = T + (- T)
      BY <2>2, <2>3, SumChanges
    <3>2. picked' # Nil
      BY <2>2, ListsAssumption DEF Keys, Nil
    <3>3. SumOf(current') = 0
      BY <2>3, <3>1
    <3> QED BY <3>2, <3>3 DEF BalanceInv
  <2>6. ASSUME ~ reweighed PROVE PeriodInv'
    <3> DEFINE c == IF calls = T THEN 0 ELSE calls
               q == [j \in Keys |-> IF calls = T THEN 0 ELSE picks[j]]
    <3>1. calls <= T /\ SumOf(picks) = calls /\ \A k \in Keys : Owed(k)
      BY <2>6 DEF PeriodInv, T
    <3>2. /\ c \in Nat /\ c + 1 <= T /\ q \in [Keys -> Int] /\ SumOf(q) = c
          /\ \A k \in Keys : current[k] = c * weight[k] - q[k] * T
      <4>1. CASE calls = T
        <5>1. current = [k \in Keys |-> 0]
          BY <2>6, <4>1, PeriodEnds DEF T
        <5>2. q = [k \in Keys |-> 0] /\ c = 0
          BY <4>1
        <5> HIDE DEF q, c
        <5>3. ASSUME NEW k \in Keys PROVE current[k] = c * weight[k] - q[k] * T
          <6>1. current[k] = 0 /\ q[k] = 0 /\ weight[k] \in Int
            BY <2>3, <5>1, <5>2
          <6> QED BY <2>3, <5>2, <6>1
        <5> QED BY <2>3, <5>2, <5>3, SumZero
      <4>2. CASE calls # T
        <5>1. q = picks /\ c = calls
          BY <4>2 DEF TypeInv
        <5> HIDE DEF q, c
        <5>2. \A k \in Keys : current[k] = calls * weight[k] - picks[k] * T
          BY <3>1 DEF Owed, T
        <5> QED BY <2>3, <3>1, <4>2, <5>1, <5>2 DEF TypeInv
      <4> QED BY <4>1, <4>2
    <3>3. calls' = c + 1
      BY <2>1
    <3>4. picks' = [j \in Keys |-> q[j] + IF j = picked' THEN 1 ELSE 0]
      BY <2>1
    <3> HIDE DEF c, q
    <3>5. c \in Nat /\ c + 1 <= T /\ q \in [Keys -> Int] /\ SumOf(q) = c
      BY <3>2
    <3>6. SumOf(picks') = calls'
      <4>1. picked' \in Keys
        BY <2>2
      <4>2. picks' = [q EXCEPT ![picked'] = @ + 1]
        <5> DEFINE h == [q EXCEPT ![picked'] = @ + 1]
        <5>1. /\ h \in [Keys -> Int] /\ picks' \in [Keys -> Int]
              /\ \A j \in Keys : h[j] = picks'[j]
          BY <3>4, <3>5, <4>1
        <5> HIDE DEF h
        <5>2. picks' = h
          BY <5>1
        <5> QED BY <5>2 DEF h
      <4>3. \A d \in Int : SumOf([q EXCEPT ![picked'] = @ + d]) = SumOf(q) + d
        BY <3>5, <4>1, SumChanges
      <4>4. SumOf([q EXCEPT ![picked'] = @ + 1]) = SumOf(q) + 1
        BY <4>3
      <4> QED BY <3>3, <3>5, <4>2, <4>4
    <3>7. ASSUME NEW k \in Keys PROVE Owed(k)'
      <4>1. \A j \in Keys : /\ current[j] > - Total(Keys)
                            /\ 2 * current[j] <= (KeyCount - 1) * Total(Keys) - (KeyCount - 2)
        BY <3>1 DEF Owed
      <4>2. /\ current'[k] = current[k] + weight[k] - IF k = picked' THEN T ELSE 0
            /\ current'[k] > - T
            /\ 2 * current'[k] <= (KeyCount - 1) * T - (KeyCount - 2)
        BY <1>1, <4>1, SelectWithinBounds DEF T
      <4>3. /\ weight[k] \in Int /\ q[k] \in Int
            /\ picks'[k] = q[k] + IF k = picked' THEN 1 ELSE 0
        BY <2>3, <3>4, <3>5
      <4> DEFINE w == weight[k]
                 u == q[k]
      <4> HIDE DEF w, u
      <4>4. w \in Int /\ u \in Int /\ current[k] = c * w - u * T
        BY <3>2, <4>3 DEF w, u
      <4>5. (c + 1) * w = c * w + w /\ c * w \in Int
        BY <3>5, <4>4, OneMore
      <4>6. (u + 1) * T = u * T + T /\ u * T \in Int
        BY <2>3, <4>4, OneMore
      <4>7. current'[k] = calls' * w - picks'[k] * T
        <5>1. CASE k = picked'
          <6>1. picks'[k] = u + 1 /\ current'[k] = current[k] + w - T
            BY <4>2, <4>3, <5>1 DEF w, u
          <6> QED BY <2>3, <3>3, <4>4, <4>5, <4>6, <6>1
        <5>2. CASE k # picked'
          <6>1. picks'[k] = u + 0 /\ current'[k] = current[k] + w - 0
            BY <4>2, <4>3, <5>2 DEF w, u
          <6>2. picks'[k] = u
            BY <4>4, <6>1
          <6> QED BY <2>3, <3>3, <4>4, <4>5, <4>6, <6>1, <6>2
        <5> QED BY <5>1, <5>2
      <4> QED BY <2>1, <2>3, <4>2, <4>7 DEF Owed, T, w
    <3> QED BY <2>3, <3>3, <3>5, <3>6, <3>7 DEF PeriodInv, T
  <2>7. PeriodInv' \/ ~ reweighed
    BY <2>1 DEF PeriodInv, TypeInv
  <2> QED BY <2>4, <2>5, <2>6, <2>7
<1>2. CASE RoundSelect(Keys)
  BY <1>2 DEF RoundSelect, weightVars, weightedVars, TypeInv, BalanceInv, PeriodInv, Owed, Total
<1>3. ASSUME NEW k \in Keys, NEW new \in 1..MaxWeight, UpdateKeyWeight(k, new)
      PROVE  TypeInv' /\ BalanceInv' /\ PeriodInv'
  <2>1. TypeInv'
    BY <1>3 DEF UpdateKeyWeight, TypeInv
  <2>2. BalanceInv'
    BY <1>3 DEF UpdateKeyWeight, BalanceInv
  <2>3. PeriodInv'
    BY <1>3 DEF UpdateKeyWeight, PeriodInv
  <2> QED BY <2>1, <2>2, <2>3
<1>4. CASE SwitchToWeighted
  <2>1. /\ current' = [k \in Keys |-> 0] /\ picks' = [k \in Keys |-> 0] /\ calls' = 0
        /\ weight' = weight /\ picked' = picked /\ reweighed' = FALSE
    BY <1>4 DEF SwitchToWeighted, ResetWeighted
  <2>2. TypeInv'
    <3>1. reweighed' \in BOOLEAN
      BY <2>1
    <3>2. /\ weight' \in [Keys -> 1..MaxWeight] /\ current' \in [Keys -> Int]
          /\ picks' \in [Keys -> Nat] /\ calls' \in Nat
      BY <2>1 DEF TypeInv
    <3> QED BY <3>1, <3>2 DEF TypeInv
  <2>3. BalanceInv'
    BY <2>1, SumZero DEF BalanceInv
  <2>4. PeriodInv'
    BY <2>1, <2>2, FreshPeriodNext DEF Fresh
  <2> QED BY <2>2, <2>3, <2>4
<1>5. CASE SwitchToRound
  BY <1>5 DEF SwitchToRound, weightVars, weightedVars, TypeInv, BalanceInv, PeriodInv, Owed, Total
<1>6. CASE UNCHANGED vars
  BY <1>6 DEF vars, TypeInv, BalanceInv, PeriodInv, Owed, Total
<1> QED BY <1>1, <1>2, <1>3, <1>4, <1>5, <1>6 DEF Next

\* The invariant holds from the start, when nothing is owed, and every step keeps it.
LEMMA PeriodInvariant ==
  ASSUME Lists = {Keys}
  PROVE  Spec => [](TypeInv /\ BalanceInv /\ PeriodInv)
<1>1. Init => TypeInv /\ BalanceInv /\ PeriodInv
  <2> SUFFICES ASSUME Init PROVE TypeInv /\ BalanceInv /\ PeriodInv
    OBVIOUS
  <2>1. TypeInv
    <3>1. reweighed \in BOOLEAN
      BY DEF Init
    <3>2. /\ weight \in [Keys -> 1..MaxWeight] /\ current \in [Keys -> Int]
          /\ picks \in [Keys -> Nat] /\ calls \in Nat
      BY DEF Init
    <3> QED BY <3>1, <3>2 DEF TypeInv
  <2>2. BalanceInv
    BY SumZero DEF Init, BalanceInv, Nil
  <2>3. PeriodInv
    BY <2>1, FreshPeriod DEF Init, Fresh
  <2> QED BY <2>1, <2>2, <2>3
<1>2. TypeInv /\ BalanceInv /\ PeriodInv /\ [Next]_vars => (TypeInv /\ BalanceInv /\ PeriodInv)'
  BY PeriodStep
<1> QED BY <1>1, <1>2, PTL DEF Spec

\* While the list is the whole pool Select always returns a key, for every number
\* of keys and whatever the weights are changed to (weightedrr.go:48-62): the
\* current weights add up to zero, so that some raised weight is positive.
THEOREM AlwaysPicksHolds ==
  ASSUME Lists = {Keys}
  PROVE  Spec => []AlwaysPicks
<1>1. BalanceInv => AlwaysPicks
  BY DEF BalanceInv, AlwaysPicks
<1> QED BY <1>1, PeriodInvariant, PTL

\* A period of calls picks every key exactly as often as its weight says, for
\* every number of keys and every assignment of weights (weightedrr.go:36-75).
THEOREM ProportionalHolds ==
  ASSUME Lists = {Keys}
  PROVE  Spec => []Proportional
<1>1. TypeInv /\ PeriodInv => Proportional
  BY PeriodEnds DEF Proportional
<1> QED BY <1>1, PeriodInvariant, PTL

\* No key is a whole pick ahead of its share, and none lags behind it by more
\* than half a pick for each other key (weightedrr.go:8-9), for every pool.
THEOREM SmoothHolds ==
  ASSUME Lists = {Keys}
  PROVE  Spec => []Smooth
<1>1. TypeInv /\ PeriodInv => Smooth
  <2> SUFFICES ASSUME TypeInv, PeriodInv, ~ reweighed, NEW k \in Keys
               PROVE  LET owed == calls * weight[k] - picks[k] * Total(Keys)
                      IN  /\ -Total(Keys) < owed /\ 2 * owed <= (KeyCount - 1) * Total(Keys)
                          /\ KeyCount <= 3 => owed < Total(Keys)
    BY DEF Smooth
  <2> DEFINE T == Total(Keys)
             owed == calls * weight[k] - picks[k] * T
  <2>1. T \in Nat \ {0} /\ KeyCount \in Nat \ {0}
    BY TotalFacts, ListsAssumption
  <2>2. current[k] = owed /\ current[k] \in Int
    BY DEF PeriodInv, Owed, TypeInv
  <2>3. current[k] > - T /\ 2 * current[k] <= (KeyCount - 1) * T - (KeyCount - 2)
    BY DEF PeriodInv, Owed
  <2> HIDE DEF T, owed
  <2>4. - T < owed
    BY <2>1, <2>2, <2>3
  <2>5. 2 * owed <= (KeyCount - 1) * T
    <3>1. CASE KeyCount = 1
      <4>1. 2 * owed <= 1
        BY <2>1, <2>2, <2>3, <3>1
      <4>2. owed <= 0
        BY <2>2, <4>1
      <4> QED BY <2>1, <2>2, <3>1, <4>2
    <3>2. CASE KeyCount >= 2
      <4>1. (KeyCount - 1) * T \in Int
        BY <2>1
      <4> QED BY <2>1, <2>2, <2>3, <3>2, <4>1
    <3> QED BY <2>1, <3>1, <3>2
  <2>6. ASSUME KeyCount <= 3 PROVE owed < T
    <3>1. CASE KeyCount = 1
      BY <2>1, <2>2, <2>3, <3>1
    <3>2. CASE KeyCount = 2
      BY <2>1, <2>2, <2>3, <3>2
    <3>3. CASE KeyCount = 3
      BY <2>1, <2>2, <2>3, <3>3
    <3> QED BY <2>1, <2>6, <3>1, <3>2, <3>3
  <2> QED BY <2>4, <2>5, <2>6 DEF T, owed
<1> QED BY <1>1, PeriodInvariant, PTL

-----------------------------------------------------------------------------
(* The round robin.                                                        *)

\* The recent results are those of the last values of the counter.
RoundInv ==
  /\ counter \in Nat /\ recent \in Seq(Keys)
  /\ Len(recent) <= KeyCount /\ Len(recent) <= counter
  /\ \A i \in 1..Len(recent) : recent[i] = ((counter - 1 - (Len(recent) - i)) % KeyCount) + 1

\* The list of all keys holds key i at place i.
LEMMA InOrderIdentity ==
  ASSUME NEW i \in Keys
  PROVE  Cardinality(Keys) = KeyCount /\ InOrder(Keys)[i] = i
<1>1. Cardinality(Keys) = KeyCount
  BY FS_Interval, ListsAssumption DEF Keys
<1>2. ASSUME NEW k \in Keys PROVE Cardinality({j \in Keys : j <= k}) = k
  <2>1. k \in Nat /\ 1 <= k /\ {j \in Keys : j <= k} = 1..k
    BY ListsAssumption DEF Keys
  <2>2. Cardinality(1..k) = k
    BY <2>1, FS_Interval
  <2> QED BY <2>1, <2>2
<1>3. InOrder(Keys)[i] = CHOOSE k \in Keys : Cardinality({j \in Keys : j <= k}) = i
  BY <1>1 DEF InOrder, Keys
<1>4. \E k \in Keys : Cardinality({j \in Keys : j <= k}) = i
  BY <1>2
<1>5. InOrder(Keys)[i] \in Keys /\ Cardinality({j \in Keys : j <= InOrder(Keys)[i]}) = i
  BY <1>3, <1>4
<1>6. InOrder(Keys)[i] = i
  BY <1>2, <1>5
<1> QED BY <1>1, <1>6

\* Division with remainder.
LEMMA Remainder ==
  ASSUME NEW a \in Nat, NEW n \in Nat \ {0}
  PROVE  a % n \in 0..(n - 1) /\ \E q \in Int : a = n * q + (a % n)
<1>1. a % n \in 0..(n - 1)
  OBVIOUS
<1>2. a \div n \in Int
  OBVIOUS
<1>3. a = n * (a \div n) + (a % n)
  OBVIOUS
<1> QED BY <1>1, <1>2, <1>3

\* Numbers less than n apart have different remainders.
LEMMA RemaindersDiffer ==
  ASSUME NEW n \in Nat \ {0}, NEW a \in Nat, NEW d \in 1..(n - 1)
  PROVE  a % n # (a + d) % n
<1>1. PICK q \in Int : a = n * q + (a % n)
  BY Remainder
<1>2. PICK r \in Int : a + d = n * r + ((a + d) % n)
  <2>1. a + d \in Nat
    OBVIOUS
  <2> QED BY <2>1, Remainder
<1>3. SUFFICES ASSUME a % n = (a + d) % n PROVE FALSE
  OBVIOUS
<1>4. a % n \in Int
  BY Remainder
<1>5. d = n * r - n * q /\ n * r \in Int /\ n * q \in Int
  BY <1>1, <1>2, <1>3, <1>4
<1>6. d = n * (r - q)
  BY <1>5
<1> DEFINE e == r - q
<1>7. e \in Int /\ d = n * e
  BY <1>6
<1> HIDE DEF e
<1>8. e <= 0 => n * e <= 0
  BY <1>7
<1>9. e >= 1 => n * e >= n
  BY <1>7
<1> QED BY <1>7, <1>8, <1>9

\* Every step preserves it.
LEMMA RoundStep ==
  ASSUME Lists = {Keys}, RoundInv, [Next]_vars
  PROVE  RoundInv'
<1>1. CASE RoundSelect(Keys)
  <2> DEFINE n == KeyCount
             k == (counter % n) + 1
  <2>1. /\ counter \in Nat /\ recent \in Seq(Keys) /\ Len(recent) \in Nat
        /\ Len(recent) <= n /\ Len(recent) <= counter
        /\ \A i \in 1..Len(recent) : recent[i] = ((counter - 1 - (Len(recent) - i)) % n) + 1
    BY DEF RoundInv
  <2>2. n \in Nat \ {0}
    BY ListsAssumption
  <2>3. k \in Keys
    <3>1. counter % n \in 0..(n - 1)
      BY <2>1, <2>2, Remainder
    <3> QED BY <2>2, <3>1 DEF Keys
  <2>4. InOrder(Keys)[Index(Cardinality(Keys))] = k
    <3>1. Cardinality(Keys) = n /\ InOrder(Keys)[k] = k
      BY <2>3, InOrderIdentity
    <3> QED BY <3>1 DEF Index
  <2>5. /\ counter' = counter + 1
        /\ recent' = IF Len(recent) < n THEN Append(recent, k) ELSE Append(Tail(recent), k)
    BY <1>1, <2>4 DEF RoundSelect
  <2>6. k = ((counter' - 1) % n) + 1
    <3>1. counter' - 1 = counter
      BY <2>1, <2>5
    <3> QED BY <3>1
  <2> HIDE DEF n, k
  <2>7. counter \in Int /\ Len(recent) \in Int /\ counter' = counter + 1 /\ n \in Int
    BY <2>1, <2>2, <2>5
  <2>8. CASE Len(recent) < n
    <3>1. recent' = Append(recent, k)
      BY <2>5, <2>8
    <3>2. /\ recent' \in Seq(Keys) /\ Len(recent') = Len(recent) + 1
          /\ recent'[Len(recent) + 1] = k /\ \A i \in 1..Len(recent) : recent'[i] = recent[i]
      BY <2>1, <2>3, <3>1
    <3>3. ASSUME NEW i \in 1..Len(recent')
          PROVE  recent'[i] = ((counter' - 1 - (Len(recent') - i)) % n) + 1
      <4>1. CASE i = Len(recent) + 1
        <5>1. counter' - 1 - (Len(recent') - i) = counter' - 1
          BY <2>1, <2>5, <3>2, <4>1
        <5> QED BY <2>6, <3>2, <4>1, <5>1
      <4>2. CASE i # Len(recent) + 1
        <5>1. i \in 1..Len(recent)
          BY <2>1, <3>2, <4>2
        <5>2. counter' - 1 - (Len(recent') - i) = counter - 1 - (Len(recent) - i)
          <6>1. Len(recent') = Len(recent) + 1 /\ i \in Int
            BY <2>7, <3>2, <5>1
          <6> QED BY <2>7, <6>1
        <5> QED BY <2>1, <3>2, <5>1, <5>2
      <4> QED BY <4>1, <4>2
    <3>4. counter' \in Nat /\ Len(recent') <= n /\ Len(recent') <= counter'
      BY <2>1, <2>2, <2>5, <2>8, <3>2
    <3> QED BY <3>2, <3>3, <3>4 DEF RoundInv, n
  <2>9. CASE ~ (Len(recent) < n)
    <3>1. recent' = Append(Tail(recent), k) /\ Len(recent) = n /\ recent # <<>>
      BY <2>1, <2>2, <2>5, <2>9
    <3>2. /\ Tail(recent) \in Seq(Keys) /\ Len(Tail(recent)) = n - 1
          /\ \A i \in 1..(n - 1) : Tail(recent)[i] = recent[i + 1]
      BY <2>1, <2>2, <3>1
    <3>3. /\ recent' \in Seq(Keys) /\ Len(recent') = n /\ recent'[n] = k
          /\ \A i \in 1..(n - 1) : recent'[i] = recent[i + 1]
      BY <2>2, <2>3, <3>1, <3>2
    <3>4. ASSUME NEW i \in 1..Len(recent')
          PROVE  recent'[i] = ((counter' - 1 - (Len(recent') - i)) % n) + 1
      <4>1. CASE i = n
        <5>1. counter' - 1 - (Len(recent') - i) = counter' - 1
          <6>1. Len(recent') = n
            BY <3>3
          <6> QED BY <2>7, <4>1, <6>1
        <5> QED BY <2>6, <3>3, <4>1, <5>1
      <4>2. CASE i # n
        <5>1. i \in 1..(n - 1) /\ i + 1 \in 1..Len(recent)
          BY <2>2, <3>1, <3>3, <4>2
        <5>2. counter' - 1 - (Len(recent') - i) = counter - 1 - (Len(recent) - (i + 1))
          <6>1. Len(recent') = n /\ Len(recent) = n /\ i \in Int
            BY <2>7, <3>1, <3>3, <5>1
          <6> QED BY <2>7, <6>1
        <5> QED BY <2>1, <3>3, <5>1, <5>2
      <4> QED BY <4>1, <4>2
    <3>5. counter' \in Nat /\ Len(recent') <= n /\ Len(recent') <= counter'
      BY <2>1, <2>2, <2>5, <3>1, <3>3
    <3> QED BY <3>3, <3>4, <3>5 DEF RoundInv, n
  <2> QED BY <2>8, <2>9
<1>2. CASE SwitchToRound
  <2>1. counter' = 0 /\ recent' = <<>>
    BY <1>2 DEF SwitchToRound
  <2> QED BY <2>1, ListsAssumption DEF RoundInv
<1>3. CASE UNCHANGED roundVars
  BY <1>3 DEF roundVars, RoundInv
<1>4. CASE WeightedSelect(Keys)
  BY <1>3, <1>4 DEF WeightedSelect
<1>5. ASSUME NEW k \in Keys, NEW new \in 1..MaxWeight, UpdateKeyWeight(k, new)
      PROVE  RoundInv'
  BY <1>3, <1>5 DEF UpdateKeyWeight
<1>6. CASE SwitchToWeighted
  BY <1>3, <1>6 DEF SwitchToWeighted
<1>7. CASE UNCHANGED vars
  BY <1>3, <1>7 DEF vars, roundVars
<1> QED BY <1>1, <1>2, <1>4, <1>5, <1>6, <1>7 DEF Next

\* On an unchanged list the round robin returns every key before any comes up
\* again, for every number of keys (roundrobin.go:26-37): the last KeyCount
\* results stem from as many successive values of the counter.
THEOREM CyclesHolds ==
  ASSUME Lists = {Keys}
  PROVE  Spec => []Cycles
<1>1. Init => RoundInv
  BY ListsAssumption DEF Init, RoundInv
<1>2. RoundInv /\ [Next]_vars => RoundInv'
  BY RoundStep
<1>3. RoundInv => Cycles
  <2> SUFFICES ASSUME RoundInv, NEW i \in 1..Len(recent), NEW j \in 1..Len(recent), i < j
               PROVE  recent[i] # recent[j]
    <3>1. Len(recent) \in Nat
      BY DEF RoundInv
    <3> QED BY <3>1 DEF Cycles
  <2> DEFINE l == Len(recent)
             a == counter - 1 - (l - i)
             d == j - i
  <2>1. /\ counter \in Nat /\ l \in Nat /\ l <= KeyCount /\ l <= counter
        /\ recent[i] = ((counter - 1 - (l - i)) % KeyCount) + 1
        /\ recent[j] = ((counter - 1 - (l - j)) % KeyCount) + 1
    BY DEF RoundInv
  <2> HIDE DEF l
  <2>2. i \in 1..l /\ j \in 1..l
    BY DEF l
  <2>3. a \in Nat /\ d \in 1..(KeyCount - 1) /\ counter - 1 - (l - j) = a + d
    BY <2>1, <2>2, ListsAssumption
  <2>4. recent[i] = (a % KeyCount) + 1 /\ recent[j] = ((a + d) % KeyCount) + 1
    BY <2>1, <2>3
  <2> HIDE DEF a, d
  <2>5. a % KeyCount # (a + d) % KeyCount
    BY <2>3, RemaindersDiffer, ListsAssumption
  <2>6. a % KeyCount \in Int /\ (a + d) % KeyCount \in Int
    BY <2>3, Remainder, ListsAssumption
  <2> QED BY <2>4, <2>5, <2>6
<1> QED BY <1>1, <1>2, <1>3, PTL DEF Spec
=============================================================================
