-------------------------- MODULE HeapQueueProofs --------------------------
(***************************************************************************)
(* The heap of the queue, for every set of items, every capacity and every *)
(* assignment of priorities and times: the slice stays a heap whose items  *)
(* know their places, and it implements the set of items of Queue.         *)
(*                                                                         *)
(* The loops of container/heap are recursive functions of the number of    *)
(* turns; what they compute is shown by induction over sets of numbers     *)
(* (UpTo), in which the statement to be proved is a set.                   *)
(***************************************************************************)
EXTENDS HeapQueue, FiniteSetTheorems, NaturalsInduction, SequenceTheorems, TLAPS

\* Induction up to N.
LEMMA UpTo ==
  ASSUME NEW N \in Nat, NEW S, 0 \in S, \A n \in 1..N : n - 1 \in S => n \in S
  PROVE  0..N \subseteq S
<1> DEFINE R == {n \in 0..N : n \notin S}
<1>1. SUFFICES ASSUME R # {} PROVE FALSE
  OBVIOUS
<1>2. R \in SUBSET Nat
  OBVIOUS
<1>3. PICK n \in R : \A m \in R : ~ (<<m, n>> \in OpToRel(<, Nat))
  <2> HIDE DEF R
  <2> QED BY <1>1, <1>2, NatLessThanWellFounded, WFMin
<1>4. n \in 1..N /\ n - 1 \in 0..N /\ n - 1 \in Nat /\ n \in Nat
  <2>1. n \in 0..N /\ n # 0
    BY <1>3
  <2> QED BY <2>1
<1>5. n - 1 \notin R
  <2>1. <<n - 1, n>> \in OpToRel(<, Nat)
    BY <1>4 DEF OpToRel
  <2> QED BY <1>3, <2>1
<1> QED BY <1>3, <1>4, <1>5

\* The steps of a recursion of N turns over D, and its solutions from a.
Steps(N, D) == [1..N -> [D -> D]]

Solves(f, N, D, a, next) ==
  f \in [0..N -> D] /\ f[0] = a /\ \A n \in 1..N : f[n] = next[n][f[n - 1]]

\* A recursion whose steps do not leave D has a solution.
LEMMA RecursionExists ==
  ASSUME NEW N \in Nat, NEW D, NEW a \in D, NEW next \in Steps(N, D)
  PROVE  \E f : Solves(f, N, D, a, next)
<1> DEFINE Good(n, f) == f \in [0..N -> D] /\ f[0] = a /\ \A m \in 1..n : f[m] = next[m][f[m - 1]]
           S == {n \in 0..N : \E f : Good(n, f)}
<1>0. next \in [1..N -> [D -> D]]
  BY DEF Steps
<1>1. 0 \in S
  <2>1. Good(0, [m \in 0..N |-> a])
    OBVIOUS
  <2> HIDE DEF Good
  <2> QED BY <2>1
<1>2. ASSUME NEW n \in 1..N, n - 1 \in S PROVE n \in S
  <2>1. PICK f : Good(n - 1, f)
    BY <1>2
  <2>2. n \in Nat /\ n - 1 \in 0..N /\ n \in 0..N /\ f[n - 1] \in D /\ next[n][f[n - 1]] \in D
    BY <1>0, <2>1
  <2> DEFINE h == [f EXCEPT ![n] = next[n][f[n - 1]]]
  <2>3. /\ h \in [0..N -> D] /\ h[n] = next[n][f[n - 1]]
        /\ \A m \in 0..N : m # n => h[m] = f[m]
    BY <2>1, <2>2
  <2>4. ASSUME NEW m \in 1..n PROVE h[m] = next[m][h[m - 1]]
    <3> HIDE DEF h
    <3>1. m \in Nat /\ m - 1 \in 0..N /\ m \in 0..N /\ m - 1 # n
      BY <2>2
    <3>2. CASE m = n
      BY <2>2, <2>3, <3>1, <3>2
    <3>3. CASE m # n
      <4>1. m \in 1..(n - 1)
        BY <2>2, <3>1, <3>3
      <4> QED BY <2>1, <2>3, <3>1, <3>3, <4>1
    <3> QED BY <3>2, <3>3
  <2>5. Good(n, h)
    <3>1. h[0] = a
      BY <2>1, <2>2, <2>3
    <3> HIDE DEF h
    <3> QED BY <2>3, <2>4, <3>1
  <2> HIDE DEF Good, h
  <2> QED BY <2>2, <2>5
<1>3. 0..N \subseteq S
  <2> HIDE DEF S
  <2> QED BY <1>1, <1>2, UpTo
<1>4. PICK f : Good(N, f)
  BY <1>3
<1> QED BY <1>4 DEF Solves

-----------------------------------------------------------------------------
(* The order of items, and slices.                                         *)

\* Less is a strict weak order: what it does not tell apart is equivalent.
LEMMA LessIsWeakOrder ==
  ASSUME NEW x \in Items, NEW y \in Items, NEW z \in Items
  PROVE  /\ ~ Q!Less(x, x)
         /\ Q!Less(x, y) => ~ Q!Less(y, x)
         /\ ~ Q!Less(x, y) /\ ~ Q!Less(y, z) => ~ Q!Less(x, z)
<1>1. /\ Priority[x] \in Int /\ Priority[y] \in Int /\ Priority[z] \in Int
      /\ CreatedAt[x] \in Int /\ CreatedAt[y] \in Int /\ CreatedAt[z] \in Int
  BY HeapOrderAssumption
<1> QED BY <1>1 DEF Q!Less

\* A slice of N items, each of which knows its place.
Slice(h, N) ==
  /\ h \in [slots : [1..N -> Items], index : [Items -> Int]]
  /\ \A p \in 0..N - 1 : h.index[At(h, p)] = p

Content(h, N) == {h.slots[p] : p \in 1..N}

\* The items of a slice, by their places.
LEMMA ContentByPlace ==
  ASSUME NEW N \in Nat, NEW h, Slice(h, N)
  PROVE  /\ \A p \in 0..N - 1 : At(h, p) \in Items /\ At(h, p) \in Content(h, N)
         /\ \A x \in Content(h, N) : \E p \in 0..N - 1 : x = At(h, p)
         /\ \A p, q \in 0..N - 1 : At(h, p) = At(h, q) => p = q
<1>1. \A p \in 0..N - 1 : At(h, p) \in Items /\ At(h, p) \in Content(h, N)
  BY DEF Slice, At, Content
<1>2. ASSUME NEW x \in Content(h, N) PROVE \E p \in 0..N - 1 : x = At(h, p)
  <2>1. PICK p \in 1..N : x = h.slots[p]
    BY <1>2 DEF Content
  <2>2. p - 1 \in 0..N - 1 /\ (p - 1) + 1 = p
    OBVIOUS
  <2> QED BY <2>1, <2>2 DEF At
<1>3. \A p, q \in 0..N - 1 : At(h, p) = At(h, q) => p = q
  BY DEF Slice
<1> QED BY <1>1, <1>2, <1>3

\* Swap exchanges two items and keeps a slice a slice of the same items.
LEMMA SwapFacts ==
  ASSUME NEW N \in Nat, NEW h, Slice(h, N), NEW i \in 0..N - 1, NEW j \in 0..N - 1
  PROVE  /\ Slice(Swap(h, i, j), N) /\ Content(Swap(h, i, j), N) = Content(h, N)
         /\ At(Swap(h, i, j), i) = At(h, j) /\ At(Swap(h, i, j), j) = At(h, i)
         /\ \A p \in 0..N - 1 : p # i /\ p # j => At(Swap(h, i, j), p) = At(h, p)
<1> DEFINE g == Swap(h, i, j)
           x == At(h, i)
           y == At(h, j)
<1>1. /\ i \in Nat /\ j \in Nat /\ i + 1 \in 1..N /\ j + 1 \in 1..N
      /\ h \in [slots : [1..N -> Items], index : [Items -> Int]]
      /\ h.slots \in [1..N -> Items] /\ h.index \in [Items -> Int]
      /\ x = h.slots[i + 1] /\ y = h.slots[j + 1]
  BY DEF Slice, At
<1>2. x \in Items /\ y \in Items
  BY <1>1
<1>3. /\ g.slots = [h.slots EXCEPT ![i + 1] = y, ![j + 1] = x]
      /\ g.index = [h.index EXCEPT ![y] = i, ![x] = j]
      /\ g = [slots |-> g.slots, index |-> g.index]
  BY DEF Swap
<1> HIDE DEF g, x, y
<1>4. /\ g.slots \in [1..N -> Items] /\ g.index \in [Items -> Int]
      /\ g.slots[i + 1] = y /\ g.slots[j + 1] = x
      /\ \A p \in 1..N : p # i + 1 /\ p # j + 1 => g.slots[p] = h.slots[p]
  <2> DEFINE a == i + 1
             b == j + 1
             s == h.slots
  <2>1. a \in 1..N /\ b \in 1..N /\ s \in [1..N -> Items] /\ (a = b => x = y)
    BY <1>1
  <2>2. g.slots = [s EXCEPT ![a] = y, ![b] = x]
    BY <1>3
  <2> HIDE DEF a, b, s
  <2>3. /\ g.slots \in [1..N -> Items] /\ g.slots[a] = y /\ g.slots[b] = x
        /\ \A p \in 1..N : p # a /\ p # b => g.slots[p] = s[p]
    BY <1>2, <2>1, <2>2
  <2>4. i \in Int /\ j \in Int /\ h.index \in [Items -> Int]
    BY <1>1
  <2>5. g.index \in [Items -> Int]
    BY <1>2, <1>3, <2>4
  <2> QED BY <2>3, <2>5 DEF a, b, s
<1>5. /\ At(g, i) = y /\ At(g, j) = x
      /\ \A p \in 0..N - 1 : p # i /\ p # j => At(g, p) = At(h, p)
  <2>1. At(g, i) = y /\ At(g, j) = x
    BY <1>4 DEF At
  <2>2. ASSUME NEW p \in 0..N - 1, p # i, p # j PROVE At(g, p) = At(h, p)
    <3>1. p + 1 \in 1..N /\ p + 1 # i + 1 /\ p + 1 # j + 1
      BY <1>1, <2>2
    <3> QED BY <1>4, <3>1 DEF At
  <2> QED BY <2>1, <2>2
<1>6. Slice(g, N)
  <2>1. ASSUME NEW p \in 0..N - 1 PROVE g.index[At(g, p)] = p
    <3>1. CASE p = j
      BY <1>1, <1>2, <1>3, <1>5, <3>1
    <3>2. CASE p = i /\ p # j
      <4>1. x # y
        BY <3>2, ContentByPlace DEF x, y
      <4> QED BY <1>1, <1>2, <1>3, <1>5, <3>2, <4>1
    <3>3. CASE p # i /\ p # j
      <4>1. At(g, p) = At(h, p) /\ At(h, p) \in Items /\ At(h, p) # x /\ At(h, p) # y
        BY <1>5, <3>3, ContentByPlace DEF x, y
      <4>2. h.index[At(h, p)] = p
        BY DEF Slice
      <4> QED BY <1>1, <1>2, <1>3, <4>1, <4>2
    <3> QED BY <3>1, <3>2, <3>3
  <2> QED BY <1>3, <1>4, <2>1 DEF Slice
<1>7. Content(g, N) = Content(h, N)
  <2>1. ASSUME NEW p \in 1..N PROVE g.slots[p] \in Content(h, N)
    BY <1>1, <1>4 DEF Content
  <2>2. ASSUME NEW p \in 1..N PROVE h.slots[p] \in Content(g, N)
    <3>1. CASE p = i + 1
      BY <1>1, <1>4, <3>1 DEF Content
    <3>2. CASE p = j + 1
      BY <1>1, <1>4, <3>2 DEF Content
    <3>3. CASE p # i + 1 /\ p # j + 1
      BY <1>4, <3>3 DEF Content
    <3> QED BY <3>1, <3>2, <3>3
  <2> QED BY <2>1, <2>2 DEF Content
<1> QED BY <1>5, <1>6, <1>7 DEF g, x, y

-----------------------------------------------------------------------------
(* The loop of up.                                                         *)

\* The first n places are in heap order.
Ordered(h, n) == \A p \in 1..n - 1 : ~ LessAt(h, p, Parent(p))

\* They are but for the item at place j, which may have to rise: what is below
\* it is in order with its parent already.
RisesAt(h, n, j) ==
  /\ \A p \in 1..n - 1 : p # j => ~ LessAt(h, p, Parent(p))
  /\ \A p \in 1..n - 1 : Parent(p) = j /\ j # 0 => ~ LessAt(h, p, Parent(j))

\* A parent precedes its children, which are the next two places of its double.
LEMMA ParentFacts ==
  /\ \A p \in Nat \ {0} : /\ Parent(p) \in Nat /\ Parent(p) < p
                          /\ p = 2 * Parent(p) + 1 \/ p = 2 * Parent(p) + 2
  /\ \A i \in Nat : Parent(2 * i + 1) = i /\ Parent(2 * i + 2) = i
BY DEF Parent

\* What the loop of up works on: a slice of the same items, of which those from
\* place n on are left alone, with one item that may have to rise.
Rising(h, N, n) ==
  {s \in [heap : [slots : [1..N -> Items], index : [Items -> Int]], place : 0..n - 1] :
     /\ Slice(s.heap, N) /\ Content(s.heap, N) = Content(h, N)
     /\ \A p \in n..N - 1 : At(s.heap, p) = At(h, p)
     /\ RisesAt(s.heap, n, s.place)}

\* An item that rises leaves what it passes in order.
LEMMA RiseKeeps ==
  ASSUME NEW N \in Nat, NEW n \in 0..N, NEW h, Slice(h, N), NEW j \in 1..n - 1,
         RisesAt(h, n, j), LessAt(h, j, Parent(j))
  PROVE  RisesAt(Swap(h, Parent(j), j), n, Parent(j))
<1> DEFINE i == Parent(j)
           g == Swap(h, i, j)
<1>1. /\ i \in 0..N - 1 /\ j \in 0..N - 1 /\ i # j /\ i < j /\ i \in 0..n - 1
      /\ n \in Nat /\ j # 0
  BY ParentFacts
<1>2. \A p \in 1..n - 1 : p \in 0..N - 1 /\ Parent(p) \in 0..N - 1 /\ Parent(p) < p
  BY ParentFacts
<1>3. /\ At(g, i) = At(h, j) /\ At(g, j) = At(h, i)
      /\ \A p \in 0..N - 1 : p # i /\ p # j => At(g, p) = At(h, p)
  BY <1>1, SwapFacts
<1>4. \A p \in 0..N - 1 : At(h, p) \in Items
  BY ContentByPlace
<1>5. \A p \in 1..n - 1 : p # j => ~ Q!Less(At(h, p), At(h, Parent(p)))
  BY DEF RisesAt, LessAt
<1>6. \A p \in 1..n - 1 : Parent(p) = j => ~ Q!Less(At(h, p), At(h, i))
  BY <1>1 DEF RisesAt, LessAt
<1>7. Q!Less(At(h, j), At(h, i)) /\ ~ Q!Less(At(h, i), At(h, j))
  BY <1>1, <1>4, LessIsWeakOrder DEF LessAt
<1>8. i # 0 => i \in 1..n - 1 /\ Parent(i) \in 0..N - 1 /\ Parent(i) < i
  BY <1>1, ParentFacts
<1> HIDE DEF g
<1>9. ASSUME NEW p \in 1..n - 1, Parent(p) = i
      PROVE  p = j \/ (~ Q!Less(At(h, p), At(h, i)) /\ ~ Q!Less(At(h, p), At(h, j)))
  BY <1>1, <1>2, <1>4, <1>5, <1>7, <1>9, LessIsWeakOrder
<1>10. ASSUME NEW p \in 1..n - 1, p # i PROVE ~ Q!Less(At(g, p), At(g, Parent(p)))
  <2>1. CASE p = j
    BY <1>3, <1>7, <2>1
  <2>2. CASE p # j /\ Parent(p) = i
    BY <1>2, <1>3, <1>9, <1>10, <2>2
  <2>3. CASE p # j /\ Parent(p) = j
    BY <1>2, <1>3, <1>6, <1>10, <2>3
  <2>4. CASE p # j /\ Parent(p) # i /\ Parent(p) # j
    BY <1>2, <1>3, <1>5, <1>10, <2>4
  <2> QED BY <2>1, <2>2, <2>3, <2>4
<1>11. ASSUME NEW p \in 1..n - 1, Parent(p) = i, i # 0
       PROVE  ~ Q!Less(At(g, p), At(g, Parent(i)))
  <2>1. At(g, Parent(i)) = At(h, Parent(i)) /\ ~ Q!Less(At(h, i), At(h, Parent(i)))
    BY <1>1, <1>3, <1>5, <1>8, <1>11
  <2>2. CASE p = j
    BY <1>3, <2>1, <2>2
  <2>3. CASE p # j
    <3>1. At(g, p) = At(h, p) /\ ~ Q!Less(At(h, p), At(h, i))
      BY <1>2, <1>3, <1>9, <1>11, <2>3
    <3> QED BY <1>1, <1>2, <1>4, <1>8, <1>11, <2>1, <3>1, LessIsWeakOrder
  <2> QED BY <2>2, <2>3
<1> QED BY <1>10, <1>11 DEF RisesAt, LessAt, g

\* A turn of the loop.
LEMMA UpTurnKeeps ==
  ASSUME NEW N \in Nat, NEW n \in 0..N, NEW h, NEW s \in Rising(h, N, n)
  PROVE  /\ UpTurn(s) \in Rising(h, N, n)
         /\ UpTurn(s) = s \/ UpTurn(s).place < s.place
         /\ UpTurn(s) = s => Ordered(s.heap, n)
<1> DEFINE j == s.place
           k == s.heap
           i == Parent(j)
           g == Swap(k, i, j)
<1>1. /\ Slice(k, N) /\ Content(k, N) = Content(h, N)
      /\ \A p \in n..N - 1 : At(k, p) = At(h, p)
      /\ RisesAt(k, n, j) /\ j \in 0..n - 1
  BY DEF Rising
<1>2. UpTurn(s) = IF j = 0 \/ ~ LessAt(k, j, i) THEN s ELSE [heap |-> g, place |-> i]
  BY DEF UpTurn
<1> HIDE DEF j, k
<1>3. CASE j = 0 \/ ~ LessAt(k, j, i)
  <2>1. UpTurn(s) = s
    BY <1>2, <1>3
  <2>2. Ordered(k, n)
    BY <1>1, <1>3 DEF RisesAt, Ordered
  <2> QED BY <2>1, <2>2 DEF k
<1>4. CASE ~ (j = 0 \/ ~ LessAt(k, j, i))
  <2> DEFINE u == [heap |-> g, place |-> i]
  <2>1. UpTurn(s) = u
    BY <1>2, <1>4
  <2>2. j \in 1..n - 1 /\ j \in 0..N - 1 /\ j \in Nat \ {0} /\ n \in Nat
    BY <1>1, <1>4
  <2>3. i \in Nat /\ i < j
    BY <2>2, ParentFacts
  <2>4. i \in 0..n - 1 /\ i \in 0..N - 1
    <3> HIDE DEF i
    <3> QED BY <2>2, <2>3
  <2>5. RisesAt(g, n, i)
    BY <1>1, <1>4, <2>2, RiseKeeps
  <2> HIDE DEF i
  <2>6. /\ Slice(g, N) /\ Content(g, N) = Content(h, N)
        /\ \A p \in 0..N - 1 : p # i /\ p # j => At(g, p) = At(k, p)
    BY <1>1, <2>2, <2>4, SwapFacts
  <2> HIDE DEF g
  <2>7. \A p \in n..N - 1 : At(g, p) = At(h, p)
    BY <1>1, <2>2, <2>3, <2>6
  <2>8. g \in [slots : [1..N -> Items], index : [Items -> Int]]
    BY <2>6 DEF Slice
  <2>9. u \in Rising(h, N, n) /\ u.place < j
    BY <2>3, <2>4, <2>5, <2>6, <2>7, <2>8 DEF Rising
  <2>10. u # s
    BY <2>2, <2>9 DEF j
  <2> HIDE DEF u
  <2> QED BY <2>1, <2>9, <2>10 DEF j
<1> QED BY <1>3, <1>4

\* The loop of up: the item at place j rises until the first n places are in
\* order.
LEMMA UpFacts ==
  ASSUME NEW N \in Nat, NEW n \in 0..N, NEW h, Slice(h, N), NEW j \in 0..n - 1, RisesAt(h, n, j)
  PROVE  /\ Slice(Up(h, j), N) /\ Content(Up(h, j), N) = Content(h, N)
         /\ Ordered(Up(h, j), n) /\ \A p \in n..N - 1 : At(Up(h, j), p) = At(h, p)
<1> DEFINE D == Rising(h, N, n)
           a == [heap |-> h, place |-> j]
           Turns(f) == [t \in 0..j |-> IF t = 0 THEN a ELSE UpTurn(f[t - 1])]
           f == CHOOSE g : g = Turns(g)
<1>1. j \in Nat
  OBVIOUS
<1>2. a \in D /\ a.place = j
  BY DEF Rising, Slice
<1>3. Up(h, j) = f[j].heap
  BY DEF Up
<1> HIDE DEF D, a
<1>4. \A s \in D : /\ UpTurn(s) \in D
                   /\ UpTurn(s) = s \/ UpTurn(s).place < s.place
                   /\ UpTurn(s) = s => Ordered(s.heap, n)
  BY UpTurnKeeps DEF D
<1>5. \E g : g = Turns(g)
  <2> DEFINE next == [t \in 1..j |-> [s \in D |-> UpTurn(s)]]
  <2>1. next \in Steps(j, D)
    BY <1>4 DEF Steps
  <2>2. \A t \in 1..j, s \in D : next[t][s] = UpTurn(s)
    OBVIOUS
  <2> HIDE DEF next
  <2>3. PICK g : Solves(g, j, D, a, next)
    BY <1>1, <1>2, <2>1, RecursionExists
  <2>4. ASSUME NEW t \in 0..j PROVE g[t] = IF t = 0 THEN a ELSE UpTurn(g[t - 1])
    BY <1>1, <2>2, <2>3 DEF Solves
  <2>5. g = Turns(g)
    BY <2>3, <2>4 DEF Solves
  <2> HIDE DEF Turns
  <2> QED BY <2>5
<1>6. f = Turns(f)
  <2> HIDE DEF Turns
  <2> QED BY <1>5
<1>7. f[0] = a /\ \A t \in 1..j : f[t] = UpTurn(f[t - 1])
  <2> HIDE DEF f
  <2> QED BY <1>1, <1>6
<1> HIDE DEF f, Turns
<1>8. \A t \in 0..j : f[t] \in D
  <2> DEFINE S == {t \in 0..j : f[t] \in D}
  <2>1. 0 \in S
    BY <1>1, <1>2, <1>7
  <2>2. \A t \in 1..j : t - 1 \in S => t \in S
    BY <1>1, <1>4, <1>7
  <2> HIDE DEF S
  <2>3. 0..j \subseteq S
    BY <1>1, <2>1, <2>2, UpTo
  <2> QED BY <2>3 DEF S
<1>9. \A s \in D : s.place \in 0..n - 1 /\ s.place \in Nat
  BY DEF D, Rising
<1>10. \A t \in 0..j : Ordered(f[t].heap, n) \/ f[t].place <= j - t
  <2> DEFINE Stopped(t) == UpTurn(f[t]) = f[t]
             S == {t \in 0..j : (Ordered(f[t].heap, n) /\ Stopped(t)) \/ f[t].place <= j - t}
  <2>1. 0 \in S
    BY <1>1, <1>2, <1>7
  <2>2. ASSUME NEW t \in 1..j, t - 1 \in S PROVE t \in S
    <3>1. t \in Nat /\ t - 1 \in 0..j /\ f[t] = UpTurn(f[t - 1]) /\ f[t - 1] \in D /\ f[t] \in D
      BY <1>1, <1>7, <1>8
    <3>2. CASE UpTurn(f[t - 1]) = f[t - 1]
      BY <1>4, <3>1, <3>2
    <3>3. CASE UpTurn(f[t - 1]) # f[t - 1]
      <4>1. f[t - 1].place <= j - (t - 1) /\ f[t].place < f[t - 1].place
        BY <1>4, <2>2, <3>1, <3>3
      <4> QED BY <1>1, <1>9, <3>1, <4>1
    <3> QED BY <3>2, <3>3
  <2>3. 0..j \subseteq S
    <3> HIDE DEF S
    <3> QED BY <1>1, <2>1, <2>2, UpTo
  <2> QED BY <2>3
<1>11. Ordered(f[j].heap, n)
  <2>1. f[j] \in D /\ j \in 0..j
    BY <1>1, <1>8
  <2>2. CASE f[j].place = 0
    <3>1. UpTurn(f[j]) = f[j]
      BY <2>2 DEF UpTurn
    <3> QED BY <1>4, <2>1, <3>1
  <2>3. CASE f[j].place # 0
    BY <1>1, <1>9, <1>10, <2>1, <2>3
  <2> QED BY <2>2, <2>3
<1> QED BY <1>1, <1>3, <1>8, <1>11 DEF D, Rising

-----------------------------------------------------------------------------
(* The loop of down.                                                       *)

\* The first n places are in heap order but for the item now at place j, which
\* has come down from place i and may have to go further; if it has not moved
\* yet it may be out of order with its parent as well.
SinksAt(h, n, i, j) ==
  /\ \A p \in 1..n - 1 : p # j /\ Parent(p) # j => ~ LessAt(h, p, Parent(p))
  /\ \A p \in 1..n - 1 : Parent(p) = j /\ j # 0 => ~ LessAt(h, p, Parent(j))
  /\ j # i => ~ LessAt(h, j, Parent(j))

\* It has gone far enough.
Settled(h, n, j) == \A p \in 1..n - 1 : Parent(p) = j => ~ LessAt(h, p, j)

\* What the loop of down works on: until the item moves, the heap is as it was.
Sinking(h, N, n, i) ==
  {s \in [heap : [slots : [1..N -> Items], index : [Items -> Int]], place : i..N - 1] :
     /\ Slice(s.heap, N) /\ Content(s.heap, N) = Content(h, N)
     /\ \A p \in n..N - 1 : At(s.heap, p) = At(h, p)
     /\ SinksAt(s.heap, n, i, s.place) /\ (s.place = i => s.heap = h)}

\* An item that changes places with its better child leaves what it passes in
\* order.
LEMMA SinkKeeps ==
  ASSUME NEW N \in Nat, NEW n \in 0..N, NEW h, Slice(h, N), NEW i \in Nat, NEW j \in 0..n - 1,
         SinksAt(h, n, i, j), NEW c \in 1..n - 1, Parent(c) = j, LessAt(h, c, j),
         \A p \in 1..n - 1 : Parent(p) = j => ~ LessAt(h, p, c)
  PROVE  SinksAt(Swap(h, j, c), n, i, c)
<1> DEFINE g == Swap(h, j, c)
<1>1. j \in 0..N - 1 /\ c \in 0..N - 1 /\ j # c /\ j < c /\ n \in Nat /\ c # 0 /\ j \in Nat
  BY ParentFacts
<1>2. \A p \in 1..n - 1 : p \in 0..N - 1 /\ Parent(p) \in 0..N - 1 /\ Parent(p) < p
  BY ParentFacts
<1>3. /\ At(g, j) = At(h, c) /\ At(g, c) = At(h, j)
      /\ \A p \in 0..N - 1 : p # j /\ p # c => At(g, p) = At(h, p)
  BY <1>1, SwapFacts
<1>4. \A p \in 0..N - 1 : At(h, p) \in Items
  BY ContentByPlace
<1>5. \A p \in 1..n - 1 : p # j /\ Parent(p) # j => ~ Q!Less(At(h, p), At(h, Parent(p)))
  BY DEF SinksAt, LessAt
<1>6. j # 0 => ~ Q!Less(At(h, c), At(h, Parent(j)))
  BY DEF SinksAt, LessAt
<1>7. ~ Q!Less(At(h, j), At(h, c))
  BY <1>1, <1>4, LessIsWeakOrder DEF LessAt
<1>8. \A p \in 1..n - 1 : Parent(p) = j => ~ Q!Less(At(h, p), At(h, c))
  BY DEF LessAt
<1> HIDE DEF g
<1>9. ASSUME NEW p \in 1..n - 1, p # c, Parent(p) # c
      PROVE  ~ Q!Less(At(g, p), At(g, Parent(p)))
  <2>1. CASE p = j
    BY <1>1, <1>2, <1>3, <1>6, <1>9, <2>1
  <2>2. CASE p # j /\ Parent(p) = j
    BY <1>2, <1>3, <1>8, <1>9, <2>2
  <2>3. CASE p # j /\ Parent(p) # j
    BY <1>2, <1>3, <1>5, <1>9, <2>3
  <2> QED BY <2>1, <2>2, <2>3
<1>10. ASSUME NEW p \in 1..n - 1, Parent(p) = c PROVE ~ Q!Less(At(g, p), At(g, j))
  <2>1. p \in 0..N - 1 /\ p # j /\ p # c
    BY <1>1, <1>2, <1>10
  <2> QED BY <1>1, <1>3, <1>5, <1>10, <2>1
<1>11. ~ Q!Less(At(g, c), At(g, j))
  BY <1>3, <1>7
<1> QED BY <1>9, <1>10, <1>11 DEF SinksAt, LessAt, g

\* A turn of the loop.
LEMMA DownTurnKeeps ==
  ASSUME NEW N \in Nat, NEW n \in 0..N, NEW h, NEW i \in Nat, NEW s \in Sinking(h, N, n, i)
  PROVE  /\ DownTurn(s, n) \in Sinking(h, N, n, i)
         /\ DownTurn(s, n) = s \/ DownTurn(s, n).place > s.place
         /\ DownTurn(s, n) = s => Settled(s.heap, n, s.place)
         /\ s.place >= n => DownTurn(s, n) = s
<1> DEFINE j == s.place
           k == s.heap
           l == 2 * j + 1
           c == IF l + 1 < n /\ LessAt(k, l + 1, l) THEN l + 1 ELSE l
           g == Swap(k, j, c)
<1>1. /\ Slice(k, N) /\ Content(k, N) = Content(h, N)
      /\ \A p \in n..N - 1 : At(k, p) = At(h, p)
      /\ SinksAt(k, n, i, j) /\ j \in i..N - 1
  BY DEF Sinking
<1>2. DownTurn(s, n) = IF l >= n \/ ~ LessAt(k, c, j) THEN s ELSE [heap |-> g, place |-> c]
  BY DEF DownTurn
<1> HIDE DEF j, k
<1>3. j \in Nat /\ j \in 0..N - 1 /\ n \in Nat /\ i <= j /\ l \in Nat /\ l > j
  BY <1>1
<1>4. \A p \in 1..n - 1 : Parent(p) = j => p = l \/ p = l + 1
  BY ParentFacts
<1>5. Parent(l) = j /\ Parent(l + 1) = j
  <2>1. \A x \in Nat : Parent(2 * x + 1) = x /\ Parent(2 * x + 1 + 1) = x
    BY ParentFacts
  <2> QED BY <1>3, <2>1
<1>6. c \in Nat /\ c > j /\ Parent(c) = j /\ (l < n => c < n) /\ (l >= n => c = l)
  <2> HIDE DEF l
  <2> QED BY <1>3, <1>5
<1>7. l < n => \A p \in 1..n - 1 : Parent(p) = j => ~ LessAt(k, p, c)
  <2> SUFFICES ASSUME l < n, NEW p \in 1..n - 1, Parent(p) = j PROVE ~ LessAt(k, p, c)
    OBVIOUS
  <2>1. p = l \/ p = l + 1
    BY <1>4
  <2> HIDE DEF l
  <2>2. l \in 0..N - 1 /\ At(k, l) \in Items
    BY <1>1, <1>3, ContentByPlace
  <2>3. l + 1 < n => At(k, l + 1) \in Items
    <3>1. l + 1 < n => l + 1 \in 0..N - 1
      BY <1>3
    <3> QED BY <1>1, <3>1, ContentByPlace
  <2> QED BY <1>3, <2>1, <2>2, <2>3, LessIsWeakOrder DEF LessAt
<1>8. j >= n => l >= n
  BY <1>3
<1> HIDE DEF l, c
<1>9. CASE l >= n \/ ~ LessAt(k, c, j)
  <2>1. DownTurn(s, n) = s
    BY <1>2, <1>9
  <2>2. ASSUME NEW p \in 1..n - 1, Parent(p) = j PROVE ~ LessAt(k, p, j)
    <3>1. l < n
      BY <1>3, <1>4, <2>2
    <3>2. p \in 0..N - 1 /\ c \in 0..N - 1
      BY <1>3, <1>6, <3>1
    <3>3. At(k, p) \in Items /\ At(k, c) \in Items /\ At(k, j) \in Items
      BY <1>1, <1>3, <3>2, ContentByPlace
    <3>4. ~ LessAt(k, p, c) /\ ~ LessAt(k, c, j)
      BY <1>3, <1>7, <1>9, <2>2, <3>1
    <3> QED BY <3>3, <3>4, LessIsWeakOrder DEF LessAt
  <2> QED BY <2>1, <2>2 DEF Settled, j, k
<1>10. CASE ~ (l >= n \/ ~ LessAt(k, c, j))
  <2> DEFINE u == [heap |-> g, place |-> c]
  <2>1. DownTurn(s, n) = u
    BY <1>2, <1>10
  <2>2. /\ c \in 1..n - 1 /\ c \in 0..N - 1 /\ j \in 0..n - 1 /\ l < n
        /\ c \in i..N - 1 /\ c # i /\ c > j
    BY <1>3, <1>6, <1>10
  <2>3. SinksAt(g, n, i, c)
    BY <1>1, <1>6, <1>7, <1>10, <2>2, SinkKeeps
  <2>4. /\ Slice(g, N) /\ Content(g, N) = Content(h, N)
        /\ \A p \in 0..N - 1 : p # j /\ p # c => At(g, p) = At(k, p)
    BY <1>1, <1>3, <2>2, SwapFacts
  <2> HIDE DEF g
  <2>5. \A p \in n..N - 1 : At(g, p) = At(h, p)
    BY <1>1, <1>3, <2>2, <2>4
  <2>6. g \in [slots : [1..N -> Items], index : [Items -> Int]]
    BY <2>4 DEF Slice
  <2>7. u \in Sinking(h, N, n, i) /\ u.place > j
    BY <2>2, <2>3, <2>4, <2>5, <2>6 DEF Sinking
  <2>8. u # s
    BY <1>3, <2>7 DEF j
  <2>9. ~ (j >= n)
    BY <1>3, <2>2
  <2> HIDE DEF u
  <2> QED BY <2>1, <2>7, <2>8, <2>9 DEF j
<1> QED BY <1>9, <1>10

\* In a heap in order any item may be taken for one that rises.
LEMMA OrderedRises ==
  ASSUME NEW N \in Nat, NEW n \in 0..N, NEW h, Slice(h, N), NEW j \in 0..n - 1, Ordered(h, n)
  PROVE  \A p \in 1..n - 1 : Parent(p) = j /\ j # 0 => ~ LessAt(h, p, Parent(j))
<1> SUFFICES ASSUME NEW p \in 1..n - 1, Parent(p) = j, j # 0 PROVE ~ LessAt(h, p, Parent(j))
  OBVIOUS
<1>1. p \in 0..N - 1 /\ j \in 0..N - 1 /\ j \in 1..n - 1 /\ Parent(j) \in 0..N - 1
  BY ParentFacts
<1>2. At(h, p) \in Items /\ At(h, j) \in Items /\ At(h, Parent(j)) \in Items
  BY <1>1, ContentByPlace
<1>3. ~ LessAt(h, p, j) /\ ~ LessAt(h, j, Parent(j))
  BY <1>1 DEF Ordered
<1> QED BY <1>2, <1>3, LessIsWeakOrder DEF LessAt

\* The loop of down: the first n places are in order once the item has moved or
\* if it was the root, and if nothing has changed the item may have to rise.
LEMMA DownFacts ==
  ASSUME NEW N \in Nat, NEW n \in 0..N, NEW h, Slice(h, N), NEW i \in 0..N - 1,
         SinksAt(h, n, i, i)
  PROVE  /\ Slice(Down(h, i, n), N) /\ Content(Down(h, i, n), N) = Content(h, N)
         /\ \A p \in n..N - 1 : At(Down(h, i, n), p) = At(h, p)
         /\ Down(h, i, n) # h \/ i = 0 => Ordered(Down(h, i, n), n)
         /\ Down(h, i, n) = h /\ i < n => RisesAt(h, n, i)
<1> DEFINE D == Sinking(h, N, n, i)
           a == [heap |-> h, place |-> i]
           Turns(f) == [t \in 0..n |-> IF t = 0 THEN a ELSE DownTurn(f[t - 1], n)]
           f == CHOOSE g : g = Turns(g)
<1>1. i \in Nat /\ n \in Nat
  OBVIOUS
<1>2. a \in D /\ a.place = i
  BY DEF Sinking, Slice
<1>3. Down(h, i, n) = f[n].heap
  BY DEF Down
<1> HIDE DEF D, a
<1>4. \A s \in D : /\ DownTurn(s, n) \in D
                   /\ DownTurn(s, n) = s \/ DownTurn(s, n).place > s.place
                   /\ DownTurn(s, n) = s => Settled(s.heap, n, s.place)
                   /\ s.place >= n => DownTurn(s, n) = s
  BY <1>1, DownTurnKeeps DEF D
<1>5. \E g : g = Turns(g)
  <2> DEFINE next == [t \in 1..n |-> [s \in D |-> DownTurn(s, n)]]
  <2>1. next \in Steps(n, D)
    BY <1>4 DEF Steps
  <2>2. \A t \in 1..n, s \in D : next[t][s] = DownTurn(s, n)
    OBVIOUS
  <2> HIDE DEF next
  <2>3. PICK g : Solves(g, n, D, a, next)
    BY <1>1, <1>2, <2>1, RecursionExists
  <2>4. ASSUME NEW t \in 0..n PROVE g[t] = IF t = 0 THEN a ELSE DownTurn(g[t - 1], n)
    BY <1>1, <2>2, <2>3 DEF Solves
  <2>5. g = Turns(g)
    BY <2>3, <2>4 DEF Solves
  <2> HIDE DEF Turns
  <2> QED BY <2>5
<1>6. f = Turns(f)
  <2> HIDE DEF Turns
  <2> QED BY <1>5
<1>7. f[0] = a /\ \A t \in 1..n : f[t] = DownTurn(f[t - 1], n)
  <2> HIDE DEF f
  <2> QED BY <1>1, <1>6
<1> HIDE DEF f, Turns
<1>8. \A t \in 0..n : f[t] \in D
  <2> DEFINE S == {t \in 0..n : f[t] \in D}
  <2>1. 0 \in S
    BY <1>1, <1>2, <1>7
  <2>2. \A t \in 1..n : t - 1 \in S => t \in S
    BY <1>1, <1>4, <1>7
  <2> HIDE DEF S
  <2>3. 0..n \subseteq S
    BY <1>1, <2>1, <2>2, UpTo
  <2> QED BY <2>3 DEF S
<1>9. \A s \in D : s.place \in i..N - 1 /\ s.place \in Nat
  BY DEF D, Sinking
<1>10. \A t \in 0..n : DownTurn(f[t], n) = f[t] \/ f[t].place >= t
  <2> DEFINE S == {t \in 0..n : DownTurn(f[t], n) = f[t] \/ f[t].place >= t}
  <2>1. 0 \in S
    BY <1>1, <1>2, <1>7
  <2>2. ASSUME NEW t \in 1..n, t - 1 \in S PROVE t \in S
    <3>1. /\ t \in Nat /\ t - 1 \in 0..n /\ f[t] = DownTurn(f[t - 1], n)
          /\ f[t - 1] \in D /\ f[t] \in D
      BY <1>1, <1>7, <1>8
    <3>2. CASE DownTurn(f[t - 1], n) = f[t - 1]
      BY <3>1, <3>2
    <3>3. CASE DownTurn(f[t - 1], n) # f[t - 1]
      <4>1. f[t - 1].place >= t - 1 /\ f[t].place > f[t - 1].place
        BY <1>4, <2>2, <3>1, <3>3
      <4> QED BY <1>1, <1>9, <3>1, <4>1
    <3> QED BY <3>2, <3>3
  <2>3. 0..n \subseteq S
    <3> HIDE DEF S
    <3> QED BY <1>1, <2>1, <2>2, UpTo
  <2> QED BY <2>3
<1> DEFINE k == f[n].heap
           j == f[n].place
<1>11. f[n] \in D /\ Settled(k, n, j)
  <2>1. f[n] \in D /\ n \in 0..n
    BY <1>1, <1>8
  <2> QED BY <1>1, <1>4, <1>10, <2>1
<1>12. /\ Slice(k, N) /\ Content(k, N) = Content(h, N)
       /\ \A p \in n..N - 1 : At(k, p) = At(h, p)
       /\ SinksAt(k, n, i, j) /\ (j = i => k = h) /\ j \in Nat
  BY <1>9, <1>11 DEF D, Sinking
<1> HIDE DEF k, j
<1>13. j # i \/ i = 0 => Ordered(k, n)
  <2> SUFFICES ASSUME j # i \/ i = 0, NEW p \in 1..n - 1 PROVE ~ LessAt(k, p, Parent(p))
    BY DEF Ordered
  <2>1. CASE p = j
    BY <1>1, <1>12, <2>1 DEF SinksAt
  <2>2. CASE Parent(p) = j
    BY <1>11, <2>2 DEF Settled
  <2>3. CASE p # j /\ Parent(p) # j
    BY <1>12, <2>3 DEF SinksAt
  <2> QED BY <2>1, <2>2, <2>3
<1>14. ASSUME k = h, i < n PROVE RisesAt(h, n, i)
  <2>1. i \in 0..n - 1
    BY <1>1, <1>14
  <2>2. CASE j = i
    <3>1. ASSUME NEW p \in 1..n - 1, p # i PROVE ~ LessAt(h, p, Parent(p))
      <4>1. CASE Parent(p) = i
        BY <1>11, <1>14, <2>2, <4>1 DEF Settled
      <4>2. CASE Parent(p) # i
        BY <3>1, <4>2 DEF SinksAt
      <4> QED BY <4>1, <4>2
    <3> QED BY <3>1 DEF RisesAt, SinksAt
  <2>3. CASE j # i
    <3>1. Ordered(h, n)
      BY <1>13, <1>14, <2>3
    <3> QED BY <2>1, <3>1, OrderedRises DEF RisesAt, Ordered
  <2> QED BY <2>2, <2>3
<1> QED BY <1>3, <1>12, <1>13, <1>14 DEF k

-----------------------------------------------------------------------------
(* The operations of container/heap.                                       *)

\* A heap of N items.
IsHeap(h, N) == Slice(h, N) /\ Ordered(h, N)

\* The slots of a slice are a sequence.
LEMMA SliceIsSeq ==
  ASSUME NEW N \in Nat, NEW h, Slice(h, N)
  PROVE  h.slots \in Seq(Items) /\ Len(h.slots) = N /\ Size(h) = N
<1>1. h.slots \in [1..N -> Items]
  BY DEF Slice
<1>2. h.slots \in Seq(Items) /\ Len(h.slots) = N
  BY <1>1
<1> QED BY <1>2 DEF Size

\* The root of a heap is not preceded by any of its items.
LEMMA RootIsLeast ==
  ASSUME NEW N \in Nat, NEW h, IsHeap(h, N)
  PROVE  \A p \in 0..N - 1 : ~ LessAt(h, p, 0)
<1> SUFFICES ASSUME N # 0 PROVE \A p \in 0..N - 1 : ~ LessAt(h, p, 0)
  OBVIOUS
<1> DEFINE S == {m \in 0..N - 1 : \A p \in 0..m : ~ LessAt(h, p, 0)}
<1>1. \A p \in 0..N - 1 : At(h, p) \in Items
  BY ContentByPlace DEF IsHeap
<1>2. 0 \in S
  BY <1>1, LessIsWeakOrder DEF LessAt
<1>3. ASSUME NEW m \in 1..N - 1, m - 1 \in S PROVE m \in S
  <2>1. m \in Nat /\ m \in 0..N - 1 /\ \A p \in 0..m - 1 : ~ LessAt(h, p, 0)
    BY <1>3
  <2>2. Parent(m) \in 0..m - 1 /\ Parent(m) \in 0..N - 1
    BY ParentFacts
  <2>3. ~ LessAt(h, m, Parent(m)) /\ ~ LessAt(h, Parent(m), 0)
    BY <2>1, <2>2 DEF IsHeap, Ordered
  <2>4. At(h, m) \in Items /\ At(h, Parent(m)) \in Items /\ At(h, 0) \in Items
    BY <1>1, <2>1, <2>2
  <2>5. ~ LessAt(h, m, 0)
    BY <2>3, <2>4, LessIsWeakOrder DEF LessAt
  <2>6. \A p \in 0..m : p = m \/ p \in 0..m - 1
    BY <2>1
  <2> QED BY <2>1, <2>5, <2>6
<1>4. 0..N - 1 \subseteq S
  <2>1. N - 1 \in Nat
    OBVIOUS
  <2> HIDE DEF S
  <2> QED BY <1>2, <1>3, <2>1, UpTo
<1> QED BY <1>4

\* Push at the end of the slice.
LEMMA PushBackFacts ==
  ASSUME NEW N \in Nat, NEW h, Slice(h, N), NEW x \in Items, x \notin Content(h, N)
  PROVE  /\ Slice(PushBack(h, x), N + 1)
         /\ Content(PushBack(h, x), N + 1) = Content(h, N) \cup {x}
         /\ \A p \in 0..N - 1 : At(PushBack(h, x), p) = At(h, p)
<1> DEFINE g == PushBack(h, x)
<1>1. h.slots \in [1..N -> Items] /\ h.index \in [Items -> Int]
  BY DEF Slice
<1>2. h.slots \in Seq(Items) /\ Len(h.slots) = N /\ Size(h) = N
  BY SliceIsSeq
<1>3. /\ g.slots = Append(h.slots, x) /\ g.index = [h.index EXCEPT ![x] = N]
      /\ g = [slots |-> g.slots, index |-> g.index]
  BY <1>2 DEF PushBack
<1> HIDE DEF g
<1>4. /\ g.slots \in [1..N + 1 -> Items] /\ g.slots[N + 1] = x
      /\ \A p \in 1..N : g.slots[p] = h.slots[p]
  <2>1. /\ g.slots \in Seq(Items) /\ Len(g.slots) = N + 1 /\ g.slots[N + 1] = x
        /\ \A p \in 1..N : g.slots[p] = h.slots[p]
    BY <1>2, <1>3, AppendProperties
  <2> QED BY <2>1, LenProperties
<1>5. \A p \in 0..N - 1 : At(g, p) = At(h, p)
  <2>1. \A p \in 0..N - 1 : p + 1 \in 1..N
    OBVIOUS
  <2> QED BY <1>4, <2>1 DEF At
<1>6. At(g, N) = x
  BY <1>4 DEF At
<1>7. ASSUME NEW p \in 0..(N + 1) - 1 PROVE g.index[At(g, p)] = p
  <2>1. CASE p = N
    BY <1>1, <1>3, <1>6, <2>1
  <2>2. CASE p # N
    <3>1. p \in 0..N - 1
      BY <2>2
    <3>2. At(h, p) \in Items /\ At(h, p) # x
      BY <3>1, ContentByPlace
    <3>3. h.index[At(h, p)] = p
      BY <3>1 DEF Slice
    <3> QED BY <1>1, <1>3, <1>5, <3>1, <3>2, <3>3
  <2> QED BY <2>1, <2>2
<1>8. g.index \in [Items -> Int]
  BY <1>1, <1>3
<1>9. Slice(g, N + 1)
  BY <1>3, <1>4, <1>7, <1>8 DEF Slice
<1>10. Content(g, N + 1) = Content(h, N) \cup {x}
  <2>1. \A p \in 1..N + 1 : p = N + 1 \/ p \in 1..N
    OBVIOUS
  <2>2. \A p \in 1..N : p \in 1..N + 1
    OBVIOUS
  <2>3. N + 1 \in 1..N + 1
    OBVIOUS
  <2> QED BY <1>4, <2>1, <2>2, <2>3 DEF Content
<1> QED BY <1>5, <1>9, <1>10 DEF g

\* Pop at the end of the slice.
LEMMA PopBackFacts ==
  ASSUME NEW N \in Nat, NEW h, Slice(h, N + 1)
  PROVE  /\ Slice(PopBack(h), N)
         /\ Content(PopBack(h), N) = Content(h, N + 1) \ {At(h, N)}
         /\ \A p \in 0..N - 1 : At(PopBack(h), p) = At(h, p)
<1> DEFINE g == PopBack(h)
           x == At(h, N)
<1>1. h.slots \in [1..N + 1 -> Items] /\ h.index \in [Items -> Int]
  BY DEF Slice
<1>2. h.slots \in Seq(Items) /\ Len(h.slots) = N + 1 /\ Size(h) = N + 1
  BY SliceIsSeq
<1>3. N + 1 - 1 = N /\ N \in 0..(N + 1) - 1 /\ N + 1 \in Nat
  OBVIOUS
<1>4. x \in Items /\ \A p \in 0..N - 1 : At(h, p) \in Items /\ At(h, p) # x /\ p \in 0..(N + 1) - 1
  <2>1. \A p \in 0..N - 1 : p \in 0..(N + 1) - 1 /\ p # N
    OBVIOUS
  <2> QED BY <1>3, <2>1, ContentByPlace
<1>5. /\ g.slots = SubSeq(h.slots, 1, N) /\ g.index = [h.index EXCEPT ![x] = -1]
      /\ g = [slots |-> g.slots, index |-> g.index]
  BY <1>2, <1>3 DEF PopBack
<1>6. x = h.slots[N + 1]
  BY DEF At
<1> HIDE DEF g, x
<1>7. g.slots \in [1..N -> Items] /\ \A p \in 1..N : g.slots[p] = h.slots[p]
  <2>1. \A p \in 1..N : h.slots[p] \in Items
    BY <1>1
  <2>2. /\ g.slots \in Seq(Items) /\ Len(g.slots) = IF 1 <= N THEN N - 1 + 1 ELSE 0
        /\ \A p \in 1..N - 1 + 1 : g.slots[p] = h.slots[1 + p - 1]
    <3> DEFINE s == h.slots
    <3> HIDE DEF s
    <3>1. \A m, n \in Int : (\A p \in m..n : s[p] \in Items) =>
            /\ SubSeq(s, m, n) \in Seq(Items)
            /\ Len(SubSeq(s, m, n)) = IF m <= n THEN n - m + 1 ELSE 0
            /\ \A p \in 1..n - m + 1 : SubSeq(s, m, n)[p] = s[m + p - 1]
      BY SubSeqProperties
    <3>2. g.slots = SubSeq(s, 1, N) /\ \A p \in 1..N : s[p] \in Items
      BY <1>5, <2>1 DEF s
    <3>3. 1 \in Int /\ N \in Int
      OBVIOUS
    <3> QED BY <3>1, <3>2, <3>3 DEF s
  <2>3. Len(g.slots) = N
    BY <2>2
  <2>4. g.slots \in [1..N -> Items]
    BY <2>2, <2>3, LenProperties
  <2>5. \A p \in 1..N : p \in 1..N - 1 + 1 /\ 1 + p - 1 = p
    OBVIOUS
  <2> QED BY <2>2, <2>4, <2>5
<1>8. \A p \in 0..N - 1 : At(g, p) = At(h, p)
  <2>1. \A p \in 0..N - 1 : p + 1 \in 1..N
    OBVIOUS
  <2> QED BY <1>7, <2>1 DEF At
<1>9. ASSUME NEW p \in 0..N - 1 PROVE g.index[At(g, p)] = p
  <2>1. h.index[At(h, p)] = p
    BY <1>4 DEF Slice
  <2> QED BY <1>1, <1>4, <1>5, <1>8, <2>1
<1>10. g.index \in [Items -> Int]
  BY <1>1, <1>4, <1>5
<1>11. Slice(g, N)
  BY <1>5, <1>7, <1>9, <1>10 DEF Slice
<1>12. Content(g, N) = Content(h, N + 1) \ {x}
  <2>1. \A p \in 1..N + 1 : p = N + 1 \/ p \in 1..N
    OBVIOUS
  <2>2. \A p \in 1..N : p \in 1..N + 1 /\ h.slots[p] # x
    <3>1. \A p \in 1..N : p - 1 \in 0..N - 1 /\ (p - 1) + 1 = p /\ p \in 1..N + 1
      OBVIOUS
    <3>2. \A p \in 1..N : At(h, p - 1) = h.slots[p]
      BY <3>1 DEF At
    <3> QED BY <1>4, <3>1, <3>2
  <2> QED BY <1>6, <1>7, <2>1, <2>2 DEF Content
<1> QED BY <1>8, <1>11, <1>12 DEF g, x

\* heap.Push of an item that is not in the heap.
LEMMA HeapPushFacts ==
  ASSUME NEW N \in Nat, NEW h, IsHeap(h, N), NEW x \in Items, x \notin Content(h, N)
  PROVE  /\ IsHeap(HeapPush(h, x), N + 1)
         /\ Content(HeapPush(h, x), N + 1) = Content(h, N) \cup {x}
<1> DEFINE g == PushBack(h, x)
           M == N + 1
<1>1. /\ Slice(g, M) /\ Content(g, M) = Content(h, N) \cup {x}
      /\ \A p \in 0..N - 1 : At(g, p) = At(h, p)
  BY PushBackFacts DEF IsHeap
<1>2. HeapPush(h, x) = Up(g, N)
  BY SliceIsSeq DEF HeapPush, IsHeap
<1> HIDE DEF g
<1>3. RisesAt(g, M, N)
  <2>1. ASSUME NEW p \in 1..M - 1, p # N PROVE ~ LessAt(g, p, Parent(p))
    <3>1. p \in 1..N - 1 /\ p \in 0..N - 1 /\ Parent(p) \in 0..N - 1
      BY <2>1, ParentFacts
    <3>2. ~ LessAt(h, p, Parent(p))
      BY <3>1 DEF IsHeap, Ordered
    <3> QED BY <1>1, <3>1, <3>2 DEF LessAt
  <2>2. \A p \in 1..M - 1 : Parent(p) # N
    BY ParentFacts
  <2> QED BY <2>1, <2>2 DEF RisesAt
<1>4. M \in Nat /\ M \in 0..M /\ N \in 0..M - 1
  OBVIOUS
<1> HIDE DEF M
<1>5. Slice(Up(g, N), M) /\ Content(Up(g, N), M) = Content(g, M) /\ Ordered(Up(g, N), M)
  BY <1>1, <1>3, <1>4, UpFacts
<1> QED BY <1>1, <1>2, <1>5 DEF IsHeap, M

\* What is cut off is not part of the heap any more.
LEMMA CutFacts ==
  ASSUME NEW N \in Nat, NEW h, Slice(h, N + 1), Ordered(h, N)
  PROVE  /\ IsHeap(PopBack(h), N)
         /\ Content(PopBack(h), N) = Content(h, N + 1) \ {At(h, N)}
<1>1. /\ Slice(PopBack(h), N) /\ Content(PopBack(h), N) = Content(h, N + 1) \ {At(h, N)}
      /\ \A p \in 0..N - 1 : At(PopBack(h), p) = At(h, p)
  BY PopBackFacts
<1>2. ASSUME NEW p \in 1..N - 1 PROVE ~ LessAt(PopBack(h), p, Parent(p))
  <2>1. p \in 0..N - 1 /\ Parent(p) \in 0..N - 1
    BY ParentFacts
  <2>2. ~ LessAt(h, p, Parent(p))
    BY DEF Ordered
  <2> QED BY <1>1, <2>1, <2>2 DEF LessAt
<1> QED BY <1>1, <1>2 DEF IsHeap, Ordered

\* The last item of a heap takes the place of another one, and may have to go
\* down from there.
LEMMA ReplaceFacts ==
  ASSUME NEW N \in Nat, NEW h, IsHeap(h, N + 1), NEW i \in 0..N
  PROVE  LET g == Swap(h, i, N)
         IN  /\ Slice(g, N + 1) /\ Content(g, N + 1) = Content(h, N + 1)
             /\ At(g, N) = At(h, i) /\ SinksAt(g, N, i, i)
<1> DEFINE g == Swap(h, i, N)
           M == N + 1
<1>1. /\ M \in Nat /\ N \in 0..M /\ i \in 0..M - 1 /\ N \in 0..M - 1 /\ i \in Nat
      /\ M \in 0..M
  OBVIOUS
<1>2. \A p \in 1..N - 1 : /\ p \in 1..M - 1 /\ p \in 0..M - 1 /\ p # N
                          /\ Parent(p) \in 0..M - 1 /\ Parent(p) # N
  BY ParentFacts
<1>3. i # 0 => Parent(i) \in 0..M - 1 /\ Parent(i) # i /\ Parent(i) # N
  BY ParentFacts
<1> HIDE DEF M
<1>4. Slice(h, M) /\ Ordered(h, M)
  BY DEF IsHeap, M
<1>5. /\ Slice(g, M) /\ Content(g, M) = Content(h, M) /\ At(g, N) = At(h, i)
      /\ \A p \in 0..M - 1 : p # i /\ p # N => At(g, p) = At(h, p)
  BY <1>1, <1>4, SwapFacts
<1> HIDE DEF g
<1>6. ASSUME NEW p \in 1..N - 1, p # i, Parent(p) # i PROVE ~ LessAt(g, p, Parent(p))
  <2>1. ~ LessAt(h, p, Parent(p))
    BY <1>2, <1>4 DEF Ordered
  <2> QED BY <1>2, <1>5, <1>6, <2>1 DEF LessAt
<1>7. ASSUME NEW p \in 1..N - 1, Parent(p) = i, i # 0 PROVE ~ LessAt(g, p, Parent(i))
  <2>1. ~ LessAt(h, p, Parent(i))
    BY <1>1, <1>2, <1>4, <1>7, OrderedRises
  <2>2. p # i
    BY <1>7, ParentFacts
  <2> QED BY <1>2, <1>3, <1>5, <1>7, <2>1, <2>2 DEF LessAt
<1>8. SinksAt(g, N, i, i)
  BY <1>6, <1>7 DEF SinksAt
<1> QED BY <1>5, <1>8 DEF g, M

\* heap.Pop removes the root.
LEMMA HeapPopFacts ==
  ASSUME NEW N \in Nat, NEW h, IsHeap(h, N + 1)
  PROVE  /\ IsHeap(HeapPop(h), N)
         /\ Content(HeapPop(h), N) = Content(h, N + 1) \ {At(h, 0)}
<1> DEFINE g == Swap(h, 0, N)
           d == Down(g, 0, N)
           M == N + 1
<1>1. M \in Nat /\ N \in 0..M /\ 0 \in 0..N /\ 0 \in 0..M - 1 /\ N \in N..M - 1 /\ M - 1 = N
  OBVIOUS
<1>2. HeapPop(h) = PopBack(d)
  <2>1. Size(h) = M
    BY <1>1, SliceIsSeq DEF IsHeap
  <2> HIDE DEF M
  <2> QED BY <1>1, <2>1 DEF HeapPop
<1>3. /\ Slice(g, M) /\ Content(g, M) = Content(h, M)
      /\ At(g, N) = At(h, 0) /\ SinksAt(g, N, 0, 0)
  <2>1. \A i \in 0..N : LET s == Swap(h, i, N)
                        IN  /\ Slice(s, M) /\ Content(s, M) = Content(h, M)
                            /\ At(s, N) = At(h, i) /\ SinksAt(s, N, i, i)
    BY ReplaceFacts
  <2> QED BY <1>1, <2>1
<1> HIDE DEF M, g
<1>4. /\ Slice(d, M) /\ Content(d, M) = Content(g, M) /\ At(d, N) = At(g, N)
      /\ Ordered(d, N)
  <2>1. \A i \in 0..M - 1 : SinksAt(g, N, i, i) =>
            /\ Slice(Down(g, i, N), M) /\ Content(Down(g, i, N), M) = Content(g, M)
            /\ \A p \in N..M - 1 : At(Down(g, i, N), p) = At(g, p)
            /\ i = 0 => Ordered(Down(g, i, N), N)
    BY <1>1, <1>3, DownFacts
  <2> QED BY <1>1, <1>3, <2>1
<1> HIDE DEF d
<1>5. IsHeap(PopBack(d), N) /\ Content(PopBack(d), N) = Content(d, M) \ {At(d, N)}
  BY <1>4, CutFacts DEF M
<1> QED BY <1>2, <1>3, <1>4, <1>5 DEF M

\* heap.Remove removes the item at place i.
LEMMA RemoveFacts ==
  ASSUME NEW N \in Nat, NEW h, IsHeap(h, N + 1), NEW i \in 0..N
  PROVE  /\ IsHeap(Remove(h, i), N)
         /\ Content(Remove(h, i), N) = Content(h, N + 1) \ {At(h, i)}
<1> DEFINE g == Swap(h, i, N)
           d == Down(g, i, N)
           r == IF i = N THEN h ELSE IF d # g THEN d ELSE Up(g, i)
           M == N + 1
<1>1. M \in Nat /\ N \in 0..M /\ i \in 0..M - 1 /\ N \in N..M - 1 /\ M - 1 = N
  OBVIOUS
<1>2. Remove(h, i) = PopBack(r)
  <2>1. Size(h) = M
    BY <1>1, SliceIsSeq DEF IsHeap
  <2> HIDE DEF M
  <2> QED BY <1>1, <2>1 DEF Remove
<1>3. /\ Slice(g, M) /\ Content(g, M) = Content(h, M)
      /\ At(g, N) = At(h, i) /\ SinksAt(g, N, i, i)
  BY ReplaceFacts
<1> HIDE DEF M, g
<1>4. /\ Slice(d, M) /\ Content(d, M) = Content(g, M) /\ At(d, N) = At(g, N)
      /\ d # g => Ordered(d, N)
      /\ d = g /\ i < N => RisesAt(g, N, i)
  BY <1>1, <1>3, DownFacts
<1>5. Slice(r, M) /\ Content(r, M) = Content(h, M) /\ At(r, N) = At(h, i) /\ Ordered(r, N)
  <2>1. CASE i = N
    <3>1. Slice(h, M) /\ Ordered(h, M)
      BY DEF IsHeap, M
    <3>2. Ordered(h, N)
      BY <3>1 DEF Ordered, M
    <3> QED BY <2>1, <3>1, <3>2
  <2>2. CASE i # N /\ d # g
    <3> HIDE DEF d
    <3> QED BY <1>3, <1>4, <2>2
  <2>3. CASE i # N /\ d = g
    <3>1. i \in 0..N - 1 /\ RisesAt(g, N, i)
      BY <1>4, <2>3
    <3>2. /\ Slice(Up(g, i), M) /\ Content(Up(g, i), M) = Content(g, M)
          /\ Ordered(Up(g, i), N) /\ At(Up(g, i), N) = At(g, N)
      BY <1>1, <1>3, <3>1, UpFacts
    <3> HIDE DEF d
    <3> QED BY <1>3, <2>3, <3>2
  <2> QED BY <2>1, <2>2, <2>3
<1> HIDE DEF r
<1>6. IsHeap(PopBack(r), N) /\ Content(PopBack(r), N) = Content(r, M) \ {At(r, N)}
  BY <1>5, CutFacts DEF M
<1> QED BY <1>2, <1>5, <1>6 DEF M

-----------------------------------------------------------------------------
(* The scan of findLowestPriority.                                         *)

\* It finds an item of the heap that precedes none of the others.
LEMMA FindLowestFacts ==
  ASSUME NEW N \in Nat \ {0}, NEW h, Slice(h, N)
  PROVE  /\ \E p \in 0..N - 1 : FindLowestPriority(h) = At(h, p)
         /\ \A p \in 0..N - 1 : ~ Q!Less(FindLowestPriority(h), At(h, p))
<1> DEFINE M == N - 1
           Replaces(item, worst) == \/ Priority[item] > Priority[worst]
                                    \/ /\ Priority[item] = Priority[worst]
                                       /\ CreatedAt[item] > CreatedAt[worst]
           Scan(f) == [p \in 0..M |->
                         IF p = 0 THEN At(h, 0)
                         ELSE IF Replaces(At(h, p), f[p - 1]) THEN At(h, p) ELSE f[p - 1]]
           f == CHOOSE g : g = Scan(g)
<1>1. M \in Nat /\ Size(h) - 1 = M
  BY SliceIsSeq
<1>2. FindLowestPriority(h) = f[M]
  <2> DEFINE K == Size(h) - 1
  <2>1. K = M
    BY <1>1
  <2>2. FindLowestPriority(h) =
          (CHOOSE g : g = [p \in 0..K |->
                         IF p = 0 THEN At(h, 0)
                         ELSE IF Replaces(At(h, p), g[p - 1]) THEN At(h, p) ELSE g[p - 1]])[K]
    BY DEF FindLowestPriority
  <2> HIDE DEF K, M, Replaces
  <2> QED BY <2>1, <2>2
<1>3. \A p \in 0..M : At(h, p) \in Items
  BY <1>1, ContentByPlace
<1>4. \A x, y \in Items : Replaces(x, y) <=> Q!Less(y, x)
  <2> SUFFICES ASSUME NEW x \in Items, NEW y \in Items PROVE Replaces(x, y) <=> Q!Less(y, x)
    OBVIOUS
  <2>1. /\ Priority[x] \in Int /\ Priority[y] \in Int
        /\ CreatedAt[x] \in Int /\ CreatedAt[y] \in Int
    BY HeapOrderAssumption
  <2> QED BY <2>1 DEF Q!Less
<1> HIDE DEF M, Replaces
<1>5. \E g : g = Scan(g)
  <2> DEFINE next == [p \in 1..M |->
                        [x \in Items |-> IF Replaces(At(h, p), x) THEN At(h, p) ELSE x]]
  <2>1. next \in Steps(M, Items)
    BY <1>1, <1>3 DEF Steps
  <2>2. \A p \in 1..M, x \in Items : next[p][x] = IF Replaces(At(h, p), x) THEN At(h, p) ELSE x
    OBVIOUS
  <2> HIDE DEF next
  <2>3. At(h, 0) \in Items
    BY <1>1, <1>3
  <2>4. PICK g : Solves(g, M, Items, At(h, 0), next)
    BY <1>1, <2>1, <2>3, RecursionExists
  <2>5. ASSUME NEW p \in 0..M
        PROVE  g[p] = IF p = 0 THEN At(h, 0)
                      ELSE IF Replaces(At(h, p), g[p - 1]) THEN At(h, p) ELSE g[p - 1]
    BY <1>1, <2>2, <2>4 DEF Solves
  <2>6. g = Scan(g)
    BY <2>4, <2>5 DEF Solves
  <2> HIDE DEF Scan
  <2> QED BY <2>6
<1>6. f = Scan(f)
  <2> HIDE DEF Scan
  <2> QED BY <1>5
<1>7. /\ f[0] = At(h, 0)
      /\ \A p \in 1..M : f[p] = IF Replaces(At(h, p), f[p - 1]) THEN At(h, p) ELSE f[p - 1]
  <2> HIDE DEF f
  <2> QED BY <1>1, <1>6
<1> HIDE DEF f, Scan
<1> DEFINE S == {m \in 0..M : /\ \E p \in 0..M : f[m] = At(h, p)
                              /\ \A p \in 0..m : ~ Q!Less(f[m], At(h, p))}
<1>8. 0 \in S
  <2>1. 0 \in 0..M /\ At(h, 0) \in Items
    BY <1>1, <1>3
  <2>2. ~ Q!Less(f[0], At(h, 0))
    BY <1>7, <2>1, LessIsWeakOrder
  <2> QED BY <1>7, <2>1, <2>2
<1>9. ASSUME NEW m \in 1..M, m - 1 \in S PROVE m \in S
  <2> DEFINE w == f[m - 1]
             x == At(h, m)
  <2>1. /\ m \in Nat /\ m \in 0..M /\ \E p \in 0..M : w = At(h, p)
        /\ \A p \in 0..m - 1 : ~ Q!Less(w, At(h, p))
    BY <1>1, <1>9
  <2>2. w \in Items /\ x \in Items
    BY <1>3, <2>1
  <2>3. f[m] = IF Q!Less(w, x) THEN x ELSE w
    BY <1>4, <1>7, <2>2
  <2> HIDE DEF w, x
  <2>4. \E p \in 0..M : f[m] = At(h, p)
    BY <2>1, <2>3 DEF x
  <2>5. ASSUME NEW p \in 0..m PROVE ~ Q!Less(f[m], At(h, p))
    <3>1. p \in 0..M /\ At(h, p) \in Items /\ (p = m \/ p \in 0..m - 1)
      BY <1>1, <1>3, <2>1
    <3>2. CASE p = m
      <4>1. At(h, p) = x
        BY <3>2 DEF x
      <4> QED BY <2>2, <2>3, <4>1, LessIsWeakOrder
    <3>3. CASE p \in 0..m - 1
      <4>1. ~ Q!Less(w, At(h, p))
        BY <2>1, <3>3
      <4>2. Q!Less(w, x) => ~ Q!Less(x, w)
        BY <2>2, LessIsWeakOrder
      <4> QED BY <2>2, <2>3, <3>1, <4>1, <4>2, LessIsWeakOrder
    <3> QED BY <3>1, <3>2, <3>3
  <2> QED BY <2>1, <2>4, <2>5
<1>10. 0..M \subseteq S
  <2> HIDE DEF S
  <2> QED BY <1>1, <1>8, <1>9, UpTo
<1>11. M \in S
  BY <1>1, <1>10
<1> QED BY <1>2, <1>11 DEF M

-----------------------------------------------------------------------------
(* The state of the queue.                                                 *)

\* The inductive invariant, and the items in the heap.
GoodHeap == slots \in Seq(Items) /\ index \in [Items -> Int] /\ HeapWellFormed

Queued == {slots[p] : p \in 1..Len(slots)}

\* The slice and the indices form a heap of the queue's items.
LEMMA GoodHeapSays ==
  ASSUME GoodHeap
  PROVE  /\ Len(slots) \in Nat /\ Size(Heap) = Len(slots) /\ IsHeap(Heap, Len(slots))
         /\ Content(Heap, Len(slots)) = Queued
<1>1. Len(slots) \in Nat /\ slots \in [1..Len(slots) -> Items] /\ index \in [Items -> Int]
  BY LenProperties DEF GoodHeap
<1>2. Heap.slots = slots /\ Heap.index = index /\ Size(Heap) = Len(slots)
  BY DEF Heap, Size
<1>3. Heap \in [slots : [1..Len(slots) -> Items], index : [Items -> Int]]
  BY <1>1 DEF Heap
<1>4. /\ \A p \in 1..Len(slots) - 1 : ~ LessAt(Heap, p, Parent(p))
      /\ \A p \in 0..Len(slots) - 1 : index[At(Heap, p)] = p
  BY <1>2 DEF GoodHeap, HeapWellFormed
<1> QED BY <1>1, <1>2, <1>3, <1>4 DEF IsHeap, Slice, Ordered, Content, Queued

\* The next slice and indices are a heap if the record they are taken from is.
LEMMA NextHeap ==
  ASSUME NEW N \in Nat, NEW h, IsHeap(h, N), Becomes(h)
  PROVE  GoodHeap' /\ Queued' = Content(h, N)
<1>1. slots' = h.slots /\ index' = h.index
  BY DEF Becomes
<1>2. slots' \in Seq(Items) /\ Len(slots') = N
  BY <1>1, SliceIsSeq DEF IsHeap
<1>3. h = Heap' /\ index' \in [Items -> Int]
  <2>1. h \in [slots : [1..N -> Items], index : [Items -> Int]]
    BY DEF IsHeap, Slice
  <2>2. h = [slots |-> h.slots, index |-> h.index] /\ h.index \in [Items -> Int]
    BY <2>1
  <2> QED BY <1>1, <2>2 DEF Heap
<1>4. /\ \A p \in 1..N - 1 : ~ LessAt(h, p, Parent(p))
      /\ \A p \in 0..N - 1 : h.index[At(h, p)] = p
  BY DEF IsHeap, Slice, Ordered
<1>5. Size(h) = N
  BY SliceIsSeq DEF IsHeap
<1>6. HeapWellFormed'
  BY <1>1, <1>3, <1>4, <1>5 DEF HeapWellFormed, LessAt, At, Size, Q!Less
<1> QED BY <1>1, <1>2, <1>3, <1>6 DEF GoodHeap, Queued, Content

\* No item is in the slice twice.
LEMMA HeapCardinality ==
  ASSUME GoodHeap
  PROVE  Cardinality(Queued) = Len(slots)
<1> DEFINE N == Len(slots)
<1>1. N \in Nat /\ slots \in [1..N -> Items]
  BY LenProperties DEF GoodHeap
<1>2. \A p, q \in 1..N : slots[p] = slots[q] => p = q
  <2>1. \A p, q \in 0..N - 1 : At(Heap, p) = At(Heap, q) => p = q
    BY GoodHeapSays, ContentByPlace DEF IsHeap
  <2>2. \A p \in 1..N : p - 1 \in 0..N - 1 /\ slots[p] = At(Heap, p - 1)
    <3>1. \A p \in 1..N : p - 1 \in 0..N - 1 /\ (p - 1) + 1 = p
      BY <1>1
    <3> QED BY <3>1 DEF At, Heap
  <2>3. \A p, q \in 1..N : p - 1 = q - 1 => p = q
    BY <1>1
  <2> QED BY <2>1, <2>2, <2>3
<1>3. slots \in Bijection(1..N, Queued)
  <2>1. slots \in [1..N -> Queued]
    BY <1>1 DEF Queued
  <2>2. IsInjective(slots)
    BY <1>1, <1>2 DEF IsInjective
  <2>3. \A x \in Queued : \E p \in 1..N : slots[p] = x
    BY DEF Queued
  <2> QED BY <2>1, <2>2, <2>3 DEF Bijection, Injection, Surjection
<1> QED BY <1>1, <1>3, FS_CountingElements DEF ExistsBijection

\* heap.Pop takes an item that Queue's Pop may take.
LEMMA PopTakesFront ==
  ASSUME GoodHeap, slots # <<>>, Becomes(HeapPop(Heap))
  PROVE  /\ GoodHeap' /\ At(Heap, 0) \in Items /\ At(Heap, 0) \in Q!Front
         /\ Queued' = Queued \ {At(Heap, 0)}
<1> DEFINE x == At(Heap, 0)
           M == Len(slots)
           N == M - 1
<1>1. /\ M \in Nat /\ IsHeap(Heap, M) /\ Content(Heap, M) = Queued
  BY GoodHeapSays
<1>2. M # 0
  BY EmptySeq DEF GoodHeap
<1> HIDE DEF M
<1>3. N \in Nat /\ N + 1 = M /\ 0 \in 0..M - 1
  BY <1>1, <1>2
<1>4. IsHeap(HeapPop(Heap), N) /\ Content(HeapPop(Heap), N) = Queued \ {x}
  <2>1. IsHeap(Heap, N + 1) /\ Content(Heap, N + 1) = Queued
    BY <1>1, <1>3
  <2> HIDE DEF N
  <2> QED BY <1>3, <2>1, HeapPopFacts
<1>5. GoodHeap' /\ Queued' = Queued \ {x}
  <2> HIDE DEF N, x
  <2> QED BY <1>3, <1>4, NextHeap
<1>6. x \in Items /\ x \in Queued /\ \A y \in Queued : \E p \in 0..M - 1 : y = At(Heap, p)
  BY <1>1, <1>3, ContentByPlace DEF IsHeap
<1>7. \A p \in 0..M - 1 : ~ Q!Less(At(Heap, p), x)
  BY <1>1, RootIsLeast DEF LessAt
<1>8. x \in Q!Front
  BY <1>6, <1>7 DEF Q!Front, Queued
<1> QED BY <1>5, <1>6, <1>8

\* findLowestPriority finds an item that Queue's Enqueue may evict, and the item
\* knows its place.
LEMMA LowestIsWorst ==
  ASSUME GoodHeap, Len(slots) > 0
  PROVE  LET w == FindLowestPriority(Heap)
         IN  /\ w \in Items /\ w \in Queued /\ w \in Q!Worst
             /\ index[w] \in 0..Len(slots) - 1 /\ At(Heap, index[w]) = w
<1> DEFINE w == FindLowestPriority(Heap)
           M == Len(slots)
<1>1. /\ M \in Nat \ {0} /\ Slice(Heap, M) /\ Content(Heap, M) = Queued
  BY GoodHeapSays DEF IsHeap
<1> HIDE DEF M
<1>2. /\ \E p \in 0..M - 1 : w = At(Heap, p)
      /\ \A p \in 0..M - 1 : ~ Q!Less(w, At(Heap, p))
  BY <1>1, FindLowestFacts
<1> HIDE DEF w
<1>3. PICK p \in 0..M - 1 : w = At(Heap, p)
  BY <1>2
<1>4. index[w] = p
  <2>1. Heap.index[At(Heap, p)] = p
    BY <1>1 DEF Slice
  <2> QED BY <1>3, <2>1 DEF Heap
<1>5. w \in Items /\ w \in Queued /\ \A y \in Queued : \E q \in 0..M - 1 : y = At(Heap, q)
  BY <1>1, <1>3, ContentByPlace
<1>6. w \in Q!Worst
  BY <1>2, <1>5 DEF Q!Worst, Queued
<1> QED BY <1>3, <1>4, <1>5, <1>6 DEF w, M

\* A push of a new item.
LEMMA PushAdds ==
  ASSUME GoodHeap, NEW x \in Items, x \notin Queued, Becomes(HeapPush(Heap, x))
  PROVE  GoodHeap' /\ Queued' = Queued \cup {x}
<1> DEFINE M == Len(slots)
<1>1. M \in Nat /\ IsHeap(Heap, M) /\ Content(Heap, M) = Queued
  BY GoodHeapSays
<1> HIDE DEF M
<1>2. IsHeap(HeapPush(Heap, x), M + 1) /\ Content(HeapPush(Heap, x), M + 1) = Queued \cup {x}
  BY <1>1, HeapPushFacts
<1>3. M + 1 \in Nat
  BY <1>1
<1> QED BY <1>2, <1>3, NextHeap

\* The removal of the worst item and a push of a new one.
LEMMA EvictAndPush ==
  ASSUME GoodHeap, Len(slots) > 0, NEW x \in Items, x \notin Queued,
         Becomes(HeapPush(Remove(Heap, index[FindLowestPriority(Heap)]), x))
  PROVE  GoodHeap' /\ Queued' = (Queued \ {FindLowestPriority(Heap)}) \cup {x}
<1> DEFINE w == FindLowestPriority(Heap)
           i == index[w]
           M == Len(slots)
           N == M - 1
           r == Remove(Heap, i)
<1>1. M \in Nat /\ M # 0 /\ IsHeap(Heap, M) /\ Content(Heap, M) = Queued
  BY GoodHeapSays
<1>2. i \in 0..M - 1 /\ At(Heap, i) = w
  BY LowestIsWorst
<1> HIDE DEF M, w, i
<1>3. N \in Nat /\ N + 1 = M /\ N + 1 \in Nat
  BY <1>1
<1>4. IsHeap(Heap, N + 1) /\ Content(Heap, N + 1) = Queued /\ i \in 0..N
  BY <1>1, <1>2, <1>3
<1> HIDE DEF N
<1>5. IsHeap(r, N) /\ Content(r, N) = Queued \ {w}
  BY <1>2, <1>3, <1>4, RemoveFacts
<1>6. Becomes(HeapPush(r, x))
  BY DEF i, w
<1> HIDE DEF r
<1>7. /\ IsHeap(HeapPush(r, x), N + 1)
      /\ Content(HeapPush(r, x), N + 1) = (Queued \ {w}) \cup {x}
  BY <1>3, <1>5, HeapPushFacts
<1> QED BY <1>3, <1>6, <1>7, NextHeap DEF w

\* Queue counts as this module does.
LEMMA SameCardinality == \A S : Q!Cardinality(S) = Cardinality(S)
BY DEF Q!Cardinality, Cardinality

\* Enqueue keeps the heap, and is an Enqueue of Queue.
LEMMA EnqueueStep ==
  ASSUME GoodHeap, NEW i \in Items, Enqueue(i)
  PROVE  GoodHeap' /\ Q!Enqueue(i)
<1> DEFINE worst == FindLowestPriority(Heap)
<1>1. /\ Q!Outside(i) /\ dispatch # "drain" /\ i \notin Queued
      /\ UNCHANGED <<closed, done, dispatch, hand, worker, held, ctxDone>>
  BY DEF Enqueue, Q!Outside, Queued
<1>2. /\ Size(Heap) = Len(slots) /\ Len(slots) \in Nat /\ MaxSize \in Nat \ {0}
      /\ (Q!HasRoom <=> Size(Heap) < MaxSize)
  <2>1. Q!HasRoom <=> Cardinality(Queued) < MaxSize
    BY SameCardinality DEF Q!HasRoom, Queued
  <2> QED BY <2>1, GoodHeapSays, HeapCardinality, HeapMaxSizeAssumption
<1>3. Size(Heap) >= MaxSize => Len(slots) > 0 /\ worst \in Q!Worst /\ worst \in Items
  <2>1. Size(Heap) >= MaxSize => Len(slots) > 0
    BY <1>2
  <2> QED BY <2>1, LowestIsWorst
<1>4. Priority[i] \in Int /\ (worst \in Items => Priority[worst] \in Int)
  BY HeapOrderAssumption
<1> SUFFICES GoodHeap' /\ (Q!EnqueueRejected(i) \/ Q!EnqueueRoom(i) \/ Q!EnqueuePreempt(i))
  BY <1>1 DEF Q!Enqueue, Q!EnqueueCall, Q!dispatchVars, Q!workerVars
<1>5. CASE /\ \/ closed
              \/ Size(Heap) >= MaxSize /\ (~ Preempt \/ Priority[i] >= Priority[worst])
           /\ lost' = lost \cup {i} /\ UNCHANGED <<heapVars, notify>>
  <2>1. UNCHANGED <<slots, index>>
    BY <1>5 DEF heapVars
  <2>2. GoodHeap'
    BY <2>1 DEF GoodHeap, HeapWellFormed, Heap, LessAt, At, Size, Q!Less
  <2>3. Q!Reject(i)
    BY <1>5, <2>1 DEF Q!Reject
  <2>4. closed \/ (~ Q!HasRoom /\ ~ Preempt)
          \/ (~ Q!HasRoom /\ \E w \in Q!Worst : ~ Q!MayEvict(i, w))
    <3> HIDE DEF worst
    <3>1. CASE closed \/ (Size(Heap) >= MaxSize /\ ~ Preempt)
      BY <1>2, <3>1
    <3>2. CASE Size(Heap) >= MaxSize /\ Priority[i] >= Priority[worst]
      <4>1. ~ Q!MayEvict(i, worst)
        BY <1>3, <1>4, <3>2 DEF Q!MayEvict
      <4> QED BY <1>2, <1>3, <3>2, <4>1
    <3> QED BY <1>5, <3>1, <3>2
  <2> QED BY <2>2, <2>3, <2>4 DEF Q!EnqueueRejected
<1>6. CASE /\ ~ closed /\ Size(Heap) < MaxSize
           /\ Becomes(HeapPush(Heap, i)) /\ lost' = lost /\ notify' = TRUE
  <2>1. GoodHeap' /\ Queued' = Queued \cup {i}
    BY <1>1, <1>6, PushAdds
  <2> QED BY <1>2, <1>6, <2>1 DEF Q!EnqueueRoom, Q!Notify, Queued
<1>7. CASE /\ ~ closed /\ Size(Heap) >= MaxSize /\ Preempt /\ Priority[i] < Priority[worst]
           /\ Becomes(HeapPush(Remove(Heap, index[worst]), i))
           /\ lost' = lost \cup {worst} /\ notify' = TRUE
  <2>1. GoodHeap' /\ Queued' = (Queued \ {worst}) \cup {i}
    BY <1>1, <1>3, <1>7, EvictAndPush
  <2> HIDE DEF worst
  <2>2. PICK w : w = worst
    OBVIOUS
  <2>3. w \in Q!Worst /\ Q!MayEvict(i, w) /\ Q!RemoveForPush(i, w)
    BY <1>3, <1>7, <2>1, <2>2 DEF Q!MayEvict, Q!RemoveForPush, Queued
  <2>4. ~ Q!HasRoom
    BY <1>2, <1>7
  <2>5. Q!EnqueuePreempt(i)
    BY <1>7, <2>3, <2>4 DEF Q!EnqueuePreempt, Q!Notify
  <2> QED BY <2>1, <2>5
<1> QED BY <1>5, <1>6, <1>7 DEF Enqueue

\* The pop of dispatchLoop keeps the heap, and is a Pop of Queue.
LEMMA PopStep ==
  ASSUME GoodHeap, Pop
  PROVE  GoodHeap' /\ Q!Pop
<1>0. PICK x : x = At(Heap, 0)
  OBVIOUS
<1>1. GoodHeap' /\ x \in Items /\ x \in Q!Front /\ Queued' = Queued \ {x}
  BY <1>0, PopTakesFront DEF Pop
<1>2. /\ dispatch = "pop" /\ hand' = x /\ dispatch' = "send"
      /\ UNCHANGED <<closed, notify, done, worker, held, ctxDone, lost>>
  BY <1>0 DEF Pop
<1>3. Q!PopItem(x)
  BY <1>1 DEF Q!PopItem, Queued
<1> QED BY <1>1, <1>2, <1>3 DEF Q!Pop, Q!workerVars

\* The pop of drainRemaining keeps the heap, and is a DrainOne of Queue.
LEMMA DrainStep ==
  ASSUME GoodHeap, DrainOne
  PROVE  GoodHeap' /\ Q!DrainOne
<1>0. PICK x : x = At(Heap, 0)
  OBVIOUS
<1>1. GoodHeap' /\ x \in Items /\ x \in Q!Front /\ Queued' = Queued \ {x}
  BY <1>0, PopTakesFront DEF DrainOne
<1>2. /\ dispatch = "drain" /\ UNCHANGED <<closed, notify, done, ctxDone, dispatch, hand>>
      /\ \/ \E w \in Workers : worker[w] = "recv" /\ Q!Receive(w, x) /\ lost' = lost
         \/ /\ \A w \in Workers : worker[w] # "recv"
            /\ lost' = lost \cup {x} /\ UNCHANGED <<worker, held>>
  BY <1>0 DEF DrainOne, Q!Receive
<1>3. Q!PopItem(x)
  BY <1>1 DEF Q!PopItem, Queued
<1> QED BY <1>1, <1>2, <1>3 DEF Q!DrainOne, Q!Receive, Q!workerVars, Q!dispatchVars

\* Every step keeps the heap, and is a step of Queue or changes nothing in it.
LEMMA HeapStep ==
  ASSUME GoodHeap, [Next]_<<heapVars, queueVars>>
  PROVE  GoodHeap' /\ [Q!Next]_(Q!vars)
<1>1. ASSUME NEW i \in Items, Enqueue(i) PROVE GoodHeap' /\ [Q!Next]_(Q!vars)
  BY <1>1, EnqueueStep DEF Q!Next
<1>2. CASE Pop
  BY <1>2, PopStep DEF Q!Next, Q!Dispatcher
<1>3. CASE DrainOne
  BY <1>3, DrainStep DEF Q!Next, Q!Dispatcher
<1>4. ASSUME UNCHANGED heapVars PROVE GoodHeap'
  BY <1>4 DEF heapVars, GoodHeap, HeapWellFormed, Heap, LessAt, At, Size, Q!Less
<1>5. CASE ElseQueue
  <2>1. Q!Next
    BY <1>5 DEF ElseQueue, Q!Next, Q!Dispatcher
  <2> QED BY <1>4, <1>5, <2>1 DEF ElseQueue
<1>6. CASE UNCHANGED <<heapVars, queueVars>>
  <2>1. UNCHANGED Q!vars
    BY <1>6 DEF heapVars, queueVars, Q!vars
  <2> QED BY <1>4, <1>6, <2>1
<1> QED BY <1>1, <1>2, <1>3, <1>5, <1>6 DEF Next

\* The empty slice is a heap.
LEMMA HeapStarts == Init => GoodHeap
<1> SUFFICES ASSUME Init PROVE GoodHeap
  OBVIOUS
<1>1. slots = <<>> /\ index = [i \in Items |-> 0]
  BY DEF Init
<1>2. slots \in Seq(Items) /\ Len(slots) = 0 /\ index \in [Items -> Int]
  BY <1>1
<1>3. HeapWellFormed
  BY <1>2 DEF HeapWellFormed, Size, Heap
<1> QED BY <1>2, <1>3 DEF GoodHeap

\* What the code's heap always is.
THEOREM GoodHeapHolds == Spec => []GoodHeap
<1>1. GoodHeap /\ [Next]_<<heapVars, queueVars>> => GoodHeap'
  BY HeapStep
<1> QED BY HeapStarts, <1>1, PTL DEF Spec

\* After every mixture of pushes, pops and evictions the slice is a heap, and
\* every item in it knows the place that heap.Remove is given
\* (priority_queue.go:22-44, queue.go:88).
THEOREM HeapWellFormedHolds == Spec => []HeapWellFormed
<1>1. GoodHeap => HeapWellFormed
  BY DEF GoodHeap
<1> QED BY GoodHeapHolds, <1>1, PTL

\* The slice and its sifting implement the set of items of Queue: what
\* dispatchLoop and drainRemaining take out and what Enqueue evicts or refuses
\* is what Queue allows (queue.go:60-192).
THEOREM ImplementsQueueHolds == Spec => ImplementsQueue
<1>1. Init => Q!Init
  BY DEF Init
<1>2. GoodHeap /\ [Next]_<<heapVars, queueVars>> => [Q!Next]_(Q!vars)
  BY HeapStep
<1> QED BY <1>1, <1>2, GoodHeapHolds, PTL DEF Spec, ImplementsQueue, Q!Spec

-----------------------------------------------------------------------------
(* What the theorems of Queue say of the code's heap.                      *)

P == INSTANCE QueueProofs WITH pq <- {slots[p] : p \in 1..Len(slots)}

\* The assumptions of those theorems hold.
LEMMA QueueAssumptions ==
  P!ItemsAssumption /\ P!MaxSizeAssumption /\ P!PreemptAssumption /\ P!OrderAssumption
BY HeapItemsAssumption, HeapMaxSizeAssumption, HeapOrderAssumption
   DEF P!ItemsAssumption, P!MaxSizeAssumption, P!PreemptAssumption, P!OrderAssumption,
       IsFiniteSet, P!IsFiniteSet

\* Their specification is the one the heap implements.
LEMMA SameQueue == Q!Spec => P!Spec
<1>1. Q!Init <=> P!Init
  BY DEF Q!Init, P!Init
<1>2. Q!Next <=> P!Next
  BY DEF Q!Next, P!Next, Q!Enqueue, P!Enqueue, Q!Outside, P!Outside,
         Q!EnqueueCall, P!EnqueueCall, Q!EnqueueRejected, P!EnqueueRejected,
         Q!EnqueueRoom, P!EnqueueRoom, Q!EnqueuePreempt, P!EnqueuePreempt,
         Q!HasRoom, P!HasRoom, Q!Worst, P!Worst, Q!Front, P!Front, Q!Less, P!Less,
         Q!MayEvict, P!MayEvict, Q!RemoveForPush, P!RemoveForPush, Q!Reject, P!Reject,
         Q!Notify, P!Notify, Q!Dispatcher, P!Dispatcher, Q!TakeNotify, P!TakeNotify,
         Q!TakeDone, P!TakeDone, Q!PopItem, P!PopItem, Q!Pop, P!Pop,
         Q!PopSeesEmpty, P!PopSeesEmpty, Q!PopEmpty, P!PopEmpty, Q!Receive, P!Receive,
         Q!Deliver, P!Deliver, Q!Abandon, P!Abandon, Q!DrainOne, P!DrainOne,
         Q!DrainDone, P!DrainDone, Q!CloseMark, P!CloseMark, Q!CloseSignal, P!CloseSignal,
         Q!WorkerStep, P!WorkerStep, Q!Park, P!Park, Q!Finish, P!Finish,
         Q!WorkerExit, P!WorkerExit, Q!RootCancel, P!RootCancel,
         Q!dispatchVars, P!dispatchVars, Q!workerVars, P!workerVars,
         Q!Cardinality, P!Cardinality
<1> QED BY <1>1, <1>2, PTL DEF Q!Spec, P!Spec, Q!vars, P!vars

\* With the real slice, too, no item is in two places or with two workers, and a
\* sleeping dispatcher with work to do has a token to wake it; once it has
\* returned, nothing is left behind (queue.go:60-192).
THEOREM HeapKeepsQueueInvariants ==
  Spec => [](Q!OnePlace /\ Q!NoLostWakeup /\ Q!NothingStranded)
<1>1. P!Spec => [](P!OnePlace /\ P!NoLostWakeup /\ P!NothingStranded)
  <2>1. P!Spec => []P!OnePlace
    BY QueueAssumptions, P!OnePlaceHolds
  <2>2. P!Spec => []P!NoLostWakeup
    BY QueueAssumptions, P!NoLostWakeupHolds
  <2>3. P!Spec => []P!NothingStranded
    BY QueueAssumptions, P!NothingStrandedHolds
  <2> QED BY <2>1, <2>2, <2>3, PTL
<1>2. P!OnePlace /\ P!NoLostWakeup /\ P!NothingStranded =>
        Q!OnePlace /\ Q!NoLostWakeup /\ Q!NothingStranded
  BY DEF P!OnePlace, P!NoLostWakeup, P!NothingStranded,
         Q!OnePlace, Q!NoLostWakeup, Q!NothingStranded
<1> QED BY <1>1, <1>2, SameQueue, ImplementsQueueHolds, PTL DEF ImplementsQueue

\* The slice never grows past QUEUE_MAX_SIZE, which the code tests before a push
\* and restores by one heap.Remove (queue.go:68-91).
THEOREM SliceBound == Spec => [](Len(slots) <= MaxSize)
<1>1. P!Spec => []P!SizeBound
  BY QueueAssumptions, P!SizeBoundHolds
<1>2. GoodHeap /\ P!SizeBound => Len(slots) <= MaxSize
  <2>1. P!SizeBound => Cardinality(Queued) <= MaxSize
    BY DEF P!SizeBound, P!Cardinality, Cardinality, Queued
  <2> QED BY <2>1, HeapCardinality
<1> QED BY <1>1, <1>2, SameQueue, ImplementsQueueHolds, GoodHeapHolds, PTL DEF ImplementsQueue
=============================================================================
