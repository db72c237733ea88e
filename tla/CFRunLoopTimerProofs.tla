------------------------ MODULE CFRunLoopTimerProofs ------------------------
(***************************************************************************)
(* Theorems about CFRunLoopTimer, for all timers, modes, clients, programs *)
(* and lengths of time.                                                    *)
(***************************************************************************)
EXTENDS CFRunLoopTimer, ListTheorems, FiniteSetTheorems, TLAPS

-----------------------------------------------------------------------------
(* Functions defined by recursion.                                          *)

(* The values from the first one on, each made of the one before.           *)
Chain(first, F, n, f) == f = [i \in 0..n |-> IF i = 0 THEN first ELSE F[<<i, f[i - 1]>>]]

(* There are such values.                                                   *)
LEMMA ChainExists ==
  ASSUME NEW S, NEW first \in S, NEW F \in [Nat \X S -> S], NEW n \in Nat
  PROVE  \E f \in [0..n -> S] : Chain(first, F, n, f)
<1> DEFINE P == {k \in Nat : \E f \in [0..k -> S] : Chain(first, F, k, f)}
<1>1. 0 \in P
  <2> DEFINE f == [i \in 0..0 |-> first]
  <2>1. f \in [0..0 -> S] /\ Chain(first, F, 0, f)
    BY DEF Chain
  <2> QED BY <2>1
<1>2. ASSUME NEW k \in Nat, k \in P
      PROVE  k + 1 \in P
  <2>1. PICK f \in [0..k -> S] : Chain(first, F, k, f)
    BY <1>2
  <2>2. \A i \in 0..k : f[i] = IF i = 0 THEN first ELSE F[<<i, f[i - 1]>>]
    BY <2>1 DEF Chain
  <2> DEFINE last == F[<<k + 1, f[k]>>]
             next == [i \in 0..(k + 1) |-> IF i = k + 1 THEN last ELSE f[i]]
  <2>3. last \in S
    BY <2>1
  <2> HIDE DEF last
  <2>4. next \in [0..(k + 1) -> S] /\ next[k + 1] = last /\ \A i \in 0..k : next[i] = f[i]
    BY <2>3
  <2> HIDE DEF next
  <2>5. next[k + 1] = F[<<k + 1, next[k]>>]
    <3>1. next[k] = f[k]
      BY <2>4
    <3> QED BY <2>4, <3>1 DEF last
  <2>6. ASSUME NEW i \in 0..k
        PROVE  next[i] = IF i = 0 THEN first ELSE F[<<i, next[i - 1]>>]
    <3>1. i # 0 => i - 1 \in 0..k
      OBVIOUS
    <3>2. i # 0 => next[i - 1] = f[i - 1]
      BY <2>4, <3>1
    <3> QED BY <2>2, <2>4, <3>2
  <2>7. ASSUME NEW i \in 0..(k + 1)
        PROVE  next[i] = IF i = 0 THEN first ELSE F[<<i, next[i - 1]>>]
    <3>1. CASE i = k + 1
      <4>1. i - 1 = k /\ i # 0
        BY <3>1
      <4> QED BY <2>5, <3>1, <4>1
    <3>2. CASE i # k + 1
      <4>1. i \in 0..k
        BY <3>2
      <4> QED BY <2>6, <4>1
    <3> QED BY <3>1, <3>2
  <2>8. next = [i \in 0..(k + 1) |-> IF i = 0 THEN first ELSE F[<<i, next[i - 1]>>]]
    BY <2>4, <2>7
  <2>9. Chain(first, F, k + 1, next)
    BY <2>8 DEF Chain
  <2>10. \E g \in [0..(k + 1) -> S] : Chain(first, F, k + 1, g)
    BY <2>4, <2>9, Zenon
  <2> QED BY <2>10
<1> HIDE DEF P
<1>3. \A k \in Nat : k \in P
  BY <1>1, <1>2, InductionOverSet
<1> QED BY <1>3 DEF P

-----------------------------------------------------------------------------
(* The binary search.                                                       *)

(* The powers of two, and the indices that the search arrives at.           *)
Powers(n, power) == power = [k \in 0..n |-> IF k = 0 THEN 1 ELSE 2 * power[k - 1]]
Top2(n, power) ==
  CHOOSE k \in 0..n : power[k] > n /\ (k > 0 => power[k - 1] <= n)
Indices(list, dates, d, power, top, index) ==
  index = [n \in 0..(top + 1) |->
             IF n = 0 THEN 0
             ELSE LET next == index[n - 1] + power[top + 1 - n]
                  IN IF NotLater(list, dates, d, next) THEN next ELSE index[n - 1]]

(* The powers of two exist, and grow.                                       *)
LEMMA PowersExist ==
  ASSUME NEW n \in Nat
  PROVE  \E power : Powers(n, power)
<1> DEFINE F == [p \in Nat \X Nat |-> 2 * p[2]]
<1>1. F \in [Nat \X Nat -> Nat]
  OBVIOUS
<1>2. \A i, v \in Nat : F[<<i, v>>] = 2 * v
  OBVIOUS
<1> HIDE DEF F
<1>3. PICK f \in [0..n -> Nat] : Chain(1, F, n, f)
  BY <1>1, ChainExists
<1>4. \A i \in 0..n : f[i] = IF i = 0 THEN 1 ELSE 2 * f[i - 1]
  <2> SUFFICES ASSUME NEW i \in 0..n
               PROVE  f[i] = IF i = 0 THEN 1 ELSE 2 * f[i - 1]
    OBVIOUS
  <2>1. f[i] = IF i = 0 THEN 1 ELSE F[<<i, f[i - 1]>>]
    BY <1>3 DEF Chain
  <2>2. i # 0 => f[i - 1] \in Nat /\ i \in Nat
    OBVIOUS
  <2> QED BY <1>2, <2>1, <2>2
<1>5. f = [k \in 0..n |-> IF k = 0 THEN 1 ELSE 2 * f[k - 1]]
  BY <1>4
<1> QED BY <1>5 DEF Powers

LEMMA PowersGrow ==
  ASSUME NEW n \in Nat, NEW power, Powers(n, power)
  PROVE  /\ power \in [0..n -> Nat]
         /\ power[0] = 1
         /\ \A k \in 1..n : power[k] = 2 * power[k - 1]
         /\ \A k \in 0..n : power[k] > k
<1>1. /\ power[0] = 1
      /\ \A k \in 1..n : power[k] = 2 * power[k - 1]
      /\ power = [k \in 0..n |-> power[k]]
  BY DEF Powers
<1> DEFINE P == {k \in Nat : k <= n => power[k] \in Nat /\ power[k] > k}
<1>2. 0 \in P
  BY <1>1
<1>3. ASSUME NEW k \in Nat, k \in P
      PROVE  k + 1 \in P
  <2> SUFFICES ASSUME k + 1 <= n
               PROVE  power[k + 1] \in Nat /\ power[k + 1] > k + 1
    OBVIOUS
  <2>1. power[k] \in Nat /\ power[k] > k
    BY <1>3
  <2>2. k + 1 \in 1..n /\ (k + 1) - 1 = k
    OBVIOUS
  <2>3. power[k + 1] = 2 * power[k]
    BY <1>1, <2>2
  <2> QED BY <2>1, <2>3
<1> HIDE DEF P
<1>4. \A k \in Nat : k \in P
  BY <1>2, <1>3, InductionOverSet
<1>5. \A k \in 0..n : power[k] \in Nat /\ power[k] > k
  BY <1>4 DEF P
<1> QED BY <1>1, <1>5

(* The search starts with the least of them above the length.               *)
LEMMA TopPower ==
  ASSUME NEW n \in Nat, NEW power, Powers(n, power)
  PROVE  Top2(n, power) \in 0..n /\ power[Top2(n, power)] > n
<1> DEFINE T == {k \in 0..n : power[k] > n}
<1>1. power \in [0..n -> Nat] /\ \A k \in 0..n : power[k] > k
  BY PowersGrow
<1>2. n \in T
  BY <1>1
<1>3. T \in SUBSET Nat /\ T # {}
  BY <1>2
<1> HIDE DEF T
<1>4. PICK x \in T : \A y \in T : x <= y
  BY <1>3, LeastElement
<1>5. x \in 0..n /\ power[x] > n
  BY DEF T
<1>6. x > 0 => power[x - 1] <= n
  <2> SUFFICES ASSUME x > 0, ~(power[x - 1] <= n)
               PROVE  FALSE
    OBVIOUS
  <2>1. x - 1 \in 0..n /\ power[x - 1] \in Nat
    BY <1>1, <1>5
  <2>2. x - 1 \in T
    BY <2>1 DEF T
  <2> QED BY <1>4, <1>5, <2>2
<1> QED BY <1>5, <1>6 DEF Top2

LEMMA IndicesExist ==
  ASSUME NEW list, NEW dates, NEW d, NEW top \in Nat, NEW power \in [0..top -> Nat]
  PROVE  \E index : Indices(list, dates, d, power, top, index)
<1> DEFINE G(i, v) == v + IF i \in 1..(top + 1) THEN power[top + 1 - i] ELSE 0
           F == [p \in Nat \X Nat |-> IF NotLater(list, dates, d, G(p[1], p[2]))
                                      THEN G(p[1], p[2]) ELSE p[2]]
<1>1. \A i, v \in Nat : G(i, v) \in Nat
  <2> SUFFICES ASSUME NEW i \in Nat, NEW v \in Nat
               PROVE  G(i, v) \in Nat
    OBVIOUS
  <2>1. i \in 1..(top + 1) => top + 1 - i \in 0..top
    OBVIOUS
  <2> QED BY <2>1
<1> HIDE DEF G
<1>2. F \in [Nat \X Nat -> Nat]
  BY <1>1
<1>3. \A i, v \in Nat : F[<<i, v>>] = IF NotLater(list, dates, d, G(i, v)) THEN G(i, v) ELSE v
  OBVIOUS
<1> HIDE DEF F
<1>4. PICK f \in [0..(top + 1) -> Nat] : Chain(0, F, top + 1, f)
  <2>1. top + 1 \in Nat
    OBVIOUS
  <2> QED BY <1>2, <2>1, ChainExists
<1>5. ASSUME NEW n \in 0..(top + 1)
      PROVE  f[n] = IF n = 0 THEN 0
                    ELSE LET next == f[n - 1] + power[top + 1 - n]
                         IN IF NotLater(list, dates, d, next) THEN next ELSE f[n - 1]
  <2>1. f[n] = IF n = 0 THEN 0 ELSE F[<<n, f[n - 1]>>]
    BY <1>4 DEF Chain
  <2>2. CASE n # 0
    <3>1. f[n - 1] \in Nat /\ n \in Nat /\ n \in 1..(top + 1)
      BY <2>2
    <3>2. G(n, f[n - 1]) = f[n - 1] + power[top + 1 - n]
      BY <3>1 DEF G
    <3>3. F[<<n, f[n - 1]>>] = IF NotLater(list, dates, d, G(n, f[n - 1]))
                                 THEN G(n, f[n - 1]) ELSE f[n - 1]
      BY <1>3, <3>1
    <3> QED BY <2>1, <2>2, <3>2, <3>3
  <2> QED BY <2>1, <2>2
<1>6. f = [n \in 0..(top + 1) |->
             IF n = 0 THEN 0
             ELSE LET next == f[n - 1] + power[top + 1 - n]
                  IN IF NotLater(list, dates, d, next) THEN next ELSE f[n - 1]]
  BY <1>5
<1> QED BY <1>6 DEF Indices

(* A search over any list finds no index, or one that is not later; and over *)
(* a sorted one, none that is not later is behind it.                       *)
LEMMA SearchFinds ==
  ASSUME NEW S, NEW list \in Seq(S), NEW dates, NEW d
  PROVE  /\ Search(list, dates, d) \in Nat
         /\ Search(list, dates, d) = 0 \/ NotLater(list, dates, d, Search(list, dates, d))
         /\ (\A i, j \in Nat : i <= j /\ NotLater(list, dates, d, j)
                                 => NotLater(list, dates, d, i))
              => \A i \in Nat : NotLater(list, dates, d, i) => i <= Search(list, dates, d)
<1> DEFINE len == Len(list)
           power == CHOOSE f : Powers(len, f)
           top == Top2(len, power)
           index == CHOOSE f : Indices(list, dates, d, power, top, f)
           Near(i) == NotLater(list, dates, d, i)
           Sorted == \A i, j \in Nat : i <= j /\ Near(j) => Near(i)
<1>1. Search(list, dates, d) = index[top + 1]
  BY DEF Search, Powers, Top2, Indices
<1>2. len \in Nat
  BY LenProperties
<1> HIDE DEF len
<1>3. Powers(len, power)
  BY <1>2, PowersExist
<1> HIDE DEF power
<1>4. top \in 0..len /\ power[top] > len
  BY <1>2, <1>3, TopPower
<1>5. /\ \A k \in 0..len : power[k] \in Nat
      /\ power[0] = 1
      /\ \A k \in 1..len : power[k] = 2 * power[k - 1]
  BY <1>2, <1>3, PowersGrow
<1> HIDE DEF top
<1>6. Indices(list, dates, d, power, top, index)
  <2> DEFINE part == [k \in 0..top |-> power[k]]
  <2>1. part \in [0..top -> Nat]
    BY <1>2, <1>4, <1>5
  <2>2. \A k \in 0..top : part[k] = power[k]
    OBVIOUS
  <2> HIDE DEF part
  <2>3. PICK f : Indices(list, dates, d, part, top, f)
    BY <1>2, <1>4, <2>1, IndicesExist
  <2>4. ASSUME NEW n \in 0..(top + 1), n # 0
        PROVE  part[top + 1 - n] = power[top + 1 - n]
    <3>1. top + 1 - n \in 0..top
      BY <1>2, <1>4, <2>4
    <3> QED BY <2>2, <3>1
  <2>5. Indices(list, dates, d, power, top, f)
    BY <2>3, <2>4 DEF Indices
  <2> QED BY <2>5
<1>7. /\ index[0] = 0
      /\ \A n \in 1..(top + 1) :
           index[n] = IF Near(index[n - 1] + power[top + 1 - n])
                      THEN index[n - 1] + power[top + 1 - n] ELSE index[n - 1]
  <2> HIDE DEF index
  <2>1. top + 1 \in Nat
    BY <1>2, <1>4
  <2>2. ASSUME NEW n \in 0..(top + 1)
        PROVE  index[n] = IF n = 0 THEN 0
                          ELSE IF Near(index[n - 1] + power[top + 1 - n])
                               THEN index[n - 1] + power[top + 1 - n] ELSE index[n - 1]
    BY <1>6, Zenon DEF Indices
  <2>3. 0 \in 0..(top + 1) /\ \A n \in 1..(top + 1) : n \in 0..(top + 1) /\ n # 0
    BY <2>1
  <2> QED BY <2>2, <2>3
<1> HIDE DEF index
<1>8. \A i \in Nat : Near(i) => i < len
  BY DEF NotLater, len
<1> HIDE DEF Near
<1> DEFINE Width(n) == IF n = 0 THEN 2 * power[top] ELSE power[top + 1 - n]
           Good(n) == /\ index[n] \in Nat
                      /\ index[n] = 0 \/ Near(index[n])
                      /\ Sorted => \A i \in Nat : Near(i) => i < index[n] + Width(n)
           P == {n \in Nat : n <= top + 1 => Good(n)}
<1> HIDE DEF Sorted
<1>9. 0 \in P
  <2>1. power[top] \in Nat
    BY <1>4, <1>5
  <2>2. \A i \in Nat : Near(i) => i < 0 + 2 * power[top]
    BY <1>2, <1>4, <1>8, <2>1
  <2> QED BY <1>7, <2>2
<1>10. ASSUME NEW n \in Nat, n \in P
       PROVE  n + 1 \in P
  <2> SUFFICES ASSUME n + 1 <= top + 1
               PROVE  Good(n + 1)
    OBVIOUS
  <2>1. Good(n) /\ n <= top
    BY <1>2, <1>4, <1>10
  <2> DEFINE k == top - n
             add == power[k]
  <2>2. k \in 0..len /\ top + 1 - (n + 1) = k /\ (n + 1) - 1 = n /\ n + 1 \in 1..(top + 1)
    BY <1>2, <1>4, <2>1
  <2>3. add \in Nat
    BY <1>5, <2>2
  <2>4. Width(n + 1) = add
    BY <2>2
  <2>5. Width(n) = 2 * add
    <3>1. CASE n = 0
      BY <1>2, <1>4, <3>1
    <3>2. CASE n # 0
      <4>1. k + 1 \in 1..len /\ top + 1 - n = k + 1 /\ (k + 1) - 1 = k
        BY <1>2, <1>4, <2>1, <3>2
      <4> QED BY <1>5, <3>2, <4>1
    <3> QED BY <3>1, <3>2
  <2>6. index[n + 1] = IF Near(index[n] + add) THEN index[n] + add ELSE index[n]
    BY <1>7, <2>2
  <2>7. /\ index[n] \in Nat
        /\ index[n] = 0 \/ Near(index[n])
        /\ Sorted => \A i \in Nat : Near(i) => i < index[n] + 2 * add
    BY <2>1, <2>5
  <2> HIDE DEF k, Width
  <2>8. CASE Near(index[n] + add)
    <3>1. index[n + 1] = index[n] + add /\ index[n + 1] \in Nat
      BY <2>3, <2>6, <2>7, <2>8
    <3>2. Sorted => \A i \in Nat : Near(i) => i < index[n + 1] + add
      BY <2>3, <2>7, <3>1
    <3> QED BY <2>4, <2>8, <3>1, <3>2
  <2>9. CASE ~Near(index[n] + add)
    <3>1. index[n + 1] = index[n]
      BY <2>6, <2>9
    <3>2. ASSUME Sorted, NEW i \in Nat, Near(i)
          PROVE  i < index[n] + add
      <4>1. index[n] + add \in Nat
        BY <2>3, <2>7
      <4>2. ~(index[n] + add <= i)
        BY <2>9, <3>2, <4>1 DEF Sorted
      <4> QED BY <4>1, <4>2
    <3> QED BY <2>4, <2>7, <3>1, <3>2
  <2> QED BY <2>8, <2>9
<1> HIDE DEF P, Good
<1>11. top + 1 \in Nat
  BY <1>2, <1>4
<1>12. Good(top + 1)
  <2>1. \A n \in Nat : n \in P
    BY <1>9, <1>10, InductionOverSet
  <2> QED BY <1>11, <2>1 DEF P
<1>13. Width(top + 1) = 1
  BY <1>2, <1>4, <1>5
<1>14. /\ index[top + 1] \in Nat
       /\ index[top + 1] = 0 \/ Near(index[top + 1])
       /\ Sorted => \A i \in Nat : Near(i) => i <= index[top + 1]
  BY <1>12, <1>13 DEF Good
<1> QED BY <1>1, <1>14 DEF Near, Sorted

-----------------------------------------------------------------------------
(* Lists of timers.                                                         *)

(* A list has each of its timers once, in the order of the dates.           *)
Listing(list, dates) ==
  \A i, j \in DOMAIN list : i < j => list[i] # list[j] /\ dates[list[i]] <= dates[list[j]]

(* The binary search finds the number of timers that are not later.         *)
LEMMA InsertionIndexCounts ==
  ASSUME NEW list \in Seq(Timers), NEW dates \in [Timers -> Nat], NEW d \in Nat
  PROVE  /\ InsertionIndex(list, dates, d) \in 0..Len(list)
         /\ Listing(list, dates) =>
              \A i \in 1..Len(list) : dates[list[i]] <= d <=> i <= InsertionIndex(list, dates, d)
<1> DEFINE last == Search(list, dates, d)
           r == InsertionIndex(list, dates, d)
           len == Len(list)
           Near(i) == NotLater(list, dates, d, i)
<1>1. len \in Nat /\ DOMAIN list = 1..len /\ \A i \in 1..len : list[i] \in Timers
  BY LenProperties
<1>2. \A i \in Nat : Near(i) <=> i < len /\ dates[list[i + 1]] <= d
  BY DEF NotLater
<1>3. /\ last \in Nat
      /\ last = 0 \/ Near(last)
      /\ (\A i, j \in Nat : i <= j /\ Near(j) => Near(i)) =>
            \A i \in Nat : Near(i) => i <= last
  BY SearchFinds
<1>4. r = IF Near(last) THEN last + 1 ELSE last
  BY DEF InsertionIndex
<1> HIDE DEF last, r, len, Near
<1>5. r \in 0..len
  BY <1>1, <1>2, <1>3, <1>4
<1>6. ASSUME Listing(list, dates)
      PROVE  \A i, j \in Nat : i <= j /\ Near(j) => Near(i)
  <2> SUFFICES ASSUME NEW i \in Nat, NEW j \in Nat, i < j, Near(j)
               PROVE  Near(i)
    OBVIOUS
  <2>1. j < len /\ dates[list[j + 1]] <= d
    BY <1>2
  <2>2. i + 1 \in 1..len /\ j + 1 \in 1..len /\ i + 1 < j + 1
    BY <1>1, <2>1
  <2>3. dates[list[i + 1]] <= dates[list[j + 1]]
    BY <1>1, <1>6, <2>2 DEF Listing
  <2>4. dates[list[i + 1]] \in Nat /\ dates[list[j + 1]] \in Nat
    BY <1>1, <2>2
  <2>5. dates[list[i + 1]] <= d /\ i < len
    BY <2>1, <2>2, <2>3, <2>4, <1>1
  <2> QED BY <1>2, <2>5
<1>7. ASSUME Listing(list, dates), NEW i \in 1..len
      PROVE  dates[list[i]] <= d <=> i <= r
  <2>1. i - 1 \in Nat /\ (i - 1) + 1 = i /\ i - 1 < len
    BY <1>1, <1>7
  <2>2. dates[list[i]] <= d <=> Near(i - 1)
    BY <1>2, <2>1
  <2>3. Near(i - 1) => i - 1 <= last /\ Near(last)
    BY <1>3, <1>6, <1>7, <2>1
  <2>4. Near(last) /\ i - 1 <= last => Near(i - 1)
    BY <1>3, <1>6, <1>7, <2>1
  <2> QED BY <1>3, <1>4, <1>7, <2>1, <2>2, <2>3, <2>4
<1> QED BY <1>5, <1>7 DEF r, len

(* What InsertAt returns.                                                   *)
LEMMA InsertAtProperties ==
  ASSUME NEW S, NEW list \in Seq(S), NEW e \in S, NEW p \in 1..(Len(list) + 1)
  PROVE  /\ InsertAt(list, p, e) \in Seq(S)
         /\ Len(InsertAt(list, p, e)) = Len(list) + 1
         /\ \A i \in 1..(Len(list) + 1) :
              InsertAt(list, p, e)[i] =
                IF i < p THEN list[i] ELSE IF i = p THEN e ELSE list[i - 1]
<1> DEFINE len == Len(list)
           front == SubSeq(list, 1, p - 1)
           back == SubSeq(list, p, len)
           whole == (front \o <<e>>) \o back
<1>1. len \in Nat /\ p \in 1..(len + 1) /\ DOMAIN list = 1..len
  BY LenProperties
<1>2. InsertAt(list, p, e) = whole
  BY DEF InsertAt
<1>3. \A i \in 1..len : list[i] \in S
  BY <1>1, ElementOfSeq
<1>4. /\ front \in Seq(S) /\ Len(front) = p - 1
      /\ \A i \in 1..(p - 1) : front[i] = list[i]
  <2>1. p - 1 \in Nat /\ \A i \in 1..(p - 1) : list[i] \in S
    BY <1>1, <1>3
  <2>2. p - 1 \in 0..len
    BY <1>1
  <2> QED BY <1>1, <2>1, <2>2, SubSeqProperties
<1>5. /\ back \in Seq(S) /\ Len(back) = len + 1 - p
      /\ \A i \in 1..(len + 1 - p) : back[i] = list[p + i - 1]
  <2>1. \A i \in p..len : list[i] \in S
    BY <1>1, <1>3
  <2> QED BY <1>1, <2>1, SubSeqProperties
<1> HIDE DEF front, back
<1>6. <<e>> \in Seq(S) /\ Len(<<e>>) = 1 /\ <<e>>[1] = e
  OBVIOUS
<1>7. /\ front \o <<e>> \in Seq(S) /\ Len(front \o <<e>>) = p
      /\ \A i \in 1..p : (front \o <<e>>)[i] = IF i < p THEN list[i] ELSE e
  <2>1. /\ front \o <<e>> \in Seq(S) /\ Len(front \o <<e>>) = (p - 1) + 1
        /\ \A i \in 1..((p - 1) + 1) :
             (front \o <<e>>)[i] = IF i <= p - 1 THEN front[i] ELSE <<e>>[i - (p - 1)]
    BY <1>4, <1>6, ConcatProperties
  <2>2. (p - 1) + 1 = p /\ p - (p - 1) = 1
    BY <1>1
  <2> QED BY <1>1, <1>4, <1>6, <2>1, <2>2
<1>8. /\ whole \in Seq(S) /\ Len(whole) = len + 1
      /\ \A i \in 1..(len + 1) :
           whole[i] = IF i <= p THEN (front \o <<e>>)[i] ELSE back[i - p]
  <2> DEFINE begin == front \o <<e>>
  <2>1. begin \in Seq(S) /\ Len(begin) = p
    BY <1>7
  <2> HIDE DEF begin
  <2>2. /\ begin \o back \in Seq(S)
        /\ Len(begin \o back) = Len(begin) + Len(back)
        /\ \A i \in 1..(Len(begin) + Len(back)) :
             (begin \o back)[i] = IF i <= Len(begin) THEN begin[i] ELSE back[i - Len(begin)]
    BY <1>5, <2>1, ConcatProperties
  <2>3. Len(begin) + Len(back) = len + 1
    BY <1>1, <1>5, <2>1
  <2>4. whole = begin \o back
    BY DEF begin
  <2> HIDE DEF whole
  <2>5. /\ whole \in Seq(S) /\ Len(whole) = len + 1
        /\ \A i \in 1..(len + 1) :
             whole[i] = IF i <= p THEN begin[i] ELSE back[i - p]
    BY <2>1, <2>2, <2>3, <2>4
  <2> QED BY <2>5 DEF begin
<1> HIDE DEF whole
<1>10. ASSUME NEW i \in 1..(len + 1)
       PROVE  whole[i] = IF i < p THEN list[i] ELSE IF i = p THEN e ELSE list[i - 1]
  <2>1. whole[i] = IF i <= p THEN (front \o <<e>>)[i] ELSE back[i - p]
    BY <1>8
  <2>2. CASE i <= p
    BY <1>1, <1>7, <2>1, <2>2
  <2>3. CASE ~(i <= p)
    <3>1. i - p \in 1..(len + 1 - p) /\ p + (i - p) - 1 = i - 1
      BY <1>1, <2>3
    <3> QED BY <1>1, <1>5, <2>1, <2>3, <3>1
  <2> QED BY <2>2, <2>3
<1> QED BY <1>2, <1>8, <1>10

(* A timer that is inserted is in the list, which stays sorted.             *)
LEMMA InsertedProperties ==
  ASSUME NEW list \in Seq(Timers), NEW t \in Timers, NEW dates \in [Timers -> Nat]
  PROVE  /\ Inserted(list, t, dates) \in Seq(Timers)
         /\ ToSet(Inserted(list, t, dates)) = ToSet(list) \cup {t}
         /\ Listing(list, dates) /\ t \notin ToSet(list) => Listing(Inserted(list, t, dates), dates)
<1> DEFINE len == Len(list)
           r == InsertionIndex(list, dates, dates[t])
           new == Inserted(list, t, dates)
<1>1. dates[t] \in Nat
  OBVIOUS
<1>2. len \in Nat /\ DOMAIN list = 1..len /\ \A i \in 1..len : list[i] \in Timers
  BY LenProperties
<1>3. /\ r \in 0..len
      /\ Listing(list, dates) => \A i \in 1..len : dates[list[i]] <= dates[t] <=> i <= r
  BY <1>1, InsertionIndexCounts
<1>4. new = InsertAt(list, r + 1, t)
  BY DEF Inserted
<1> HIDE DEF len, r, new
<1>5. r + 1 \in 1..(len + 1)
  BY <1>2, <1>3
<1>6. /\ new \in Seq(Timers) /\ Len(new) = len + 1
      /\ \A i \in 1..(len + 1) :
           new[i] = IF i < r + 1 THEN list[i] ELSE IF i = r + 1 THEN t ELSE list[i - 1]
  <2>1. PICK p \in 1..(Len(list) + 1) : p = r + 1
    BY <1>5 DEF len
  <2>2. /\ InsertAt(list, p, t) \in Seq(Timers)
        /\ Len(InsertAt(list, p, t)) = Len(list) + 1
        /\ \A i \in 1..(Len(list) + 1) :
             InsertAt(list, p, t)[i] =
               IF i < p THEN list[i] ELSE IF i = p THEN t ELSE list[i - 1]
    BY InsertAtProperties
  <2> QED BY <1>4, <2>1, <2>2 DEF len
<1>7. DOMAIN new = 1..(len + 1)
  BY <1>6, LenProperties
<1>8. ToSet(new) \subseteq ToSet(list) \cup {t}
  <2> SUFFICES ASSUME NEW i \in 1..(len + 1)
               PROVE  new[i] \in ToSet(list) \cup {t}
    BY <1>7 DEF ToSet
  <2>1. i < r + 1 => i \in 1..len
    BY <1>2, <1>3
  <2>2. i > r + 1 => i - 1 \in 1..len
    BY <1>2, <1>3
  <2>3. i < r + 1 \/ i = r + 1 \/ i > r + 1
    BY <1>2, <1>3
  <2> QED BY <1>2, <1>3, <1>6, <2>1, <2>2, <2>3 DEF ToSet
<1>9. ToSet(list) \cup {t} \subseteq ToSet(new)
  <2>1. new[r + 1] = t /\ r + 1 \in DOMAIN new
    BY <1>3, <1>5, <1>6, <1>7
  <2>2. ASSUME NEW i \in 1..len
        PROVE  \E k \in 1..(len + 1) : new[k] = list[i]
    <3>1. CASE i < r + 1
      <4>1. i \in 1..(len + 1) /\ new[i] = list[i]
        BY <1>2, <1>3, <1>6, <3>1
      <4> QED BY <4>1
    <3>2. CASE ~(i < r + 1)
      <4>1. i + 1 \in 1..(len + 1) /\ ~(i + 1 < r + 1) /\ i + 1 # r + 1 /\ (i + 1) - 1 = i
        BY <1>2, <1>3, <3>2
      <4>2. new[i + 1] = list[i]
        BY <1>6, <4>1
      <4> QED BY <4>1, <4>2
    <3> QED BY <3>1, <3>2
  <2> QED BY <1>2, <1>7, <2>1, <2>2 DEF ToSet
<1>10. ASSUME Listing(list, dates), t \notin ToSet(list)
       PROVE  Listing(new, dates)
  <2> SUFFICES ASSUME NEW i \in 1..(len + 1), NEW j \in 1..(len + 1), i < j
               PROVE  new[i] # new[j] /\ dates[new[i]] <= dates[new[j]]
    BY <1>7 DEF Listing
  <2>1. \A k \in 1..len : list[k] # t
    BY <1>2, <1>10 DEF ToSet
  <2>2. \A k, l \in 1..len : k < l => list[k] # list[l] /\ dates[list[k]] <= dates[list[l]]
    BY <1>2, <1>10 DEF Listing
  <2>3. \A k \in 1..len : dates[list[k]] <= dates[t] <=> k <= r
    BY <1>3, <1>10
  <2>4. \A k \in 1..len : dates[list[k]] \in Nat
    BY <1>2
  <2>5. CASE j < r + 1
    <3>1. i \in 1..len /\ j \in 1..len /\ new[i] = list[i] /\ new[j] = list[j]
      BY <1>2, <1>3, <1>6, <2>5
    <3> QED BY <2>2, <3>1
  <2>6. CASE j = r + 1
    <3>1. i \in 1..len /\ new[i] = list[i] /\ new[j] = t /\ i <= r
      BY <1>2, <1>3, <1>6, <2>6
    <3> QED BY <2>1, <2>3, <3>1
  <2>7. CASE j > r + 1
    <3>1. j - 1 \in 1..len /\ new[j] = list[j - 1] /\ ~(j - 1 <= r)
      BY <1>2, <1>3, <1>6, <2>7
    <3>2. CASE i < r + 1
      <4>1. i \in 1..len /\ new[i] = list[i] /\ i < j - 1
        BY <1>2, <1>3, <1>6, <2>7, <3>2
      <4> QED BY <2>2, <3>1, <4>1
    <3>3. CASE i = r + 1
      <4>1. new[i] = t
        BY <1>6, <3>3
      <4>2. dates[t] <= dates[list[j - 1]]
        BY <1>1, <2>3, <2>4, <3>1
      <4> QED BY <2>1, <3>1, <4>1, <4>2
    <3>4. CASE i > r + 1
      <4>1. i - 1 \in 1..len /\ new[i] = list[i - 1] /\ i - 1 < j - 1
        BY <1>2, <1>3, <1>6, <2>7, <3>4
      <4> QED BY <2>2, <3>1, <4>1
    <3>5. i < r + 1 \/ i = r + 1 \/ i > r + 1
      BY <1>2, <1>3
    <3> QED BY <3>2, <3>3, <3>4, <3>5
  <2>8. j < r + 1 \/ j = r + 1 \/ j > r + 1
    BY <1>2, <1>3
  <2> QED BY <2>5, <2>6, <2>7, <2>8
<1> QED BY <1>6, <1>8, <1>9, <1>10 DEF new

(* A list without some of its timers is sorted, also by dates that differ only *)
(* in those.                                                                *)
LEMMA WithoutKeepsListing ==
  ASSUME NEW list \in Seq(Timers), NEW t, NEW dates, NEW next,
         \A u \in Timers : u # t => next[u] = dates[u],
         Listing(list, dates)
  PROVE  Listing(Without(list, t), next)
<1> DEFINE set == ToSet(list) \ {t}
           R == {p \in Timers \X Timers : p[1] # p[2] /\ next[p[1]] <= next[p[2]]}
<1>1. DOMAIN list = 1..Len(list) /\ \A i \in DOMAIN list : list[i] \in Timers
  BY LenProperties
<1>2. \A i, j \in DOMAIN list :
        i < j /\ list[i] \in set /\ list[j] \in set => <<list[i], list[j]>> \in R
  BY <1>1 DEF Listing
<1>3. \A i, j \in DOMAIN Among(list, set) :
        i < j => <<Among(list, set)[i], Among(list, set)[j]>> \in R
  <2> HIDE DEF R, set
  <2> QED BY <1>2, AmongKeepsOrder
<1> QED BY <1>3 DEF Without, Listing

-----------------------------------------------------------------------------
(* Types.  A run in a callout has a timer, whose date it remembers; and a    *)
(* timer that does not repeat is not valid when its callout has returned.    *)

Busy(run) == run.at \in {"callout", "served"}
RunOK(run) ==
  Busy(run) =>
    /\ run.todo # <<>>
    /\ run.old <= now
    /\ run.at = "served" /\ Interval[Head(run.todo)] = 0 => Head(run.todo) \notin valid

Shape == TypeOK /\ \A d \in DOMAIN runs : RunOK(runs[d])

(* A set of numbers with a bound has a greatest.                            *)
LEMMA GreatestElement ==
  ASSUME NEW n \in Nat, NEW T \in SUBSET (1..n), T # {}
  PROVE  Max(T) \in T /\ \A y \in T : y <= Max(T)
<1> DEFINE U == {n - x : x \in T}
<1>1. U \in SUBSET Nat /\ U # {}
  OBVIOUS
<1>2. PICK u \in U : \A v \in U : u <= v
  <2> HIDE DEF U
  <2> QED BY <1>1, LeastElement
<1>3. PICK x \in T : u = n - x
  BY <1>2
<1>4. \A y \in T : n - y \in U
  OBVIOUS
<1> HIDE DEF U
<1>5. \A y \in T : x >= y
  <2> SUFFICES ASSUME NEW y \in T
               PROVE  x >= y
    OBVIOUS
  <2>1. n - x <= n - y
    BY <1>2, <1>3, <1>4
  <2> QED BY <2>1
<1>6. Max(T) \in T /\ \A y \in T : Max(T) >= y
  BY <1>5 DEF Max
<1> QED BY <1>6

(* The deadline of a mode is a date of one of its timers, or none.          *)
LEMMA NextDeadlineType ==
  ASSUME NEW list \in Seq(Timers), NEW dates \in [Timers -> Nat], NEW busy
  PROVE  NextDeadline(list, dates, busy) \in Nat \cup {Never}
<1> DEFINE idle == Among(list, Timers \ busy)
           falls(k) == \A i \in 1..(k - 1) : dates[idle[i + 1]] <= dates[idle[i]]
           T == {k \in DOMAIN idle : falls(k)}
<1>1. NextDeadline(list, dates, busy) = IF idle = <<>> THEN Never ELSE dates[idle[Max(T)]]
  BY DEF NextDeadline
<1>2. idle \in Seq(Timers)
  BY AmongProperties
<1> HIDE DEF idle
<1>3. Len(idle) \in Nat /\ DOMAIN idle = 1..Len(idle) /\ \A i \in DOMAIN idle : idle[i] \in Timers
  BY <1>2, LenProperties
<1>4. ASSUME idle # <<>>
      PROVE  Max(T) \in DOMAIN idle
  <2>1. 1 \in DOMAIN idle
    BY <1>2, <1>3, <1>4, EmptySeq
  <2>2. falls(1)
    OBVIOUS
  <2>3. T \in SUBSET (1..Len(idle)) /\ T # {}
    BY <1>3, <2>1, <2>2
  <2> HIDE DEF T
  <2>4. Max(T) \in T
    BY <1>3, <2>3, GreatestElement
  <2> QED BY <1>3, <2>3, <2>4
<1> HIDE DEF T
<1> QED BY <1>1, <1>3, <1>4

(* Arming keeps the types.                                                  *)
LEMMA ArmType ==
  ASSUME TypeOK, NEW ms, NEW lists \in [Modes -> Seq(Timers)], NEW dates \in [Timers -> Nat],
         NEW busy, NEW recorded \in [Modes -> Nat \cup {Never}], Arm(ms, lists, dates, busy, recorded)
  PROVE  /\ timers' = lists
         /\ timers' \in [Modes -> Seq(Timers)]
         /\ deadline' \in [Modes -> Nat \cup {Never}]
         /\ armed' \in [Modes -> Nat \cup {Never}]
<1> DEFINE next(m) == NextDeadline(lists[m], dates, busy)
<1>1. \A m \in Modes : next(m) \in Nat \cup {Never}
  BY NextDeadlineType
<1>2. /\ timers' = lists
      /\ deadline' = [m \in Modes |-> IF m \in ms THEN next(m) ELSE recorded[m]]
      /\ armed' = [m \in Modes |->
                     IF m \in ms THEN Armed(next(m), recorded[m], armed[m]) ELSE armed[m]]
  BY DEF Arm
<1> HIDE DEF next
<1>3. armed \in [Modes -> Nat \cup {Never}]
  BY DEF TypeOK
<1> QED BY <1>1, <1>2, <1>3 DEF Armed

(* A timer that is moved, and one that is removed, in some modes.           *)
LEMMA MovedLists ==
  ASSUME TypeOK, NEW ms, NEW t \in Timers, NEW dates \in [Timers -> Nat]
  PROVE  [m \in Modes |-> IF m \in ms THEN Inserted(Without(timers[m], t), t, dates)
                          ELSE timers[m]] \in [Modes -> Seq(Timers)]
<1> SUFFICES ASSUME NEW m \in Modes
             PROVE  Inserted(Without(timers[m], t), t, dates) \in Seq(Timers)
                    /\ timers[m] \in Seq(Timers)
  OBVIOUS
<1>1. timers[m] \in Seq(Timers)
  BY DEF TypeOK
<1>2. Without(timers[m], t) \in Seq(Timers)
  BY <1>1, WithoutProperties
<1> QED BY <1>1, <1>2, InsertedProperties

LEMMA RemovedLists ==
  ASSUME TypeOK, NEW ms, NEW t
  PROVE  [m \in Modes |-> IF m \in ms THEN Without(timers[m], t) ELSE timers[m]]
           \in [Modes -> Seq(Timers)]
<1> SUFFICES ASSUME NEW m \in Modes
             PROVE  Without(timers[m], t) \in Seq(Timers) /\ timers[m] \in Seq(Timers)
  OBVIOUS
<1>1. timers[m] \in Seq(Timers)
  BY DEF TypeOK
<1> QED BY <1>1, WithoutProperties

-----------------------------------------------------------------------------
(* The stack of runs.                                                       *)

(* The innermost run.                                                       *)
LEMMA TopIsRun ==
  ASSUME Shape, Running
  PROVE  /\ Len(runs) \in Nat \ {0}
         /\ DOMAIN runs = 1..Len(runs)
         /\ Len(runs) \in DOMAIN runs
         /\ Top \in RunType
         /\ RunOK(Top)
<1>1. runs \in Seq(RunType)
  BY DEF Shape, TypeOK
<1>2. Len(runs) \in Nat \ {0} /\ DOMAIN runs = 1..Len(runs)
  BY <1>1, EmptySeq, LenProperties DEF Running
<1>3. Len(runs) \in 1..Len(runs)
  BY <1>2
<1> QED BY <1>1, <1>2, <1>3, ElementOfSeq DEF Shape, Top

(* SetTop replaces the last run and leaves the others.                      *)
LEMMA TopReplaced ==
  ASSUME Shape, Running, NEW run \in RunType, SetTop(run)
  PROVE  /\ runs' \in Seq(RunType)
         /\ DOMAIN runs' = DOMAIN runs
         /\ Len(runs') = Len(runs)
         /\ \A d \in DOMAIN runs : runs'[d] = IF d = Len(runs) THEN run ELSE runs[d]
<1>1. runs \in Seq(RunType) /\ Len(runs) \in 1..Len(runs) /\ DOMAIN runs = 1..Len(runs)
  BY TopIsRun DEF Shape, TypeOK
<1>2. runs' = [runs EXCEPT ![Len(runs)] = run]
  BY DEF SetTop
<1>3. /\ runs' \in Seq(RunType)
      /\ Len(runs') = Len(runs)
      /\ \A d \in 1..Len(runs) : runs'[d] = IF d = Len(runs) THEN run ELSE runs[d]
  BY <1>1, <1>2, ExceptSeq
<1>4. DOMAIN runs' = 1..Len(runs)
  BY <1>3, LenProperties
<1> QED BY <1>1, <1>3, <1>4

(* Returning from a run.                                                    *)
LEMMA Popped ==
  ASSUME Shape, Running, runs' = SubSeq(runs, 1, Len(runs) - 1)
  PROVE  /\ runs' \in Seq(RunType)
         /\ DOMAIN runs' = 1..(Len(runs) - 1)
         /\ \A d \in DOMAIN runs' : d \in DOMAIN runs /\ runs'[d] = runs[d]
<1>1. runs \in Seq(RunType) /\ Len(runs) \in Nat \ {0} /\ DOMAIN runs = 1..Len(runs)
  BY TopIsRun DEF Shape, TypeOK
<1>2. \A d \in 1..(Len(runs) - 1) : runs[d] \in RunType
  BY <1>1, ElementOfSeq
<1>3. runs' \in Seq(RunType) /\ Len(runs') = Len(runs) - 1
  BY <1>1, <1>2, SubSeqProperties
<1>4. DOMAIN runs' = 1..(Len(runs) - 1)
  BY <1>3, LenProperties
<1>5. \A d \in DOMAIN runs' : d \in DOMAIN runs /\ runs'[d] = runs[d]
  BY <1>1, <1>3, <1>4, SubSeqProperties
<1> QED BY <1>3, <1>4, <1>5

(* A run that starts.                                                       *)
LEMMA Pushed ==
  ASSUME Shape, NEW run \in RunType, runs' = Append(runs, run)
  PROVE  /\ runs' \in Seq(RunType)
         /\ Len(runs) \in Nat /\ DOMAIN runs = 1..Len(runs)
         /\ DOMAIN runs' = 1..(Len(runs) + 1)
         /\ runs'[Len(runs) + 1] = run
         /\ \A d \in DOMAIN runs : runs'[d] = runs[d]
<1>1. runs \in Seq(RunType)
  BY DEF Shape, TypeOK
<1>2. Len(runs) \in Nat /\ DOMAIN runs = 1..Len(runs)
  BY <1>1, LenProperties
<1>3. /\ runs' \in Seq(RunType)
      /\ Len(runs') = Len(runs) + 1
      /\ runs'[Len(runs) + 1] = run
      /\ \A d \in 1..Len(runs) : runs'[d] = runs[d]
  BY <1>1, AppendProperties
<1>4. DOMAIN runs' = 1..(Len(runs) + 1)
  BY <1>3, LenProperties
<1> QED BY <1>2, <1>3, <1>4

(* A step that gives the innermost run a good shape keeps that of the stack, *)
(* as time passes and timers become invalid.                                *)
LEMMA StackKeepsShape ==
  ASSUME Shape, Running, NEW run \in RunType, RunOK(run)', SetTop(run),
         now' = now, valid' \subseteq valid
  PROVE  /\ runs' \in Seq(RunType)
         /\ \A d \in DOMAIN runs' : RunOK(runs[d])'
<1>1. /\ runs' \in Seq(RunType)
      /\ DOMAIN runs' = DOMAIN runs
      /\ \A d \in DOMAIN runs : runs'[d] = IF d = Len(runs) THEN run ELSE runs[d]
  BY TopReplaced
<1>2. ASSUME NEW d \in DOMAIN runs
      PROVE  RunOK(runs[d])'
  <2>1. CASE d = Len(runs)
    BY <1>1, <2>1 DEF RunOK, Busy
  <2>2. CASE d # Len(runs)
    <3>1. RunOK(runs[d]) /\ runs'[d] = runs[d]
      BY <1>1, <2>2 DEF Shape
    <3> QED BY <3>1 DEF RunOK, Busy
  <2> QED BY <2>1, <2>2
<1> QED BY <1>1, <1>2

-----------------------------------------------------------------------------
(* Every step keeps the types.                                              *)

(* The next date of a timer is later by whole periods, and the first that    *)
(* has not passed.                                                          *)
LEMMA NextDateIsLater ==
  ASSUME now \in Nat, NEW old \in Nat, old <= now, NEW i \in Nat \ {0}
  PROVE  /\ NextDate(old, i) \in Nat
         /\ NextDate(old, i) <= now + i
         /\ \E q \in Nat \ {0} : NextDate(old, i) = old + q * i
<1> DEFINE q == (now - old) \div i
<1>1. now - old \in Nat /\ i > 0
  OBVIOUS
<1>2. q \in Nat /\ i * q <= now - old
  BY <1>1
<1>3. NextDate(old, i) = old + i * (q + 1)
  BY DEF NextDate
<1> HIDE DEF q
<1>4. i * (q + 1) = i * q + i /\ (q + 1) * i = i * (q + 1) /\ i * q \in Nat
  BY <1>2
<1>5. q + 1 \in Nat \ {0}
  BY <1>2
<1> QED BY <1>1, <1>2, <1>3, <1>4, <1>5

LEMMA InitShape == Init => Shape
<1> SUFFICES ASSUME Init PROVE Shape
  OBVIOUS
<1>1. \A t \in Timers : First[t] \in Nat /\ First[t] <= MaxTime
  BY TimerConstants DEF Instants
<1>2. now \in Instants /\ date \in [Timers -> Nat] /\ \A t \in Timers : date[t] <= MaxTime + Interval[t]
  BY <1>1, TimerConstants DEF Init, Instants
<1>3. ASSUME NEW list \in ByFirst
      PROVE  list \in Seq(Timers)
  <2>1. Cardinality(Timers) \in Nat
    BY TimerConstants, FS_CardinalityType
  <2>2. list \in [1..Cardinality(Timers) -> Timers]
    BY DEF ByFirst, SetToSeqs
  <2> QED BY <2>1, <2>2, IsASeq
<1>4. timers \in [Modes -> Seq(Timers)]
  <2>1. PICK order \in [Modes -> ByFirst] :
          timers = [m \in Modes |-> Among(order[m], {t \in Timers : m \in Scheduled[t]})]
    BY DEF Init
  <2>2. ASSUME NEW m \in Modes
        PROVE  Among(order[m], {t \in Timers : m \in Scheduled[t]}) \in Seq(Timers)
    <3>1. order[m] \in Seq(Timers)
      BY <1>3
    <3> HIDE DEF ByFirst
    <3> QED BY <3>1, AmongProperties
  <2> QED BY <2>1, <2>2
<1>5. deadline \in [Modes -> Nat \cup {Never}] /\ armed \in [Modes -> Nat \cup {Never}]
  <2>1. \A m \in Modes : NextDeadline(timers[m], First, {}) \in Nat \cup {Never}
    BY <1>1, <1>4, NextDeadlineType, TimerConstants
  <2> QED BY <2>1 DEF Init
<1>6. runs \in Seq(RunType) /\ DOMAIN runs = {}
  <2>1. runs = <<>>
    BY DEF Init
  <2> QED BY <2>1, EmptySeq, LenProperties
<1>7. call \in [Threads -> Rests \cup {NoCall}] /\ done \in [Threads -> Nat]
  BY DEF Init
<1> QED BY <1>2, <1>4, <1>5, <1>6, <1>7, TimerConstants DEF Init, Shape, TypeOK

LEMMA TickShape ==
  ASSUME Shape, Tick
  PROVE  Shape'
<1>1. now \in Nat /\ now' \in Instants /\ now' = now + 1
  BY TimerConstants DEF Shape, TypeOK, Tick, Instants
<1>2. ASSUME NEW d \in DOMAIN runs
      PROVE  RunOK(runs[d])'
  <2>1. runs[d] \in RunType /\ RunOK(runs[d])
    BY <1>2, ElementOfSeq, LenProperties DEF Shape, TypeOK
  <2>2. runs[d].old \in Nat /\ runs' = runs /\ valid' = valid
    BY <2>1 DEF RunType, Tick, timerVars
  <2> QED BY <1>1, <2>1, <2>2 DEF RunOK, Busy
<1> QED BY <1>1, <1>2 DEF Shape, TypeOK, Tick, timerVars, modeVars, threadVars, history

(* Calls: what the runs and the clock are is left alone.                    *)
LEMMA RunsLeftAlone ==
  ASSUME Shape, runs' = runs, now' = now, valid' \subseteq valid
  PROVE  runs' \in Seq(RunType) /\ \A d \in DOMAIN runs' : RunOK(runs[d])'
BY DEF Shape, TypeOK, RunOK, Busy

(* What a program calls.                                                    *)
LEMMA CallType ==
  ASSUME Shape, NEW th \in Threads, done[th] < Len(Program[th])
  PROVE  Program[th][done[th] + 1] \subseteq Calls
<1>1. Program[th] \in Seq(SUBSET Calls)
  BY TimerConstants
<1>2. done[th] + 1 \in 1..Len(Program[th])
  BY <1>1, LenProperties DEF Shape, TypeOK
<1> QED BY <1>1, <1>2, ElementOfSeq

LEMMA RemoveFromModesType ==
  ASSUME TypeOK, NEW t \in Timers, NEW ms \in SUBSET Modes, RemoveFromModes(t, ms)
  PROVE  /\ rlModes' \in [Timers -> SUBSET Modes]
         /\ timers' \in [Modes -> Seq(Timers)]
         /\ deadline' \in [Modes -> Nat \cup {Never}]
         /\ armed' \in [Modes -> Nat \cup {Never}]
<1> DEFINE here == {m \in ms : t \in ToSet(timers[m])}
           lists == [m \in Modes |-> IF m \in here THEN Without(timers[m], t) ELSE timers[m]]
<1>1. lists \in [Modes -> Seq(Timers)]
  <2> HIDE DEF here
  <2> QED BY RemovedLists
<1>2. Arm(here, lists, date, firing, deadline) /\ rlModes' = [rlModes EXCEPT ![t] = @ \ here]
  BY DEF RemoveFromModes, RemoveTimer
<1> HIDE DEF lists
<1>3. date \in [Timers -> Nat] /\ deadline \in [Modes -> Nat \cup {Never}]
      /\ rlModes \in [Timers -> SUBSET Modes]
  BY DEF TypeOK
<1>4. rlModes' \in [Timers -> SUBSET Modes]
  BY <1>2, <1>3
<1> QED BY <1>1, <1>2, <1>3, <1>4, ArmType

LEMMA AddTimerType ==
  ASSUME TypeOK, NEW t \in Timers, NEW m \in Modes, AddTimer(t, m)
  PROVE  /\ rlModes' \in [Timers -> SUBSET Modes]
         /\ timers' \in [Modes -> Seq(Timers)]
         /\ deadline' \in [Modes -> Nat \cup {Never}]
         /\ armed' \in [Modes -> Nat \cup {Never}]
<1>1. date \in [Timers -> Nat] /\ deadline \in [Modes -> Nat \cup {Never}]
      /\ rlModes \in [Timers -> SUBSET Modes] /\ timers \in [Modes -> Seq(Timers)]
  BY DEF TypeOK
<1>2. CASE m \in rlModes[t]
  BY <1>2 DEF AddTimer, TypeOK, modeVars
<1>3. CASE m \notin rlModes[t]
  <2> DEFINE lists == [timers EXCEPT ![m] = Inserted(@, t, date)]
  <2>1. Inserted(timers[m], t, date) \in Seq(Timers)
    BY <1>1, InsertedProperties
  <2>2. lists \in [Modes -> Seq(Timers)]
    BY <1>1, <2>1
  <2>3. Arm({m}, lists, date, firing, deadline) /\ rlModes' = [rlModes EXCEPT ![t] = @ \cup {m}]
    BY <1>3 DEF AddTimer
  <2> HIDE DEF lists
  <2>4. rlModes' \in [Timers -> SUBSET Modes]
    BY <1>1, <2>3
  <2> QED BY <1>1, <2>2, <2>3, <2>4, ArmType
<1> QED BY <1>2, <1>3

LEMMA SetDateType ==
  ASSUME TypeOK, NEW t \in Timers, NEW d \in Instants, NEW ms \in SUBSET Modes, SetDate(t, d, ms)
  PROVE  /\ date' \in [Timers -> Nat]
         /\ \A u \in Timers : date'[u] <= MaxTime + Interval[u]
         /\ timers' \in [Modes -> Seq(Timers)]
         /\ deadline' \in [Modes -> Nat \cup {Never}]
         /\ armed' \in [Modes -> Nat \cup {Never}]
<1> DEFINE here == {m \in ms : t \in ToSet(timers[m])}
           lists(dates) == [m \in Modes |-> IF m \in here THEN Inserted(Without(timers[m], t), t, dates)
                                            ELSE timers[m]]
<1>1. date \in [Timers -> Nat] /\ deadline \in [Modes -> Nat \cup {Never}]
      /\ (\A u \in Timers : date[u] <= MaxTime + Interval[u])
      /\ d \in Nat /\ d <= MaxTime /\ MaxTime \in Nat /\ Interval \in [Timers -> Nat]
  BY TimerConstants DEF TypeOK, Instants
<1>2. date' = [date EXCEPT ![t] = d]
  BY DEF SetDate
<1>3. PICK dates \in [Timers -> Nat] : dates = date'
  BY <1>1, <1>2
<1>4. \A u \in Timers : dates[u] <= MaxTime + Interval[u]
  BY <1>1, <1>2, <1>3
<1>5. Arm(here, lists(dates), dates, firing, deadline)
  BY <1>3 DEF SetDate, Reposition
<1>6. lists(dates) \in [Modes -> Seq(Timers)]
  <2> HIDE DEF here
  <2> QED BY MovedLists
<1> HIDE DEF lists
<1> QED BY <1>1, <1>3, <1>4, <1>5, <1>6, ArmType

LEMMA BeginCallShape ==
  ASSUME Shape, NEW th \in Threads, BeginCall(th)
  PROVE  Shape'
<1>1. PICK c \in Program[th][done[th] + 1] : MayCall(th, c) /\ FirstHalf(th, c)
  BY DEF BeginCall
<1>2. c \in Calls
  BY CallType DEF BeginCall
<1>3. now' = now /\ done' \in [Threads -> Nat]
  BY DEF BeginCall, Shape, TypeOK
<1> USE DEF Shape, TypeOK
<1>4. CASE c.op = "setDate" /\ SetNextFireDate(th, c.timer, c.date)
  <2>1. c.timer \in Timers /\ c.date \in Instants
    BY <1>2, <1>4 DEF Calls
  <2> DEFINE next == IF c.date < now THEN now ELSE c.date
  <2>2. next \in Instants /\ next \in Nat /\ next <= MaxTime
    BY <2>1, TimerConstants DEF Instants
  <2>3. UNCHANGED <<rlModes, valid, firing, modeVars, woken, runs, fires>>
    BY <1>4 DEF SetNextFireDate
  <2>4. runs' \in Seq(RunType) /\ \A d \in DOMAIN runs' : RunOK(runs[d])'
    BY <1>3, <2>3, RunsLeftAlone
  <2>5. CASE c.timer \in valid /\ rlModes[c.timer] # {}
    <3>1. call' = [call EXCEPT ![th] = [op |-> "setDate", timer |-> c.timer, date |-> next,
                                        modes |-> rlModes[c.timer]]]
          /\ UNCHANGED <<date, moved>>
      BY <1>4, <2>5 DEF SetNextFireDate, Continue
    <3> HIDE DEF next
    <3>2. [op |-> "setDate", timer |-> c.timer, date |-> next, modes |-> rlModes[c.timer]] \in Rests
      BY <2>1, <2>2 DEF Rests
    <3>3. call' \in [Threads -> Rests \cup {NoCall}]
      BY <3>1, <3>2
    <3> QED BY <1>3, <2>3, <2>4, <3>1, <3>3 DEF modeVars
  <2>6. CASE ~(c.timer \in valid /\ rlModes[c.timer] # {})
    <3>1. /\ date' = IF c.timer \in valid THEN [date EXCEPT ![c.timer] = next] ELSE date
          /\ moved' = moved \cup {c.timer}
          /\ UNCHANGED call
      BY <1>4, <2>6 DEF SetNextFireDate
    <3> HIDE DEF next
    <3>2. date' \in [Timers -> Nat] /\ \A u \in Timers : date'[u] <= MaxTime + Interval[u]
      BY <2>1, <2>2, <3>1, TimerConstants
    <3> QED BY <1>3, <2>1, <2>3, <2>4, <3>1, <3>2 DEF modeVars
  <2> QED BY <2>5, <2>6
<1>5. CASE c.op = "add" /\ Continue(th, IF c.timer \in valid THEN c ELSE NoCall)
           /\ UNCHANGED <<timerVars, modeVars, woken, runs, history>>
  <2>1. c \in Rests
    BY <1>2, <1>5 DEF Calls, Rests
  <2>2. call' \in [Threads -> Rests \cup {NoCall}]
    BY <1>5, <2>1 DEF Continue
  <2> QED BY <1>3, <1>5, <2>2, RunsLeftAlone DEF timerVars, modeVars, history
<1>6. CASE c.op = "remove" /\ RemoveFromModes(c.timer, {c.mode}) /\ UNCHANGED call
  <2>1. c.timer \in Timers /\ {c.mode} \in SUBSET Modes
    BY <1>2, <1>6 DEF Calls
  <2>2. UNCHANGED <<date, valid, firing, woken, runs, history>>
    BY <1>6 DEF RemoveFromModes
  <2> QED BY <1>3, <1>6, <2>1, <2>2, RemoveFromModesType, RunsLeftAlone DEF history
<1>7. CASE c.op = "invalidate" /\ Invalidate(th, c.timer)
           /\ UNCHANGED <<date, rlModes, firing, modeVars, woken, runs, history>>
  <2>1. c.timer \in Timers
    BY <1>2, <1>7 DEF Calls
  <2>2. [op |-> "invalidate", timer |-> c.timer, modes |-> rlModes[c.timer]] \in Rests
    BY <2>1 DEF Rests
  <2>3. call' \in [Threads -> Rests \cup {NoCall}] /\ valid' \subseteq valid
    BY <1>7, <2>2 DEF Invalidate, Continue
  <2> QED BY <1>3, <1>7, <2>3, RunsLeftAlone DEF modeVars, history
<1>8. CASE c.op = "run" /\ Run(c.mode, c.poll) /\ UNCHANGED call
  <2>1. c.mode \in Modes /\ c.poll \in BOOLEAN
    BY <1>2, <1>8 DEF Calls
  <2>2. UNCHANGED <<timerVars, modeVars, woken, history>>
    BY <1>8 DEF Run
  <2>3. runs' \in Seq(RunType) /\ \A d \in DOMAIN runs' : RunOK(runs[d])'
    <3>1. CASE runs' = runs
      BY <1>3, <2>2, <3>1, RunsLeftAlone DEF timerVars
    <3>2. CASE runs' # runs
      <4>1. PICK run : run = NewRun(c.mode, c.poll)
        OBVIOUS
      <4>2. run \in RunType /\ run.at = "asleep"
        BY <2>1, <4>1, EmptySeq DEF NewRun, RunType, Places
      <4>3. runs' = Append(runs, run)
        BY <1>8, <3>2, <4>1 DEF Run
      <4>4. RunOK(run)'
        BY <4>2 DEF RunOK, Busy
      <4> HIDE DEF Shape, TypeOK
      <4>5. /\ runs' \in Seq(RunType)
            /\ DOMAIN runs' = 1..(Len(runs) + 1)
            /\ Len(runs) \in Nat /\ DOMAIN runs = 1..Len(runs)
            /\ runs'[Len(runs) + 1] = run
            /\ \A d \in DOMAIN runs : runs'[d] = runs[d]
        BY <4>2, <4>3, Pushed
      <4>6. \A d \in DOMAIN runs : RunOK(runs[d])
        BY DEF Shape
      <4>7. \A d \in DOMAIN runs : RunOK(runs[d])'
        BY <1>3, <2>2, <4>5, <4>6 DEF RunOK, Busy, timerVars
      <4>8. \A d \in DOMAIN runs' : d \in DOMAIN runs \/ d = Len(runs) + 1
        BY <4>5
      <4>9. ASSUME NEW d \in DOMAIN runs'
             PROVE  RunOK(runs[d])'
        <5>1. CASE d \in DOMAIN runs
          BY <4>7, <5>1
        <5>2. CASE d = Len(runs) + 1
          <6>1. runs'[d] = run
            BY <4>5, <5>2
          <6> QED BY <4>4, <6>1 DEF RunOK, Busy
        <5> QED BY <4>8, <5>1, <5>2
      <4> QED BY <4>5, <4>9
    <3> QED BY <3>1, <3>2
  <2> QED BY <1>3, <1>8, <2>2, <2>3 DEF timerVars, modeVars, history
<1> QED BY <1>1, <1>4, <1>5, <1>6, <1>7, <1>8 DEF FirstHalf

LEMMA FinishCallShape ==
  ASSUME Shape, NEW th \in Threads, FinishCall(th)
  PROVE  Shape'
<1>1. PICK c : c = call[th] /\ c \in Rests
  BY DEF Shape, TypeOK, FinishCall
<1>2. SecondHalf(c) /\ now' = now /\ done' = done
  BY <1>1 DEF FinishCall
<1>3. call' \in [Threads -> Rests \cup {NoCall}]
  <2>1. [op |-> "wake"] \in Rests
    BY DEF Rests
  <2>2. PICK rest \in Rests \cup {NoCall} : call' = [call EXCEPT ![th] = rest]
    BY <2>1 DEF FinishCall, Continue
  <2> QED BY <2>2 DEF Shape, TypeOK
<1> USE DEF Shape, TypeOK
<1>4. CASE c.op = "setDate" /\ SetDate(c.timer, c.date, c.modes)
  <2>1. c.timer \in Timers /\ c.date \in Instants /\ c.modes \in SUBSET Modes
    BY <1>1, <1>4 DEF Rests
  <2>2. moved' = moved \cup {c.timer} /\ UNCHANGED <<rlModes, valid, firing, woken, runs, fires>>
    BY <1>4 DEF SetDate
  <2> QED BY <1>2, <1>3, <1>4, <2>1, <2>2, SetDateType, RunsLeftAlone
<1>5. CASE c.op = "add" /\ AddTimer(c.timer, c.mode)
  <2>1. c.timer \in Timers /\ c.mode \in Modes
    BY <1>1, <1>5 DEF Rests
  <2>2. UNCHANGED <<date, valid, firing, woken, runs, history>>
    BY <1>5 DEF AddTimer
  <2> QED BY <1>2, <1>3, <1>5, <2>1, <2>2, AddTimerType, RunsLeftAlone DEF history
<1>6. CASE c.op = "invalidate" /\ RemoveFromModes(c.timer, c.modes)
  <2>1. c.timer \in Timers /\ c.modes \in SUBSET Modes
    BY <1>1, <1>6 DEF Rests
  <2>2. UNCHANGED <<date, valid, firing, woken, runs, history>>
    BY <1>6 DEF RemoveFromModes
  <2> QED BY <1>2, <1>3, <1>6, <2>1, <2>2, RemoveFromModesType, RunsLeftAlone DEF history
<1>7. CASE c.op = "wake" /\ WakeUp
  BY <1>2, <1>3, <1>7, RunsLeftAlone DEF WakeUp, timerVars, modeVars, history
<1> QED BY <1>2, <1>4, <1>5, <1>6, <1>7 DEF SecondHalf

(* The loop's thread.                                                       *)
LEMMA WaitShape ==
  ASSUME Shape, Wait
  PROVE  Shape'
<1>1. Running /\ Top \in RunType /\ now' = now /\ valid' = valid
  BY TopIsRun DEF Wait, Serving, timerVars
<1>2. ASSUME NEW run \in RunType, run.at = "awake", SetTop(run)
      PROVE  runs' \in Seq(RunType) /\ \A d \in DOMAIN runs' : RunOK(runs[d])'
  <2>1. RunOK(run)'
    BY <1>2 DEF RunOK, Busy
  <2> QED BY <1>1, <1>2, <2>1, StackKeepsShape
<1>3. ASSUME NEW run, run \in {[Top EXCEPT !.at = "awake", !.onTimer = TRUE], [Top EXCEPT !.at = "awake"]}
      PROVE  run \in RunType /\ run.at = "awake"
  BY <1>1, <1>3 DEF RunType, Places
<1>4. runs' \in Seq(RunType) /\ \A d \in DOMAIN runs' : RunOK(runs[d])'
  BY <1>2, <1>3 DEF Wait
<1>5. armed' \in [Modes -> Nat \cup {Never}] /\ woken' \in BOOLEAN
  BY DEF Wait, Shape, TypeOK
<1> QED BY <1>1, <1>4, <1>5 DEF Wait, Shape, TypeOK, timerVars, threadVars, history

LEMMA DoTimersShape ==
  ASSUME Shape, DoTimers
  PROVE  Shape'
<1>1. Running /\ Top \in RunType /\ now' = now /\ valid' = valid
  BY TopIsRun DEF DoTimers, Serving, timerVars
<1>2. PICK todo : /\ todo \in Seq(Timers)
                  /\ SetTop([Top EXCEPT !.at = "timers", !.handled = FALSE, !.todo = todo])
  <2>1. PICK set : set = {t \in valid \ firing : date[t] <= now}
    OBVIOUS
  <2>2. Top.mode \in Modes
    BY <1>1 DEF RunType
  <2>3. timers[Top.mode] \in Seq(Timers)
    BY <2>2 DEF Shape, TypeOK
  <2>4. Among(timers[Top.mode], set) \in Seq(Timers)
    BY <2>3, AmongProperties
  <2>5. <<>> \in Seq(Timers)
    BY EmptySeq
  <2> QED BY <2>1, <2>4, <2>5 DEF DoTimers
<1>3. PICK run : run = [Top EXCEPT !.at = "timers", !.handled = FALSE, !.todo = todo]
  OBVIOUS
<1>4. run \in RunType /\ run.at = "timers"
  BY <1>1, <1>2, <1>3 DEF RunType, Places
<1>5. RunOK(run)'
  BY <1>4 DEF RunOK, Busy
<1>6. runs' \in Seq(RunType) /\ \A d \in DOMAIN runs' : RunOK(runs[d])'
  BY <1>1, <1>2, <1>3, <1>4, <1>5, StackKeepsShape
<1> QED BY <1>6 DEF DoTimers, Shape, TypeOK, timerVars, modeVars, threadVars, history

(* The head and the tail of what a run has collected.                       *)
LEMMA TodoType ==
  ASSUME NEW run \in RunType, run.todo # <<>>
  PROVE  Head(run.todo) \in Timers /\ Tail(run.todo) \in Seq(Timers)
<1>1. run.todo \in Seq(Timers)
  BY DEF RunType
<1> QED BY <1>1, HeadTailProperties

LEMMA DoTimerShape ==
  ASSUME Shape, DoTimer
  PROVE  Shape'
<1>1. Running /\ Top \in RunType /\ Top.todo # <<>> /\ now' = now /\ valid' = valid /\ now \in Nat
  BY TopIsRun, TimerConstants DEF DoTimer, Serving, Shape, TypeOK, Instants
<1>2. PICK t \in Timers, m \in Modes : t = Head(Top.todo) /\ m = Top.mode
  BY <1>1, TodoType DEF RunType
<1>3. date \in [Timers -> Nat] /\ timers \in [Modes -> Seq(Timers)]
      /\ Forget(m) \in [Modes -> Nat \cup {Never}]
  BY DEF Shape, TypeOK, Forget
<1>4. CASE MayFire(t)
  <2>1. PICK run : run = [Top EXCEPT !.at = "callout", !.handled = TRUE, !.old = date[t]]
    OBVIOUS
  <2>2. /\ SetTop(run)
        /\ firing' = firing \cup {t}
        /\ Arm({m}, timers, date, firing', Forget(m))
        /\ fires' = [fires EXCEPT ![t] = @ + 1]
    BY <1>2, <1>4, <2>1 DEF DoTimer
  <2>3. run \in RunType /\ run.at = "callout" /\ run.todo # <<>> /\ run.old = date[t] /\ date[t] <= now
    BY <1>1, <1>3, <1>4, <2>1 DEF RunType, Places, MayFire
  <2>4. RunOK(run)'
    BY <1>1, <2>3 DEF RunOK, Busy
  <2>5. runs' \in Seq(RunType) /\ \A d \in DOMAIN runs' : RunOK(runs[d])'
    BY <1>1, <2>2, <2>3, <2>4, StackKeepsShape
  <2>6. /\ timers' \in [Modes -> Seq(Timers)]
        /\ deadline' \in [Modes -> Nat \cup {Never}]
        /\ armed' \in [Modes -> Nat \cup {Never}]
    <3> DEFINE recorded == Forget(m)
    <3>1. recorded \in [Modes -> Nat \cup {Never}] /\ Arm({m}, timers, date, firing', recorded)
      BY <1>3, <2>2
    <3> HIDE DEF recorded
    <3>2. TypeOK
      BY DEF Shape
    <3> QED BY <1>3, <3>1, <3>2, ArmType
  <2>7. firing' \subseteq Timers /\ fires' \in [Timers -> Nat]
    BY <2>2 DEF Shape, TypeOK
  <2> QED BY <2>5, <2>6, <2>7 DEF DoTimer, Shape, TypeOK, threadVars
<1>5. CASE ~MayFire(t)
  <2>1. PICK run : run = [Top EXCEPT !.todo = Tail(Top.todo)]
    OBVIOUS
  <2>2. SetTop(run) /\ UNCHANGED <<firing, modeVars, fires>>
    BY <1>2, <1>5, <2>1 DEF DoTimer
  <2>3. run \in RunType /\ run.at = "timers"
    BY <1>1, <2>1, TodoType DEF RunType, DoTimer, Serving
  <2>4. RunOK(run)'
    BY <2>3 DEF RunOK, Busy
  <2>5. runs' \in Seq(RunType) /\ \A d \in DOMAIN runs' : RunOK(runs[d])'
    BY <1>1, <2>2, <2>3, <2>4, StackKeepsShape
  <2> QED BY <2>2, <2>5 DEF DoTimer, Shape, TypeOK, modeVars, threadVars
<1> QED BY <1>4, <1>5

LEMMA ReturnShape ==
  ASSUME Shape, Return
  PROVE  Shape'
<1>1. Running /\ Top \in RunType /\ RunOK(Top) /\ Top.at = "callout" /\ now' = now
  BY TopIsRun DEF Return, Serving
<1>2. Top.todo # <<>> /\ Top.old <= now
  BY <1>1 DEF RunOK, Busy
<1>3. PICK t \in Timers : t = Head(Top.todo)
  BY <1>1, <1>2, TodoType
<1>4. PICK run : run = [Top EXCEPT !.at = "served"]
  OBVIOUS
<1>5. run \in RunType /\ run.todo = Top.todo /\ run.old = Top.old /\ run.at = "served"
  BY <1>1, <1>4 DEF RunType, Places
<1>6. /\ IF Interval[t] = 0 THEN Invalidate(Loop, t) ELSE UNCHANGED <<valid, call>>
      /\ SetTop(run)
      /\ UNCHANGED <<now, date, rlModes, firing, modeVars, woken, done, history>>
  BY <1>3, <1>4 DEF Return
<1>7. valid' \subseteq valid /\ (Interval[t] = 0 => t \notin valid')
  BY <1>6 DEF Invalidate
<1>8. call' \in [Threads -> Rests \cup {NoCall}]
  <2>1. [op |-> "invalidate", timer |-> t, modes |-> rlModes[t]] \in Rests
    BY DEF Rests, Shape, TypeOK
  <2> QED BY <1>6, <2>1 DEF Invalidate, Continue, Shape, TypeOK
<1>9. RunOK(run)'
  BY <1>2, <1>3, <1>5, <1>6, <1>7 DEF RunOK, Busy
<1>10. runs' \in Seq(RunType) /\ \A d \in DOMAIN runs' : RunOK(runs[d])'
  BY <1>1, <1>5, <1>6, <1>7, <1>9, StackKeepsShape
<1> QED BY <1>6, <1>7, <1>8, <1>10 DEF Shape, TypeOK, modeVars, history

(* The dates that the return of a callout leaves.                           *)
LEMMA FinishTimerDates ==
  ASSUME Shape, FinishTimer
  PROVE  /\ Top.todo # <<>> /\ Head(Top.todo) \in Timers
         /\ Head(Top.todo) \in valid => Interval[Head(Top.todo)] \in Nat \ {0}
         /\ Head(Top.todo) \in valid /\ ~(Top.old < date[Head(Top.todo)]) =>
              /\ date' = [date EXCEPT ![Head(Top.todo)] = NextDate(Top.old, Interval[Head(Top.todo)])]
              /\ Top.old = date[Head(Top.todo)] \/ Top.old > date[Head(Top.todo)]
         /\ ~(Head(Top.todo) \in valid /\ ~(Top.old < date[Head(Top.todo)])) => date' = date
         /\ date' \in [Timers -> Nat]
         /\ \A u \in Timers : date'[u] <= MaxTime + Interval[u]
<1>1. Running /\ Top \in RunType /\ RunOK(Top) /\ Top.at = "served"
  BY TopIsRun DEF FinishTimer, Serving
<1>2. Top.todo # <<>> /\ Top.old <= now /\ Top.old \in Nat
  BY <1>1 DEF RunOK, Busy, RunType
<1>3. PICK t \in Timers : t = Head(Top.todo)
  BY <1>1, <1>2, TodoType
<1>4. t \in valid => Interval[t] \in Nat \ {0}
  BY <1>1, <1>3, TimerConstants DEF RunOK, Busy
<1>5. date \in [Timers -> Nat] /\ now \in Nat /\ now <= MaxTime /\ MaxTime \in Nat
      /\ (\A u \in Timers : date[u] <= MaxTime + Interval[u]) /\ Interval \in [Timers -> Nat]
  BY TimerConstants DEF Shape, TypeOK, Instants
<1>6. CASE t \in valid /\ ~(Top.old < date[t])
  <2>1. date' = [date EXCEPT ![t] = NextDate(Top.old, Interval[t])]
    BY <1>3, <1>6 DEF FinishTimer
  <2>2. NextDate(Top.old, Interval[t]) \in Nat /\ NextDate(Top.old, Interval[t]) <= now + Interval[t]
    BY <1>2, <1>4, <1>5, <1>6, NextDateIsLater
  <2>3. date' \in [Timers -> Nat] /\ \A u \in Timers : date'[u] <= MaxTime + Interval[u]
    BY <1>5, <2>1, <2>2
  <2> QED BY <1>2, <1>3, <1>4, <1>5, <1>6, <2>1, <2>3
<1>7. CASE ~(t \in valid /\ ~(Top.old < date[t]))
  <2>1. date' = date
    BY <1>3, <1>7 DEF FinishTimer, modeVars
  <2> QED BY <1>2, <1>3, <1>4, <1>5, <1>7, <2>1
<1> QED BY <1>6, <1>7

LEMMA FinishTimerShape ==
  ASSUME Shape, FinishTimer
  PROVE  Shape'
<1>1. Running /\ Top \in RunType /\ now' = now /\ valid' = valid
  BY TopIsRun DEF FinishTimer, Serving
<1>2. Top.todo # <<>> /\ date' \in [Timers -> Nat] /\ \A u \in Timers : date'[u] <= MaxTime + Interval[u]
  BY FinishTimerDates
<1>3. PICK t \in Timers, m \in Modes : t = Head(Top.todo) /\ m = Top.mode
  BY <1>1, <1>2, TodoType DEF RunType
<1>4. TypeOK /\ timers \in [Modes -> Seq(Timers)] /\ date \in [Timers -> Nat]
      /\ deadline \in [Modes -> Nat \cup {Never}]
  BY DEF Shape, TypeOK
<1>5. PICK dates \in [Timers -> Nat] : dates = date'
  BY <1>2
<1>6. /\ timers' \in [Modes -> Seq(Timers)]
      /\ deadline' \in [Modes -> Nat \cup {Never}]
      /\ armed' \in [Modes -> Nat \cup {Never}]
  <2>1. CASE t \notin valid
    BY <1>3, <2>1 DEF FinishTimer, modeVars, Shape, TypeOK
  <2>2. CASE t \in valid /\ Top.old < date[t]
    <3>1. Arm({m}, timers, date, firing', deadline)
      BY <1>3, <2>2 DEF FinishTimer
    <3> QED BY <1>4, <3>1, ArmType
  <2>3. CASE t \in valid /\ ~(Top.old < date[t])
    <3> DEFINE here == {k \in rlModes[t] : t \in ToSet(timers[k])}
               lists == [k \in Modes |->
                           IF k \in here THEN Inserted(Without(timers[k], t), t, dates)
                                         ELSE timers[k]]
    <3>1. Arm(here, lists, dates, firing', deadline)
      BY <1>3, <1>5, <2>3 DEF FinishTimer
    <3>2. lists \in [Modes -> Seq(Timers)]
      <4> HIDE DEF here
      <4> QED BY <1>4, MovedLists
    <3> HIDE DEF lists
    <3> QED BY <1>4, <3>1, <3>2, ArmType
  <2> QED BY <2>1, <2>2, <2>3
<1>7. PICK run : run = [Top EXCEPT !.at = "timers", !.todo = Tail(Top.todo)]
  OBVIOUS
<1>8. run \in RunType /\ run.at = "timers"
  BY <1>1, <1>2, <1>7, TodoType DEF RunType, Places
<1>9. RunOK(run)'
  BY <1>8 DEF RunOK, Busy
<1>10. SetTop(run) /\ firing' = firing \ {t}
  BY <1>3, <1>7 DEF FinishTimer
<1>11. runs' \in Seq(RunType) /\ \A d \in DOMAIN runs' : RunOK(runs[d])'
  BY <1>1, <1>8, <1>9, <1>10, StackKeepsShape
<1> QED BY <1>2, <1>6, <1>10, <1>11 DEF FinishTimer, Shape, TypeOK, threadVars, history

LEMMA EndPassShape ==
  ASSUME Shape, EndPass
  PROVE  Shape'
<1>1. Running /\ Top \in RunType /\ now' = now /\ valid' = valid
  BY TopIsRun DEF EndPass, Serving, timerVars
<1>2. PICK m \in Modes : m = Top.mode
  BY <1>1 DEF RunType
<1>3. TypeOK /\ timers \in [Modes -> Seq(Timers)] /\ date \in [Timers -> Nat]
  BY DEF Shape, TypeOK
<1>4. /\ timers' \in [Modes -> Seq(Timers)]
      /\ deadline' \in [Modes -> Nat \cup {Never}]
      /\ armed' \in [Modes -> Nat \cup {Never}]
  <2>1. CASE UNCHANGED modeVars
    BY <2>1 DEF modeVars, Shape, TypeOK
  <2>2. CASE Arm({m}, timers, date, firing, Forget(m))
    <3>1. Forget(m) \in [Modes -> Nat \cup {Never}]
      BY DEF Forget, Shape, TypeOK
    <3> QED BY <1>3, <2>2, <3>1, ArmType
  <2> QED BY <1>2, <2>1, <2>2 DEF EndPass
<1>5. runs' \in Seq(RunType) /\ \A d \in DOMAIN runs' : RunOK(runs[d])'
  <2>1. CASE runs' = SubSeq(runs, 1, Len(runs) - 1)
    <3>1. /\ runs' \in Seq(RunType)
          /\ \A d \in DOMAIN runs' : d \in DOMAIN runs /\ runs'[d] = runs[d]
      BY <1>1, <2>1, Popped
    <3> QED BY <1>1, <3>1 DEF Shape, RunOK, Busy
  <2>2. CASE SetTop(NewRun(m, FALSE))
    <3>1. PICK run : run = NewRun(m, FALSE)
      OBVIOUS
    <3>2. run \in RunType /\ run.at = "asleep"
      BY <3>1, EmptySeq DEF NewRun, RunType, Places
    <3>3. RunOK(run)'
      BY <3>2 DEF RunOK, Busy
    <3> QED BY <1>1, <2>2, <3>1, <3>2, <3>3, StackKeepsShape
  <2> QED BY <1>2, <2>1, <2>2 DEF EndPass, SetTop
<1> QED BY <1>4, <1>5 DEF EndPass, Shape, TypeOK, timerVars, threadVars, history

LEMMA ShapeNext == Shape /\ [Next]_vars => Shape'
<1> SUFFICES ASSUME Shape, [Next]_vars
             PROVE  Shape'
  OBVIOUS
<1>1. CASE Next
  BY <1>1, TickShape, WaitShape, DoTimersShape, DoTimerShape, ReturnShape, FinishTimerShape,
     EndPassShape, BeginCallShape, FinishCallShape DEF Next, LoopStep
<1>2. CASE UNCHANGED vars
  BY <1>2 DEF vars, timerVars, modeVars, threadVars, history, Shape, TypeOK, RunOK, Busy
<1> QED BY <1>1, <1>2

LEMMA ShapeHolds == Spec => []Shape
<1> QED BY InitShape, ShapeNext, PTL DEF Spec

(* No step, of whatever programs on whatever clock, leaves the types: a date *)
(* is at most one period after the end of time, and no date is computed for *)
(* a timer that does not repeat.                                            *)
THEOREM TimerTypeOK == Spec => []TypeOK
<1>1. Shape => TypeOK
  BY DEF Shape
<1> QED BY <1>1, ShapeHolds, PTL

-----------------------------------------------------------------------------
(* The schedule of a timer.                                                 *)

(* The runs that are in a callout, or back from one, have timers of their   *)
(* own, which are marked as firing.  When nobody moves such a timer it still *)
(* has the date the run remembers.                                          *)
Callouts ==
  \A d \in DOMAIN runs : Busy(runs[d]) =>
    /\ Head(runs[d].todo) \in firing
    /\ Head(runs[d].todo) \notin moved => runs[d].old = date[Head(runs[d].todo)]
    /\ \A e \in DOMAIN runs :
         Busy(runs[e]) /\ e # d => Head(runs[e].todo) # Head(runs[d].todo)

(* The date of a timer that repeats is so many periods after its first one, *)
(* and it fired at most once in each of them; once more while it is firing, *)
(* and when it was invalidated there.                                       *)
OnGrid(t) ==
  /\ \E q \in Nat : /\ date[t] = First[t] + q * Interval[t]
                    /\ fires[t] <= q + 1
                    /\ t \in valid \ firing => fires[t] <= q
  /\ fires[t] > 0 => First[t] + (fires[t] - 1) * Interval[t] <= now

(* One that does not repeat fires while it is valid and not firing.         *)
Spent(t) == fires[t] = 0 \/ (fires[t] = 1 /\ t \notin valid \ firing)

Schedule ==
  /\ Shape
  /\ Callouts
  /\ \A t \in Repeating \ moved : OnGrid(t)
  /\ \A t \in Timers \ Repeating : Spent(t)

(* A step that begins no callout, and leaves what the others serve alone.   *)
NoNewCallout ==
  \A d \in DOMAIN runs' : Busy(runs'[d]) =>
    /\ d \in DOMAIN runs /\ Busy(runs[d])
    /\ runs'[d].todo = runs[d].todo /\ runs'[d].old = runs[d].old

(* A step that neither begins nor ends a callout, and sets no date but that *)
(* of a timer somebody moves.                                               *)
Quiet ==
  /\ NoNewCallout
  /\ firing' = firing /\ fires' = fires /\ valid' \subseteq valid /\ now <= now'
  /\ moved \subseteq moved'
  /\ \A t \in Timers \ moved' : date'[t] = date[t]

LEMMA Products ==
  ASSUME NEW a \in Nat, NEW b \in Nat, a <= b, NEW i \in Nat
  PROVE  a * i \in Nat /\ a * i <= b * i
<1>1. b - a \in Nat /\ b = a + (b - a)
  OBVIOUS
<1>2. PICK k \in Nat : b = a + k
  BY <1>1
<1>3. b * i = a * i + k * i /\ a * i \in Nat /\ k * i \in Nat
  BY <1>2
<1> QED BY <1>3

LEMMA WholePeriods ==
  ASSUME NEW q \in Nat, NEW i \in Nat \ {0}
  PROVE  (q * i) % i = 0
<1> DEFINE r == (q * i) % i
           k == (q * i) \div i
<1>1. q * i \in Nat /\ q * i = i * q
  OBVIOUS
<1>2. r \in 0..(i - 1) /\ k \in Int /\ q * i = i * k + r
  BY <1>1
<1> HIDE DEF r, k
<1>3. i * q - i * k = i * (q - k) /\ q - k \in Int
  BY <1>2
<1>4. PICK z \in Int : z = q - k
  BY <1>3
<1>5. i * z = r
  BY <1>1, <1>2, <1>3, <1>4
<1>6. CASE z >= 1
  <2>1. PICK y \in Nat : z = y + 1
    <3>1. z - 1 \in Nat /\ z = (z - 1) + 1
      BY <1>6
    <3> QED BY <3>1
  <2>2. i * z = i * y + i /\ i * y \in Nat
    BY <2>1
  <2> QED BY <1>2, <1>5, <2>2
<1>7. CASE z <= -1
  <2>1. PICK y \in Nat : z = -1 - y
    <3>1. -1 - z \in Nat /\ z = -1 - (-1 - z)
      BY <1>7
    <3> QED BY <3>1
  <2>2. i * z = -i - i * y /\ i * y \in Nat
    BY <2>1
  <2> QED BY <1>2, <1>5, <2>2
<1>8. CASE z = 0
  BY <1>5, <1>8 DEF r
<1> QED BY <1>6, <1>7, <1>8

LEMMA QuietKeepsSchedule ==
  ASSUME Schedule, Shape', Quiet
  PROVE  Schedule'
<1>1. Callouts'
  <2>1. ASSUME NEW d \in DOMAIN runs', Busy(runs'[d])
        PROVE  /\ d \in DOMAIN runs /\ Busy(runs[d])
               /\ runs'[d].todo = runs[d].todo /\ runs'[d].old = runs[d].old
               /\ Head(runs[d].todo) \in Timers
    <3>1. /\ d \in DOMAIN runs /\ Busy(runs[d])
          /\ runs'[d].todo = runs[d].todo /\ runs'[d].old = runs[d].old
      BY <2>1 DEF Quiet, NoNewCallout
    <3>2. Head(runs[d].todo) \in Timers
      BY <3>1 DEF Schedule, Callouts, Shape, TypeOK
    <3> QED BY <3>1, <3>2
  <2> QED BY <2>1 DEF Schedule, Callouts, Quiet
<1>2. ASSUME NEW t \in Repeating \ moved'
      PROVE  OnGrid(t)'
  <2>1. t \in Timers /\ OnGrid(t)
    BY DEF Schedule, Quiet, Repeating
  <2>2. date'[t] = date[t] /\ firing' = firing /\ fires' = fires /\ valid' \subseteq valid
    BY <2>1 DEF Quiet
  <2>3. fires[t] > 0 => First[t] + (fires[t] - 1) * Interval[t] <= now'
    <3> SUFFICES ASSUME fires[t] > 0
                 PROVE  First[t] + (fires[t] - 1) * Interval[t] <= now'
      OBVIOUS
    <3>1. now \in Nat /\ now' \in Nat /\ now <= now' /\ First[t] \in Nat /\ Interval[t] \in Nat
          /\ fires[t] \in Nat
      BY <2>1, TimerConstants DEF Schedule, Shape, TypeOK, Quiet, Instants
    <3>2. PICK f \in Nat : f = fires[t] - 1
      BY <3>1
    <3>3. f * Interval[t] \in Nat /\ First[t] + f * Interval[t] <= now
      BY <2>1, <3>1, <3>2 DEF OnGrid
    <3>4. PICK p \in Nat : p = f * Interval[t]
      BY <3>3
    <3>5. First[t] + p <= now'
      BY <3>1, <3>3, <3>4
    <3> QED BY <3>2, <3>4, <3>5
  <2> QED BY <2>1, <2>2, <2>3 DEF OnGrid
<1>3. ASSUME NEW t \in Timers \ Repeating
      PROVE  Spent(t)'
  BY DEF Schedule, Quiet, Spent
<1> QED BY <1>1, <1>2, <1>3 DEF Schedule, Repeating

(* A step of the innermost run to a place outside of callouts, or within one.*)
LEMMA QuietRuns ==
  ASSUME Shape, Running, NEW run \in RunType, SetTop(run),
         Busy(run) => Busy(Top) /\ run.todo = Top.todo /\ run.old = Top.old
  PROVE  NoNewCallout
<1>1. /\ DOMAIN runs' = DOMAIN runs
      /\ \A d \in DOMAIN runs : runs'[d] = IF d = Len(runs) THEN run ELSE runs[d]
  BY TopReplaced
<1> QED BY <1>1 DEF Top, NoNewCallout

LEMMA BeginCallQuiet ==
  ASSUME Shape, NEW th \in Threads, BeginCall(th)
  PROVE  Quiet
<1>1. PICK c \in Program[th][done[th] + 1] : MayCall(th, c) /\ FirstHalf(th, c)
  BY DEF BeginCall
<1>2. c \in Calls /\ now' = now
  BY CallType DEF BeginCall
<1>3. now <= now'
  BY <1>2, TimerConstants DEF Shape, TypeOK, Instants
<1>4. CASE c.op = "setDate" /\ SetNextFireDate(th, c.timer, c.date)
  <2>1. UNCHANGED <<valid, firing, runs, fires>>
    BY <1>4 DEF SetNextFireDate
  <2>2. moved \subseteq moved' /\ \A t \in Timers \ moved' : date'[t] = date[t]
    BY <1>4 DEF SetNextFireDate, Shape, TypeOK
  <2> QED BY <1>3, <2>1, <2>2 DEF Quiet, NoNewCallout
<1>5. CASE c.op = "add" /\ UNCHANGED <<timerVars, modeVars, woken, runs, history>>
  BY <1>3, <1>5 DEF Quiet, NoNewCallout, timerVars, history
<1>6. CASE c.op = "remove" /\ RemoveFromModes(c.timer, {c.mode})
  BY <1>3, <1>6 DEF Quiet, NoNewCallout, RemoveFromModes, history
<1>7. CASE c.op = "invalidate" /\ Invalidate(th, c.timer)
           /\ UNCHANGED <<date, rlModes, firing, modeVars, woken, runs, history>>
  BY <1>3, <1>7 DEF Quiet, NoNewCallout, Invalidate, history
<1>8. CASE c.op = "run" /\ Run(c.mode, c.poll)
  <2>1. UNCHANGED <<timerVars, history>>
    BY <1>8 DEF Run
  <2>2. CASE runs' = runs
    BY <1>3, <2>1, <2>2 DEF Quiet, NoNewCallout, timerVars, history
  <2>3. CASE runs' # runs
    <3>1. PICK run : run = NewRun(c.mode, c.poll)
      OBVIOUS
    <3>2. c.mode \in Modes /\ c.poll \in BOOLEAN
      BY <1>2, <1>8 DEF Calls
    <3>3. run \in RunType /\ run.at = "asleep"
      BY <3>1, <3>2, EmptySeq DEF NewRun, RunType, Places
    <3>4. runs' = Append(runs, run)
      BY <1>8, <2>3, <3>1 DEF Run
    <3>5. /\ DOMAIN runs' = 1..(Len(runs) + 1)
          /\ Len(runs) \in Nat /\ DOMAIN runs = 1..Len(runs)
          /\ runs'[Len(runs) + 1] = run
          /\ \A d \in DOMAIN runs : runs'[d] = runs[d]
      BY <3>3, <3>4, Pushed
    <3>6. ASSUME NEW d \in DOMAIN runs', Busy(runs'[d])
          PROVE  d \in DOMAIN runs /\ runs'[d] = runs[d]
      <4>1. d # Len(runs) + 1
        BY <3>3, <3>5, <3>6 DEF Busy
      <4>2. d \in DOMAIN runs
        BY <3>5, <3>6, <4>1
      <4> QED BY <3>5, <4>2
    <3> QED BY <1>3, <2>1, <3>6 DEF Quiet, NoNewCallout, timerVars, history
  <2> QED BY <2>2, <2>3
<1> QED BY <1>1, <1>4, <1>5, <1>6, <1>7, <1>8 DEF FirstHalf

LEMMA FinishCallQuiet ==
  ASSUME Shape, NEW th \in Threads, FinishCall(th)
  PROVE  Quiet
<1>1. now <= now'
  BY TimerConstants DEF Shape, TypeOK, Instants, FinishCall
<1>2. PICK c : SecondHalf(c)
  BY DEF FinishCall
<1>3. CASE SetDate(c.timer, c.date, c.modes)
  BY <1>1, <1>3 DEF Quiet, NoNewCallout, SetDate, Shape, TypeOK
<1>4. CASE AddTimer(c.timer, c.mode)
  BY <1>1, <1>4 DEF Quiet, NoNewCallout, AddTimer, history
<1>5. CASE RemoveFromModes(c.timer, c.modes)
  BY <1>1, <1>5 DEF Quiet, NoNewCallout, RemoveFromModes, history
<1>6. CASE WakeUp
  BY <1>1, <1>6 DEF Quiet, NoNewCallout, WakeUp, timerVars, history
<1> QED BY <1>2, <1>3, <1>4, <1>5, <1>6 DEF SecondHalf

(* The steps of the loop that are no beginning or end of a callout.         *)
LEMMA LoopQuiet ==
  ASSUME Shape, Wait \/ DoTimers \/ Return \/ EndPass \/ (DoTimer /\ ~MayFire(Head(Top.todo)))
  PROVE  Quiet
<1>1. Running /\ Top \in RunType
  BY TopIsRun DEF Wait, DoTimers, Return, EndPass, DoTimer, Serving
<1>2. now <= now'
  <2>1. now \in Nat /\ now' = now
    <3>1. now \in Nat
      BY TimerConstants DEF Shape, TypeOK, Instants
    <3> QED BY <3>1 DEF Wait, DoTimers, Return, EndPass, DoTimer
  <2> QED BY <2>1
<1>3. firing' = firing /\ date' = date /\ fires' = fires /\ moved' = moved
  BY DEF Wait, DoTimers, Return, EndPass, DoTimer, timerVars, history
<1>4. valid' \subseteq valid
  BY DEF Wait, DoTimers, Return, EndPass, DoTimer, Invalidate, timerVars
<1>5. ASSUME NEW run, SetTop(run), run \in RunType, ~Busy(run)
      PROVE  NoNewCallout
  BY <1>1, <1>5, QuietRuns
<1>6. ASSUME Wait PROVE NoNewCallout
  <2>1. PICK run : /\ SetTop(run)
                   /\ run \in {[Top EXCEPT !.at = "awake", !.onTimer = TRUE],
                               [Top EXCEPT !.at = "awake"]}
    BY <1>6 DEF Wait
  <2>2. run \in RunType /\ ~Busy(run)
    BY <1>1, <2>1 DEF RunType, Places, Busy
  <2> QED BY <1>5, <2>1, <2>2
<1>7. ASSUME DoTimers PROVE NoNewCallout
  <2>1. PICK todo : SetTop([Top EXCEPT !.at = "timers", !.handled = FALSE, !.todo = todo])
    BY <1>7 DEF DoTimers
  <2>2. PICK run : run = [Top EXCEPT !.at = "timers", !.handled = FALSE, !.todo = todo]
    OBVIOUS
  <2>3. runs'[Len(runs)] = run /\ Len(runs) \in DOMAIN runs' /\ runs' \in Seq(RunType)
    <3>1. Shape' /\ Len(runs) \in DOMAIN runs
      BY <1>1, <1>7, DoTimersShape, TopIsRun
    <3> QED BY <2>1, <2>2, <3>1 DEF SetTop, Shape, TypeOK
  <2>4. run \in RunType
    BY <2>3, ElementOfSeq, LenProperties
  <2>5. ~Busy(run)
    BY <1>1, <2>2 DEF Busy, RunType
  <2> QED BY <1>5, <2>1, <2>2, <2>4, <2>5
<1>8. ASSUME Return PROVE NoNewCallout
  <2>1. PICK run : run = [Top EXCEPT !.at = "served"]
    OBVIOUS
  <2>2. /\ SetTop(run) /\ run \in RunType
        /\ Busy(Top) /\ run.todo = Top.todo /\ run.old = Top.old
    BY <1>1, <1>8, <2>1 DEF Return, Serving, RunType, Places, Busy
  <2> QED BY <1>1, <2>2, QuietRuns
<1>9. ASSUME EndPass PROVE NoNewCallout
  <2>1. ASSUME runs' = SubSeq(runs, 1, Len(runs) - 1) PROVE NoNewCallout
    BY <1>1, <2>1, Popped DEF NoNewCallout
  <2>2. ASSUME SetTop(NewRun(Top.mode, FALSE)) PROVE NoNewCallout
    <3>1. PICK run : run = NewRun(Top.mode, FALSE)
      OBVIOUS
    <3>2. run \in RunType /\ ~Busy(run)
      BY <1>1, <3>1, EmptySeq DEF NewRun, RunType, Places, Busy
    <3> QED BY <1>5, <2>2, <3>1, <3>2
  <2> QED BY <1>9, <2>1, <2>2 DEF EndPass, SetTop
<1>10. ASSUME DoTimer /\ ~MayFire(Head(Top.todo)) PROVE NoNewCallout
  <2>1. PICK run : run = [Top EXCEPT !.todo = Tail(Top.todo)]
    OBVIOUS
  <2>2. SetTop(run) /\ run \in RunType /\ ~Busy(run)
    BY <1>1, <1>10, <2>1, TodoType DEF DoTimer, Serving, RunType, Busy
  <2> QED BY <1>5, <2>2
<1>11. NoNewCallout
  BY <1>6, <1>7, <1>8, <1>9, <1>10
<1> QED BY <1>2, <1>3, <1>4, <1>11 DEF Quiet

(* A timer fires: it was valid and not firing, and its date had come.       *)
LEMMA FireKeepsSchedule ==
  ASSUME Schedule, Shape', DoTimer, MayFire(Head(Top.todo))
  PROVE  Schedule'
<1>1. Running /\ Top \in RunType /\ Top.todo # <<>> /\ Top.at = "timers" /\ Len(runs) \in DOMAIN runs
  BY TopIsRun DEF Schedule, DoTimer, Serving
<1>2. PICK t \in Timers : t = Head(Top.todo)
  BY <1>1, TodoType
<1>3. t \in valid /\ t \notin firing /\ date[t] <= now
  BY <1>2 DEF MayFire
<1>4. PICK run : run = [Top EXCEPT !.at = "callout", !.handled = TRUE, !.old = date[t]]
  OBVIOUS
<1>5. /\ SetTop(run)
      /\ firing' = firing \cup {t}
      /\ fires' = [fires EXCEPT ![t] = @ + 1]
      /\ UNCHANGED <<now, date, valid, moved>>
  BY <1>2, <1>4 DEF DoTimer
<1>6. run \in RunType /\ run.todo = Top.todo /\ run.old = date[t]
  BY <1>1, <1>2, <1>4 DEF RunType, Places, Schedule, Shape, TypeOK
<1>7. /\ DOMAIN runs' = DOMAIN runs
      /\ \A d \in DOMAIN runs : runs'[d] = IF d = Len(runs) THEN run ELSE runs[d]
  BY <1>1, <1>5, <1>6, TopReplaced DEF Schedule
<1>8. ASSUME NEW d \in DOMAIN runs, d # Len(runs), Busy(runs[d])
      PROVE  /\ Head(runs[d].todo) \in firing /\ Head(runs[d].todo) # t
             /\ Head(runs[d].todo) \notin moved => runs[d].old = date[Head(runs[d].todo)]
             /\ \A e \in DOMAIN runs :
                  Busy(runs[e]) /\ e # d => Head(runs[e].todo) # Head(runs[d].todo)
  BY <1>3, <1>8 DEF Schedule, Callouts
<1>9. Callouts'
  <2> SUFFICES ASSUME NEW d \in DOMAIN runs, Busy(runs'[d])
               PROVE  /\ Head(runs'[d].todo) \in firing'
                      /\ Head(runs'[d].todo) \notin moved => runs'[d].old = date[Head(runs'[d].todo)]
                      /\ \A e \in DOMAIN runs :
                           Busy(runs'[e]) /\ e # d => Head(runs'[e].todo) # Head(runs'[d].todo)
    BY <1>5, <1>7 DEF Callouts
  <2>1. CASE d = Len(runs)
    <3>1. runs'[d] = run /\ Head(runs'[d].todo) = t /\ runs'[d].old = date[t]
      BY <1>2, <1>6, <1>7, <2>1
    <3>2. \A e \in DOMAIN runs : Busy(runs'[e]) /\ e # d => Head(runs'[e].todo) # t
      BY <1>7, <1>8, <2>1
    <3> QED BY <1>5, <3>1, <3>2
  <2>2. CASE d # Len(runs)
    <3>1. runs'[d] = runs[d] /\ Busy(runs[d])
      BY <1>7, <2>2
    <3>2. /\ Head(runs[d].todo) \in firing /\ Head(runs[d].todo) # t
          /\ Head(runs[d].todo) \notin moved => runs[d].old = date[Head(runs[d].todo)]
          /\ \A e \in DOMAIN runs :
               Busy(runs[e]) /\ e # d => Head(runs[e].todo) # Head(runs[d].todo)
      BY <1>8, <2>2, <3>1
    <3>3. ASSUME NEW e \in DOMAIN runs, Busy(runs'[e]), e # d
          PROVE  Head(runs'[e].todo) # Head(runs'[d].todo)
      <4>1. CASE e = Len(runs)
        BY <1>2, <1>6, <1>7, <3>1, <3>2, <4>1
      <4>2. CASE e # Len(runs)
        BY <1>7, <3>1, <3>2, <3>3, <4>2
      <4> QED BY <4>1, <4>2
    <3> QED BY <1>5, <3>1, <3>2, <3>3
  <2> QED BY <2>1, <2>2
<1>10. now \in Nat /\ fires \in [Timers -> Nat] /\ Interval[t] \in Nat /\ First[t] \in Nat
  BY TimerConstants DEF Schedule, Shape, TypeOK, Instants
<1>11. ASSUME NEW u \in Timers, u # t
       PROVE  fires'[u] = fires[u] /\ date'[u] = date[u] /\ (u \in valid' \ firing' <=> u \in valid \ firing)
  BY <1>5, <1>10, <1>11
<1>12. ASSUME NEW u \in Repeating \ moved'
       PROVE  OnGrid(u)'
  <2>1. u \in Timers /\ OnGrid(u)
    BY <1>5 DEF Schedule, Repeating
  <2>2. CASE u # t
    BY <1>5, <1>11, <2>1, <2>2 DEF OnGrid
  <2>3. CASE u = t
    <3>1. PICK q \in Nat : date[t] = First[t] + q * Interval[t] /\ fires[t] <= q
      BY <1>3, <2>1, <2>3 DEF OnGrid
    <3>2. PICK f \in Nat : f = fires[t]
      BY <1>10
    <3>3. fires'[t] = f + 1 /\ f <= q /\ f + 1 <= q + 1
      BY <1>5, <1>10, <3>1, <3>2
    <3>4. f * Interval[t] \in Nat /\ f * Interval[t] <= q * Interval[t]
      BY <1>10, <3>3, Products
    <3>5. First[t] + f * Interval[t] <= now
      <4>1. PICK a \in Nat, b \in Nat : a = f * Interval[t] /\ b = q * Interval[t]
        BY <3>4, <1>10
      <4>2. date[t] = First[t] + b /\ a <= b
        BY <3>1, <3>4, <4>1
      <4>3. First[t] + a <= now
        BY <1>3, <1>10, <4>2
      <4> QED BY <4>1, <4>3
    <3>6. (f + 1) - 1 = f
      OBVIOUS
    <3> QED BY <1>5, <2>3, <3>1, <3>3, <3>5, <3>6 DEF OnGrid
  <2> QED BY <2>2, <2>3
<1>13. ASSUME NEW u \in Timers \ Repeating
       PROVE  Spent(u)'
  <2>1. Spent(u) /\ fires[u] \in Nat
    BY <1>10 DEF Schedule
  <2>2. CASE u # t
    BY <1>11, <2>1, <2>2 DEF Spent
  <2>3. CASE u = t
    BY <1>3, <1>5, <1>10, <2>1, <2>3 DEF Spent
  <2> QED BY <2>2, <2>3
<1> QED BY <1>9, <1>12, <1>13 DEF Schedule, Repeating

(* A callout ends: the timer goes on to a later period.                     *)
LEMMA FinishTimerKeepsSchedule ==
  ASSUME Schedule, Shape', FinishTimer
  PROVE  Schedule'
<1>1. Running /\ Top \in RunType /\ RunOK(Top) /\ Top.at = "served" /\ Len(runs) \in DOMAIN runs
  BY TopIsRun DEF Schedule, FinishTimer, Serving
<1>2. PICK t \in Timers : t = Head(Top.todo)
  BY FinishTimerDates DEF Schedule
<1>3. /\ Top.todo # <<>>
      /\ t \in valid => Interval[t] \in Nat \ {0}
      /\ t \in valid /\ ~(Top.old < date[t]) =>
           date' = [date EXCEPT ![t] = NextDate(Top.old, Interval[t])]
      /\ ~(t \in valid /\ ~(Top.old < date[t])) => date' = date
  BY <1>2, FinishTimerDates DEF Schedule
<1>4. Busy(Top) /\ Top.old <= now /\ Top.old \in Nat
  BY <1>1 DEF RunOK, Busy, RunType
<1>5. /\ t \in firing
      /\ t \notin moved => Top.old = date[t]
      /\ \A e \in DOMAIN runs : Busy(runs[e]) /\ e # Len(runs) => Head(runs[e].todo) # t
  BY <1>1, <1>2, <1>4 DEF Schedule, Callouts, Top
<1>6. PICK run : run = [Top EXCEPT !.at = "timers", !.todo = Tail(Top.todo)]
  OBVIOUS
<1>7. run \in RunType /\ ~Busy(run)
  BY <1>1, <1>3, <1>6, TodoType DEF RunType, Places, Busy
<1>8. SetTop(run) /\ firing' = firing \ {t} /\ UNCHANGED <<now, valid, fires, moved>>
  BY <1>2, <1>6 DEF FinishTimer, history
<1>9. /\ DOMAIN runs' = DOMAIN runs
      /\ \A d \in DOMAIN runs : runs'[d] = IF d = Len(runs) THEN run ELSE runs[d]
  BY <1>1, <1>7, <1>8, TopReplaced DEF Schedule
<1>10. date \in [Timers -> Nat] /\ \A u \in Timers : u # t => date'[u] = date[u]
  BY <1>3 DEF Schedule, Shape, TypeOK
<1>11. Callouts'
  <2>1. \A d \in DOMAIN runs' : Busy(runs'[d]) => d \in DOMAIN runs /\ runs'[d] = runs[d] /\ d # Len(runs)
    BY <1>7, <1>9
  <2>2. ASSUME NEW d \in DOMAIN runs, Busy(runs[d]), d # Len(runs)
        PROVE  /\ Head(runs[d].todo) \in firing' /\ date'[Head(runs[d].todo)] = date[Head(runs[d].todo)]
               /\ Head(runs[d].todo) \notin moved => runs[d].old = date[Head(runs[d].todo)]
               /\ \A e \in DOMAIN runs :
                    Busy(runs[e]) /\ e # d => Head(runs[e].todo) # Head(runs[d].todo)
    <3>1. Head(runs[d].todo) \in firing /\ Head(runs[d].todo) # t /\ firing \subseteq Timers
      BY <1>5, <2>2 DEF Schedule, Callouts, Shape, TypeOK
    <3> QED BY <1>8, <1>10, <2>2, <3>1 DEF Schedule, Callouts
  <2> QED BY <1>8, <2>1, <2>2 DEF Callouts
<1>12. now \in Nat /\ fires \in [Timers -> Nat] /\ First[t] \in Nat
  BY TimerConstants DEF Schedule, Shape, TypeOK, Instants
<1>13. ASSUME NEW u \in Repeating \ moved'
       PROVE  OnGrid(u)'
  <2>1. u \in Timers /\ OnGrid(u) /\ u \notin moved
    BY <1>8 DEF Schedule, Repeating
  <2>2. CASE u # t
    BY <1>8, <1>10, <2>1, <2>2 DEF OnGrid
  <2>3. CASE u = t /\ t \in valid
    <3>1. PICK q \in Nat : date[t] = First[t] + q * Interval[t] /\ fires[t] <= q + 1
      BY <2>1, <2>3 DEF OnGrid
    <3>2. Top.old = date[t] /\ ~(Top.old < date[t])
      BY <1>4, <1>5, <2>1, <2>3
    <3>3. PICK k \in Nat \ {0} : NextDate(Top.old, Interval[t]) = Top.old + k * Interval[t]
      BY <1>3, <1>4, <1>12, <2>3, NextDateIsLater
    <3>4. date'[t] = (First[t] + q * Interval[t]) + k * Interval[t]
      BY <1>3, <1>10, <2>3, <3>1, <3>2, <3>3
    <3>5. PICK i \in Nat, f \in Nat : i = Interval[t] /\ f = First[t]
      BY <1>3, <1>12, <2>3
    <3>6. (f + q * i) + k * i = f + (q + k) * i
      <4>1. (q + k) * i = q * i + k * i /\ q * i \in Nat /\ k * i \in Nat
        OBVIOUS
      <4> QED BY <4>1
    <3>7. date'[t] = First[t] + (q + k) * Interval[t]
      BY <3>4, <3>5, <3>6
    <3>8. q + k \in Nat /\ fires'[t] <= q + k /\ fires'[t] <= (q + k) + 1
      BY <1>8, <1>12, <3>1
    <3>9. fires'[t] > 0 => First[t] + (fires'[t] - 1) * Interval[t] <= now'
      BY <1>8, <2>1, <2>3 DEF OnGrid
    <3> QED BY <2>3, <3>7, <3>8, <3>9 DEF OnGrid
  <2>4. CASE u = t /\ t \notin valid
    BY <1>3, <1>8, <2>1, <2>4 DEF OnGrid
  <2> QED BY <2>2, <2>3, <2>4
<1>14. ASSUME NEW u \in Timers \ Repeating
       PROVE  Spent(u)'
  <2>1. Spent(u)
    BY DEF Schedule
  <2>2. u = t => t \notin valid
    BY <1>3, TimerConstants DEF Repeating
  <2> QED BY <1>8, <2>1, <2>2 DEF Spent
<1> QED BY <1>11, <1>13, <1>14 DEF Schedule, Repeating

LEMMA ScheduleNext == Schedule /\ [Next]_vars => Schedule'
<1> SUFFICES ASSUME Schedule, [Next]_vars
             PROVE  Schedule'
  OBVIOUS
<1>1. Shape /\ Shape'
  BY ShapeNext DEF Schedule
<1>2. now \in Nat
  BY <1>1, TimerConstants DEF Shape, TypeOK, Instants
<1>3. CASE Tick
  <2>1. Quiet
    BY <1>2, <1>3 DEF Quiet, NoNewCallout, Tick, timerVars, history
  <2> QED BY <1>1, <2>1, QuietKeepsSchedule
<1>4. CASE UNCHANGED vars
  <2>1. Quiet
    BY <1>2, <1>4 DEF Quiet, NoNewCallout, vars, timerVars, history
  <2> QED BY <1>1, <2>1, QuietKeepsSchedule
<1>5. CASE \E th \in Threads : BeginCall(th) \/ FinishCall(th)
  <2>1. Quiet
    BY <1>1, <1>5, BeginCallQuiet, FinishCallQuiet
  <2> QED BY <1>1, <2>1, QuietKeepsSchedule
<1>6. CASE Wait \/ DoTimers \/ Return \/ EndPass \/ (DoTimer /\ ~MayFire(Head(Top.todo)))
  <2>1. Quiet
    BY <1>1, <1>6, LoopQuiet
  <2> QED BY <1>1, <2>1, QuietKeepsSchedule
<1>7. CASE DoTimer /\ MayFire(Head(Top.todo))
  BY <1>1, <1>7, FireKeepsSchedule
<1>8. CASE FinishTimer
  BY <1>1, <1>8, FinishTimerKeepsSchedule
<1> QED BY <1>3, <1>4, <1>5, <1>6, <1>7, <1>8 DEF Next, LoopStep

LEMMA InitSchedule == Init => Schedule
<1> SUFFICES ASSUME Init PROVE Schedule
  OBVIOUS
<1>1. DOMAIN runs = {}
  <2>1. runs = <<>>
    BY DEF Init
  <2> QED BY <2>1, EmptySeq, LenProperties
<1>2. ASSUME NEW t \in Timers
      PROVE  OnGrid(t) /\ Spent(t)
  <2>1. date[t] = First[t] /\ fires[t] = 0 /\ First[t] \in Nat /\ Interval[t] \in Nat
    BY TimerConstants DEF Init, Instants
  <2>2. 0 * Interval[t] = 0
    BY <2>1
  <2>3. date[t] = First[t] + 0 * Interval[t]
    BY <2>1, <2>2
  <2> QED BY <2>1, <2>3 DEF OnGrid, Spent
<1> QED BY <1>1, <1>2, InitShape DEF Schedule, Callouts, Repeating

(* A timer that repeats and that nobody moves is always on its grid, and    *)
(* fires at most once in a period; one that does not repeat fires at most   *)
(* once: however many runs are nested and have collected it.                *)
THEOREM TimersOnSchedule == Spec => []OnSchedule
<1>1. Spec => []Schedule
  BY InitSchedule, ScheduleNext, PTL DEF Spec
<1>2. Schedule => OnSchedule
  <2> SUFFICES ASSUME Schedule
               PROVE  OnSchedule
    OBVIOUS
  <2>1. ASSUME NEW t \in Repeating \ moved
        PROVE  (date[t] - First[t]) % Interval[t] = 0
    <3>1. PICK q \in Nat : date[t] = First[t] + q * Interval[t]
      BY DEF Schedule, OnGrid
    <3>2. First[t] \in Nat /\ Interval[t] \in Nat \ {0}
      BY TimerConstants DEF Repeating, Instants
    <3>3. date[t] - First[t] = q * Interval[t]
      <4>1. PICK p \in Nat : p = q * Interval[t]
        BY <3>2
      <4> QED BY <3>1, <3>2, <4>1
    <3> QED BY <3>2, <3>3, WholePeriods
  <2>2. \A t \in Repeating \ moved : fires[t] > 0 => First[t] + (fires[t] - 1) * Interval[t] <= now
    BY DEF Schedule, OnGrid
  <2>3. \A t \in Timers \ Repeating : fires[t] <= 1
    BY DEF Schedule, Spent
  <2> QED BY <2>1, <2>2, <2>3 DEF OnSchedule
<1> QED BY <1>1, <1>2, PTL

-----------------------------------------------------------------------------
(* The order of the timers in a mode.                                       *)

(* What is left of a call is part of the program of its thread, and the     *)
(* modes a date is to be set in are all that the timer has.                 *)
Origins ==
  \A th \in Threads : call[th].op \in {"setDate", "add"} =>
    \E i \in DOMAIN Program[th] : \E c \in Program[th][i] :
      c.op = call[th].op /\ c.timer = call[th].timer

ModesKnown ==
  \A th \in Threads : call[th].op = "setDate" => rlModes[call[th].timer] \subseteq call[th].modes

(* A timer that a thread is about to add, while another one sets its date,  *)
(* is added to a mode that this one knows of.                               *)
AddsKnown ==
  \A v, th \in Threads :
    v # th /\ call[v].op = "setDate" /\ call[th].op = "add" /\ call[v].timer = call[th].timer =>
      call[th].mode \in call[v].modes

Order == Shape /\ Origins /\ ModesKnown /\ TimersSorted

LEMMA SortedLists ==
  TimersSorted <=> \A m \in Modes : /\ ToSet(timers[m]) = {t \in Timers : m \in rlModes[t]}
                                    /\ Listing(timers[m], date)
BY DEF TimersSorted, Listing

(* A list that has not the timer whose date changes.                        *)
LEMMA ListingWithout ==
  ASSUME NEW list \in Seq(Timers), NEW t, NEW dates, NEW next,
         \A u \in Timers : u # t => next[u] = dates[u],
         t \notin ToSet(list), Listing(list, dates)
  PROVE  Listing(list, next)
<1>1. \A i \in DOMAIN list : list[i] \in Timers /\ list[i] # t
  BY LenProperties DEF ToSet
<1> QED BY <1>1 DEF Listing

(* A timer that is given a date and moved in all the modes that have it.    *)
LEMMA MoveKeepsOrder ==
  ASSUME TypeOK, TimersSorted, NEW t \in Timers, NEW dates \in [Timers -> Nat],
         \A u \in Timers : u # t => dates[u] = date[u],
         NEW here, \A m \in Modes : m \in here <=> m \in rlModes[t],
         timers' = [m \in Modes |-> IF m \in here THEN Inserted(Without(timers[m], t), t, dates)
                                    ELSE timers[m]],
         date' = dates, rlModes' = rlModes
  PROVE  TimersSorted'
<1> SUFFICES ASSUME NEW m \in Modes
             PROVE  /\ ToSet(timers'[m]) = {u \in Timers : m \in rlModes[u]}
                    /\ Listing(timers'[m], dates)
  BY DEF TimersSorted, Listing
<1>1. /\ timers[m] \in Seq(Timers)
      /\ ToSet(timers[m]) = {u \in Timers : m \in rlModes[u]}
      /\ Listing(timers[m], date)
  BY SortedLists DEF TypeOK
<1>2. CASE m \in here
  <2>1. PICK list \in Seq(Timers) : list = Without(timers[m], t) /\ ToSet(list) = ToSet(timers[m]) \ {t}
    BY <1>1, WithoutProperties
  <2>2. Listing(list, dates)
    BY <1>1, <2>1, WithoutKeepsListing
  <2>3. timers'[m] = Inserted(list, t, dates)
    BY <1>2, <2>1
  <2>4. t \in ToSet(timers[m]) /\ t \notin ToSet(list)
    BY <1>1, <1>2, <2>1
  <2> QED BY <1>1, <2>1, <2>2, <2>3, <2>4, InsertedProperties
<1>3. CASE m \notin here
  <2>1. timers'[m] = timers[m] /\ t \notin ToSet(timers[m])
    BY <1>1, <1>3
  <2> QED BY <1>1, <2>1, ListingWithout
<1> QED BY <1>2, <1>3

LEMMA RemoveKeepsOrder ==
  ASSUME TypeOK, TimersSorted, NEW t \in Timers, NEW ms \in SUBSET Modes, RemoveFromModes(t, ms)
  PROVE  TimersSorted' /\ \A u \in Timers : rlModes'[u] \subseteq rlModes[u]
<1> DEFINE here == {m \in ms : t \in ToSet(timers[m])}
<1>1. /\ timers' = [m \in Modes |-> IF m \in here THEN Without(timers[m], t) ELSE timers[m]]
      /\ rlModes' = [rlModes EXCEPT ![t] = @ \ here]
      /\ date' = date
  BY DEF RemoveFromModes, RemoveTimer, Arm
<1> HIDE DEF here
<1>2. rlModes \in [Timers -> SUBSET Modes]
  BY DEF TypeOK
<1>3. ASSUME NEW m \in Modes
      PROVE  /\ ToSet(timers'[m]) = {u \in Timers : m \in rlModes'[u]}
             /\ Listing(timers'[m], date)
  <2>1. /\ timers[m] \in Seq(Timers)
        /\ ToSet(timers[m]) = {u \in Timers : m \in rlModes[u]}
        /\ Listing(timers[m], date)
    BY SortedLists DEF TypeOK
  <2>2. CASE m \in here
    <3>1. timers'[m] = Without(timers[m], t)
      BY <1>1, <2>2
    <3>2. ToSet(Without(timers[m], t)) = ToSet(timers[m]) \ {t}
      BY <2>1, WithoutProperties
    <3>3. Listing(Without(timers[m], t), date)
      BY <2>1, WithoutKeepsListing
    <3>4. \A u \in Timers : m \in rlModes'[u] <=> m \in rlModes[u] /\ u # t
      BY <1>1, <1>2, <2>2
    <3> QED BY <2>1, <3>1, <3>2, <3>3, <3>4
  <2>3. CASE m \notin here
    <3>1. timers'[m] = timers[m] /\ \A u \in Timers : m \in rlModes'[u] <=> m \in rlModes[u]
      BY <1>1, <1>2, <2>3
    <3> QED BY <2>1, <3>1
  <2> QED BY <2>2, <2>3
<1>4. TimersSorted'
  BY <1>1, <1>3 DEF TimersSorted, Listing
<1> QED BY <1>1, <1>2, <1>4

LEMMA AddKeepsOrder ==
  ASSUME TypeOK, TimersSorted, NEW t \in Timers, NEW m \in Modes, AddTimer(t, m)
  PROVE  TimersSorted' /\ \A u \in Timers : rlModes'[u] \subseteq rlModes[u] \cup (IF u = t THEN {m} ELSE {})
<1>1. CASE m \in rlModes[t]
  BY <1>1 DEF AddTimer, TimersSorted, modeVars
<1>2. CASE m \notin rlModes[t]
  <2>1. /\ timers' = [timers EXCEPT ![m] = Inserted(@, t, date)]
        /\ rlModes' = [rlModes EXCEPT ![t] = @ \cup {m}]
        /\ date' = date
    BY <1>2 DEF AddTimer, Arm
  <2>2. rlModes \in [Timers -> SUBSET Modes] /\ timers \in [Modes -> Seq(Timers)] /\ date \in [Timers -> Nat]
    BY DEF TypeOK
  <2>3. ASSUME NEW k \in Modes
        PROVE  /\ ToSet(timers'[k]) = {u \in Timers : k \in rlModes'[u]}
               /\ Listing(timers'[k], date)
    <3>1. /\ timers[k] \in Seq(Timers)
          /\ ToSet(timers[k]) = {u \in Timers : k \in rlModes[u]}
          /\ Listing(timers[k], date)
      BY SortedLists DEF TypeOK
    <3>2. CASE k = m
      <4>1. timers'[k] = Inserted(timers[k], t, date) /\ t \notin ToSet(timers[k])
        BY <1>2, <2>1, <2>2, <3>1, <3>2
      <4>2. \A u \in Timers : k \in rlModes'[u] <=> k \in rlModes[u] \/ u = t
        BY <2>1, <2>2, <3>2
      <4>3. ToSet(timers'[k]) = ToSet(timers[k]) \cup {t} /\ Listing(timers'[k], date)
        BY <2>2, <3>1, <4>1, InsertedProperties
      <4> QED BY <3>1, <4>2, <4>3
    <3>3. CASE k # m
      <4>1. timers'[k] = timers[k] /\ \A u \in Timers : k \in rlModes'[u] <=> k \in rlModes[u]
        BY <2>1, <2>2, <3>3
      <4> QED BY <3>1, <4>1
    <3> QED BY <3>2, <3>3
  <2>4. TimersSorted'
    BY <2>1, <2>3 DEF TimersSorted, Listing
  <2> QED BY <2>1, <2>2, <2>4
<1> QED BY <1>1, <1>2

(* A step after which a thread has no other date to set and no timer to add.*)
LEMMA CallsKept ==
  ASSUME Shape, Origins, ModesKnown, NEW th \in Threads, NEW rest,
         call' = call \/ (call' = [call EXCEPT ![th] = rest] /\ rest.op \notin {"setDate", "add"}),
         \A u \in Timers : rlModes'[u] \subseteq rlModes[u]
  PROVE  Origins' /\ ModesKnown'
<1>1. call \in [Threads -> Rests \cup {NoCall}]
  BY DEF Shape, TypeOK
<1>2. ASSUME NEW v \in Threads, call'[v].op \in {"setDate", "add"}
      PROVE  call'[v] = call[v]
  BY <1>1, <1>2
<1>3. ASSUME NEW v \in Threads, call[v].op = "setDate"
      PROVE  call[v].timer \in Timers
  BY <1>1, <1>3 DEF Rests, NoCall
<1>4. Origins'
  BY <1>2 DEF Origins
<1>5. ASSUME NEW v \in Threads, call'[v].op = "setDate"
      PROVE  rlModes'[call'[v].timer] \subseteq call'[v].modes
  <2>1. call'[v] = call[v] /\ call[v].op = "setDate"
    BY <1>2, <1>5
  <2>2. call[v].timer \in Timers /\ rlModes[call[v].timer] \subseteq call[v].modes
    BY <1>3, <2>1 DEF ModesKnown
  <2> QED BY <2>1, <2>2
<1> QED BY <1>4, <1>5 DEF ModesKnown

LEMMA BeginCallOrder ==
  ASSUME Order, NEW th \in Threads, BeginCall(th)
  PROVE  Origins' /\ ModesKnown' /\ TimersSorted'
<1>1. PICK c \in Program[th][done[th] + 1] : MayCall(th, c) /\ FirstHalf(th, c)
  BY DEF BeginCall
<1>2. c \in Calls /\ Shape
  BY CallType DEF BeginCall, Order
<1>3. done[th] + 1 \in DOMAIN Program[th]
  <2>1. Program[th] \in Seq(SUBSET Calls) /\ done[th] \in Nat /\ done[th] < Len(Program[th])
    BY <1>2, TimerConstants DEF BeginCall, Shape, TypeOK
  <2> QED BY <2>1, LenProperties
<1>4. TypeOK /\ Origins /\ ModesKnown /\ TimersSorted
  BY DEF Order, Shape
<1>5. call \in [Threads -> Rests \cup {NoCall}] /\ rlModes \in [Timers -> SUBSET Modes]
  BY <1>4 DEF TypeOK
(* The rest of a call of the program.                                       *)
<1>6. ASSUME NEW rest, call' = [call EXCEPT ![th] = rest], rlModes' = rlModes,
             rest.op \in {"setDate", "add"} => rest.op = c.op /\ rest.timer = c.timer,
             rest.op = "setDate" => rest.modes = rlModes[rest.timer]
      PROVE  Origins' /\ ModesKnown'
  <2>1. \A v \in Threads : call'[v] = IF v = th THEN rest ELSE call[v]
    BY <1>5, <1>6
  <2>2. rest.op \in {"setDate", "add"} =>
          \E i \in DOMAIN Program[th] : \E d \in Program[th][i] : d.op = rest.op /\ d.timer = rest.timer
    BY <1>1, <1>3, <1>6
  <2>3. Origins'
    BY <1>4, <2>1, <2>2 DEF Origins
  <2>4. ModesKnown'
    BY <1>4, <1>6, <2>1 DEF ModesKnown
  <2> QED BY <2>3, <2>4
<1>7. CASE c.op = "setDate" /\ SetNextFireDate(th, c.timer, c.date)
  <2>1. UNCHANGED <<rlModes, timers>> /\ c.timer \in Timers
    BY <1>2, <1>7 DEF SetNextFireDate, modeVars, Calls
  <2>2. CASE c.timer \in valid /\ rlModes[c.timer] # {}
    <3>1. PICK next : /\ date' = date
                      /\ call' = [call EXCEPT ![th] = [op |-> "setDate", timer |-> c.timer,
                                    date |-> next, modes |-> rlModes[c.timer]]]
      BY <1>7, <2>2 DEF SetNextFireDate, Continue
    <3>2. Origins' /\ ModesKnown'
      BY <1>6, <1>7, <2>1, <3>1
    <3> QED BY <1>4, <2>1, <3>1, <3>2 DEF TimersSorted
  <2>3. CASE ~(c.timer \in valid /\ rlModes[c.timer] # {})
    <3>1. /\ call' = call
          /\ \A u \in Timers : u # c.timer => date'[u] = date[u]
          /\ date' = date \/ rlModes[c.timer] = {}
      BY <1>4, <1>7, <2>3 DEF SetNextFireDate, TypeOK
    <3>2. Origins' /\ ModesKnown'
      BY <1>2, <1>4, <2>1, <3>1, CallsKept
    <3>3. ASSUME NEW m \in Modes
          PROVE  Listing(timers[m], date')
      <4>1. /\ timers[m] \in Seq(Timers) /\ Listing(timers[m], date)
            /\ ToSet(timers[m]) = {u \in Timers : m \in rlModes[u]}
        BY <1>4, SortedLists DEF TypeOK
      <4>2. CASE date' = date
        BY <4>1, <4>2
      <4>3. CASE rlModes[c.timer] = {}
        <5>1. c.timer \notin ToSet(timers[m])
          BY <4>1, <4>3
        <5>2. PICK next : next = date'
          OBVIOUS
        <5>3. \A u \in Timers : u # c.timer => next[u] = date[u]
          BY <3>1, <5>2
        <5>4. Listing(timers[m], next)
          BY <4>1, <5>1, <5>3, ListingWithout
        <5> QED BY <5>2, <5>4
      <4> QED BY <3>1, <4>2, <4>3
    <3>4. TimersSorted'
      BY <1>4, <2>1, <3>3 DEF TimersSorted, Listing
    <3> QED BY <3>2, <3>4
  <2> QED BY <2>2, <2>3
<1>8. CASE c.op = "add" /\ Continue(th, IF c.timer \in valid THEN c ELSE NoCall)
           /\ UNCHANGED <<timerVars, modeVars, woken, runs, history>>
  <2>1. PICK rest \in {c, NoCall} : call' = [call EXCEPT ![th] = rest]
    BY <1>8 DEF Continue
  <2>2. rest.op \in {"setDate", "add"} => rest.op = c.op /\ rest.timer = c.timer
    BY <2>1 DEF NoCall
  <2>3. rest.op # "setDate"
    BY <1>8, <2>1 DEF NoCall
  <2>4. Origins' /\ ModesKnown'
    BY <1>6, <1>8, <2>1, <2>2, <2>3 DEF timerVars
  <2>5. TimersSorted'
    BY <1>4, <1>8 DEF timerVars, modeVars, TimersSorted
  <2> QED BY <2>4, <2>5
<1>9. CASE c.op = "remove" /\ RemoveFromModes(c.timer, {c.mode}) /\ UNCHANGED call
  <2>1. c.timer \in Timers /\ {c.mode} \in SUBSET Modes
    BY <1>2, <1>9 DEF Calls
  <2>2. TimersSorted' /\ \A u \in Timers : rlModes'[u] \subseteq rlModes[u]
    BY <1>4, <1>9, <2>1, RemoveKeepsOrder
  <2> QED BY <1>2, <1>4, <1>9, <2>2, CallsKept
<1>10. CASE c.op = "invalidate" /\ Invalidate(th, c.timer)
            /\ UNCHANGED <<date, rlModes, firing, modeVars, woken, runs, history>>
  <2>1. PICK rest : (call' = call \/ call' = [call EXCEPT ![th] = rest]) /\ rest.op = "invalidate"
    <3>1. PICK rest : rest = [op |-> "invalidate", timer |-> c.timer, modes |-> rlModes[c.timer]]
      OBVIOUS
    <3> QED BY <1>10, <3>1 DEF Invalidate, Continue
  <2>2. Origins' /\ ModesKnown'
    BY <1>2, <1>4, <1>10, <2>1, CallsKept
  <2> QED BY <1>4, <1>10, <2>2 DEF modeVars, TimersSorted
<1>11. CASE c.op = "run" /\ Run(c.mode, c.poll) /\ UNCHANGED call
  <2>1. Origins' /\ ModesKnown'
    BY <1>2, <1>4, <1>11, CallsKept DEF Run, timerVars
  <2> QED BY <1>4, <1>11, <2>1 DEF Run, timerVars, modeVars, TimersSorted
<1> QED BY <1>1, <1>7, <1>8, <1>9, <1>10, <1>11 DEF FirstHalf

LEMMA FinishCallOrder ==
  ASSUME AddsKnown, Order, NEW th \in Threads, FinishCall(th)
  PROVE  Origins' /\ ModesKnown' /\ TimersSorted'
<1>1. PICK c : c = call[th] /\ c \in Rests
  BY DEF Order, Shape, TypeOK, FinishCall
<1>2. SecondHalf(c)
  BY <1>1 DEF FinishCall
<1>3. Shape /\ TypeOK /\ Origins /\ ModesKnown /\ TimersSorted
  BY DEF Order, Shape
<1>4. call \in [Threads -> Rests \cup {NoCall}] /\ rlModes \in [Timers -> SUBSET Modes]
  BY <1>3 DEF TypeOK
<1>5. PICK rest : call' = [call EXCEPT ![th] = rest] /\ rest.op \notin {"setDate", "add"}
  <2>1. PICK rest : /\ rest \in {[op |-> "wake"], NoCall}
                    /\ call' = [call EXCEPT ![th] = rest]
    BY DEF FinishCall, Continue
  <2>2. rest.op \notin {"setDate", "add"}
    BY <2>1 DEF NoCall
  <2> QED BY <2>1, <2>2
<1>6. CASE c.op = "setDate" /\ SetDate(c.timer, c.date, c.modes)
  <2>1. PICK t \in Timers, ms \in SUBSET Modes, d \in Instants : t = c.timer /\ ms = c.modes /\ d = c.date
    BY <1>1, <1>6 DEF Rests
  <2>2. date' = [date EXCEPT ![t] = d] /\ Reposition(t, ms, date') /\ rlModes' = rlModes
    BY <1>6, <2>1 DEF SetDate
  <2>3. PICK dates \in [Timers -> Nat] : dates = date' /\ \A u \in Timers : u # t => dates[u] = date[u]
    <3>1. date \in [Timers -> Nat] /\ d \in Nat
      BY <1>3 DEF TypeOK, Instants
    <3> QED BY <2>2, <3>1
  <2>4. PICK here : here = {m \in ms : t \in ToSet(timers[m])}
    OBVIOUS
  <2>5. \A m \in Modes : m \in here <=> m \in rlModes[t]
    <3>1. rlModes[t] \subseteq ms
      BY <1>1, <1>3, <1>6, <2>1 DEF ModesKnown
    <3>2. \A m \in Modes : t \in ToSet(timers[m]) <=> m \in rlModes[t]
      BY <1>3 DEF TimersSorted
    <3> QED BY <2>4, <3>1, <3>2
  <2>6. timers' = [m \in Modes |-> IF m \in here THEN Inserted(Without(timers[m], t), t, dates)
                                   ELSE timers[m]]
    BY <2>2, <2>3, <2>4 DEF Reposition, Arm
  <2>7. date' = dates /\ rlModes' = rlModes
    BY <2>2, <2>3
  <2>8. TimersSorted'
    BY <1>3, <2>3, <2>5, <2>6, <2>7, MoveKeepsOrder
  <2> QED BY <1>3, <1>5, <2>2, <2>8, CallsKept
<1>7. CASE c.op = "add" /\ AddTimer(c.timer, c.mode)
  <2>1. PICK t \in Timers, m \in Modes : t = c.timer /\ m = c.mode
    BY <1>1, <1>7 DEF Rests
  <2>2. TimersSorted' /\ \A u \in Timers : rlModes'[u] \subseteq rlModes[u] \cup (IF u = t THEN {m} ELSE {})
    BY <1>3, <1>7, <2>1, AddKeepsOrder
  <2>3. \A v \in Threads : v # th => call'[v] = call[v]
    BY <1>4, <1>5
  <2>4. \A v \in Threads : call'[v].op \in {"setDate", "add"} => v # th
    BY <1>4, <1>5
  <2>5. Origins'
    BY <1>3, <2>3, <2>4 DEF Origins
  <2>6. ASSUME NEW v \in Threads, call'[v].op = "setDate"
        PROVE  rlModes'[call'[v].timer] \subseteq call'[v].modes
    <3>1. v # th /\ call'[v] = call[v] /\ call[v].op = "setDate"
      BY <2>3, <2>4, <2>6
    <3>2. call[v].timer \in Timers
      BY <1>4, <3>1 DEF Rests, NoCall
    <3>3. rlModes[call[v].timer] \subseteq call[v].modes
      BY <1>3, <3>1 DEF ModesKnown
    <3>4. CASE call[v].timer = t
      <4>1. m \in call[v].modes
        BY <1>1, <1>7, <2>1, <3>1, <3>4 DEF AddsKnown
      <4> QED BY <2>2, <3>1, <3>2, <3>3, <3>4, <4>1
    <3>5. CASE call[v].timer # t
      BY <2>2, <3>1, <3>2, <3>3, <3>5
    <3> QED BY <3>4, <3>5
  <2> QED BY <2>2, <2>5, <2>6 DEF ModesKnown
<1>8. CASE c.op = "invalidate" /\ RemoveFromModes(c.timer, c.modes)
  <2>1. c.timer \in Timers /\ c.modes \in SUBSET Modes
    BY <1>1, <1>8 DEF Rests
  <2>2. TimersSorted' /\ \A u \in Timers : rlModes'[u] \subseteq rlModes[u]
    BY <1>3, <1>8, <2>1, RemoveKeepsOrder
  <2> QED BY <1>3, <1>5, <2>2, CallsKept
<1>9. CASE c.op = "wake" /\ WakeUp
  <2>1. UNCHANGED <<date, rlModes, timers>>
    BY <1>9 DEF WakeUp, timerVars, modeVars
  <2>2. TimersSorted'
    BY <1>3, <2>1 DEF TimersSorted
  <2> QED BY <1>3, <1>5, <2>1, <2>2, CallsKept
<1> QED BY <1>2, <1>6, <1>7, <1>8, <1>9 DEF SecondHalf

(* A callout that ends gives its timer the next date in all its modes.      *)
LEMMA FinishTimerOrder ==
  ASSUME Order, FinishTimer
  PROVE  Origins' /\ ModesKnown' /\ TimersSorted'
<1>1. Shape /\ TypeOK /\ Origins /\ ModesKnown /\ TimersSorted
  BY DEF Order, Shape
<1>2. PICK t \in Timers : t = Head(Top.todo)
  BY <1>1, FinishTimerDates
<1>3. PICK dates \in [Timers -> Nat] : dates = date'
  BY <1>1, FinishTimerDates
<1>4. rlModes' = rlModes /\ call' = call
  BY DEF FinishTimer, threadVars
<1>5. Loop \in Threads
  BY DEF Threads
<1>6. Origins' /\ ModesKnown'
  BY <1>1, <1>4, <1>5, CallsKept
<1>7. CASE ~(t \in valid /\ ~(Top.old < date[t]))
  <2>1. date' = date /\ timers' = timers
    BY <1>2, <1>7 DEF FinishTimer, modeVars, Arm
  <2> QED BY <1>1, <1>4, <1>6, <2>1 DEF TimersSorted
<1>8. CASE t \in valid /\ ~(Top.old < date[t])
  <2>1. PICK here : here = {m \in rlModes[t] : t \in ToSet(timers[m])}
    OBVIOUS
  <2>2. /\ date' = [date EXCEPT ![t] = NextDate(Top.old, Interval[t])]
        /\ timers' = [m \in Modes |-> IF m \in here THEN Inserted(Without(timers[m], t), t, dates)
                                      ELSE timers[m]]
    BY <1>2, <1>3, <1>8, <2>1 DEF FinishTimer, Arm
  <2>3. \A u \in Timers : u # t => dates[u] = date[u]
    BY <1>1, <1>3, <2>2 DEF TypeOK
  <2>4. \A m \in Modes : m \in here <=> m \in rlModes[t]
    BY <1>1, <2>1 DEF TimersSorted
  <2>5. TimersSorted'
    BY <1>1, <1>3, <1>4, <2>2, <2>3, <2>4, MoveKeepsOrder
  <2> QED BY <1>6, <2>5
<1> QED BY <1>7, <1>8

LEMMA OrderNext == AddsKnown /\ Order /\ [Next]_vars => Order'
<1> SUFFICES ASSUME AddsKnown, Order, [Next]_vars
             PROVE  Order'
  OBVIOUS
<1>1. Shape /\ Shape' /\ Origins /\ ModesKnown /\ TimersSorted
  BY ShapeNext DEF Order
<1>2. Loop \in Threads
  BY DEF Threads
(* Steps that move no timer, and leave at most a call to remove one.        *)
<1>3. ASSUME NEW rest, UNCHANGED <<date, rlModes, timers>>,
             call' = call \/ (call' = [call EXCEPT ![Loop] = rest] /\ rest.op \notin {"setDate", "add"})
      PROVE  Order'
  <2>1. Origins' /\ ModesKnown'
    BY <1>1, <1>2, <1>3, CallsKept
  <2> QED BY <1>1, <1>3, <2>1 DEF Order, TimersSorted
<1>4. CASE Tick \/ Wait \/ DoTimers \/ UNCHANGED vars
  <2>1. UNCHANGED <<date, rlModes, timers>> /\ call' = call
    BY <1>4 DEF Tick, Wait, DoTimers, vars, timerVars, modeVars, threadVars
  <2> QED BY <1>3, <2>1
<1>5. CASE DoTimer \/ EndPass
  <2>1. UNCHANGED <<date, rlModes, timers>> /\ call' = call
    BY <1>5 DEF DoTimer, EndPass, timerVars, modeVars, threadVars, Arm
  <2> QED BY <1>3, <2>1
<1>6. CASE Return
  <2>1. UNCHANGED <<date, rlModes, timers>>
    BY <1>6 DEF Return, modeVars
  <2>2. PICK rest : (call' = call \/ call' = [call EXCEPT ![Loop] = rest]) /\ rest.op = "invalidate"
    <3>1. PICK rest : rest = [op |-> "invalidate", timer |-> Head(Top.todo), modes |-> rlModes[Head(Top.todo)]]
      OBVIOUS
    <3> QED BY <1>6, <3>1 DEF Return, Invalidate, Continue
  <2> QED BY <1>3, <2>1, <2>2
<1>7. CASE \E th \in Threads : BeginCall(th) \/ FinishCall(th)
  BY <1>1, <1>7, BeginCallOrder, FinishCallOrder DEF Order
<1>8. CASE FinishTimer
  BY <1>1, <1>8, FinishTimerOrder DEF Order
<1> QED BY <1>4, <1>5, <1>6, <1>7, <1>8 DEF Next, LoopStep

(* At first the modes have the timers that are scheduled in them.           *)
LEMMA AllOrdered ==
  ASSUME NEW list \in ByFirst
  PROVE  /\ list \in Seq(Timers)
         /\ ToSet(list) = Timers
         /\ \A i, j \in DOMAIN list : i < j => list[i] # list[j] /\ First[list[i]] <= First[list[j]]
<1> DEFINE n == Cardinality(Timers)
<1>1. n \in Nat /\ IsFiniteSet(Timers)
  BY TimerConstants, FS_CardinalityType
<1>2. /\ list \in [1..n -> Timers]
      /\ \A i, j \in 1..n : i # j => list[i] # list[j]
      /\ \A i, j \in DOMAIN list : i < j => First[list[i]] <= First[list[j]]
  BY DEF ByFirst, SetToSeqs
<1> HIDE DEF ByFirst
<1>3. list \in Seq(Timers) /\ DOMAIN list = 1..n
  BY <1>1, <1>2, IsASeq
<1>4. Cardinality(1..n) = n
  BY <1>1, FS_Interval
<1>5. list \in Injection(1..n, Timers)
  BY <1>2 DEF Injection, IsInjective
<1>6. list \in Surjection(1..n, Timers)
  BY <1>1, <1>4, <1>5, FS_Injection
<1>7. ToSet(list) = Timers
  BY <1>2, <1>3, <1>6 DEF Surjection, ToSet
<1>8. \A i, j \in DOMAIN list : i < j => list[i] # list[j] /\ First[list[i]] <= First[list[j]]
  BY <1>1, <1>2, <1>3
<1> QED BY <1>3, <1>7, <1>8

LEMMA InitOrder == Init => Order
<1> SUFFICES ASSUME Init PROVE Order
  OBVIOUS
<1>1. Shape
  BY InitShape
<1>2. \A th \in Threads : call[th].op \notin {"setDate", "add"}
  BY DEF Init, NoCall
<1>3. date = First /\ rlModes = Scheduled
  BY DEF Init
<1>4. PICK order \in [Modes -> ByFirst] :
        timers = [m \in Modes |-> Among(order[m], {t \in Timers : m \in Scheduled[t]})]
  BY DEF Init
<1> HIDE DEF ByFirst
<1>5. ASSUME NEW m \in Modes
      PROVE  /\ ToSet(timers[m]) = {t \in Timers : m \in rlModes[t]}
             /\ Listing(timers[m], date)
  <2>1. PICK list \in ByFirst : list = order[m]
    OBVIOUS
  <2>2. PICK set : set = {t \in Timers : m \in Scheduled[t]}
    OBVIOUS
  <2>3. timers[m] = Among(list, set)
    BY <1>4, <2>1, <2>2
  <2>4. /\ list \in Seq(Timers)
        /\ ToSet(list) = Timers
        /\ \A i, j \in DOMAIN list : i < j => list[i] # list[j] /\ First[list[i]] <= First[list[j]]
    BY AllOrdered
  <2>5. ToSet(timers[m]) = set
    <3>1. ToSet(Among(list, set)) = ToSet(list) \cap set
      BY <2>4, AmongProperties
    <3> QED BY <2>2, <2>3, <2>4, <3>1
  <2>6. Listing(Among(list, set), First)
    <3> DEFINE R == {p \in Timers \X Timers : p[1] # p[2] /\ First[p[1]] <= First[p[2]]}
    <3>1. \A i \in DOMAIN list : list[i] \in Timers
      BY <2>4, LenProperties
    <3>2. \A i, j \in DOMAIN list :
            i < j /\ list[i] \in set /\ list[j] \in set => <<list[i], list[j]>> \in R
      BY <2>4, <3>1
    <3>3. \A i, j \in DOMAIN Among(list, set) :
            i < j => <<Among(list, set)[i], Among(list, set)[j]>> \in R
      <4> HIDE DEF R
      <4> QED BY <2>4, <3>2, AmongKeepsOrder
    <3> QED BY <3>3 DEF Listing
  <2> QED BY <1>3, <2>2, <2>3, <2>5, <2>6
<1>6. TimersSorted
  BY <1>5, SortedLists
<1> QED BY <1>1, <1>2, <1>6 DEF Order, Origins, ModesKnown

(* A mode lists the timers that are scheduled in it, each once and in the   *)
(* order of their dates, whoever adds, moves, removes and serves them: as   *)
(* long as no thread adds a timer while another sets its date, since that   *)
(* call looks at the modes of the timer before it locks the run loop.       *)
THEOREM TimersStaySorted ==
  ASSUME AddsAndSetsApart
  PROVE  Spec => []TimersSorted
<1>1. Order => TimersSorted
  BY DEF Order
<1>2. Order => AddsKnown
  <2> SUFFICES ASSUME Order, NEW v \in Threads, NEW th \in Threads, v # th,
                      call[v].op = "setDate", call[th].op = "add"
               PROVE  call[v].timer # call[th].timer
    BY DEF AddsKnown
  <2>1. PICK i \in DOMAIN Program[v] : \E c \in Program[v][i] : c.op = "setDate" /\ c.timer = call[v].timer
    BY DEF Order, Origins
  <2>2. PICK j \in DOMAIN Program[th] : \E c \in Program[th][j] : c.op = "add" /\ c.timer = call[th].timer
    BY DEF Order, Origins
  <2> QED BY <2>1, <2>2 DEF AddsAndSetsApart
<1>3. Order /\ [Next]_vars => Order'
  BY <1>2, OrderNext
<1> QED BY <1>1, <1>3, InitOrder, PTL DEF Spec

-----------------------------------------------------------------------------
(* The timerfds are armed in time.                                          *)

(* A timer is only ever in the modes it can be in: those of the loop, of the *)
(* calls in progress, and of the runs that have collected it.               *)
IsSet(t) == \E c \in AllCalls : c.op = "setDate" /\ c.timer = t

InReach ==
  /\ \A t \in Timers : rlModes[t] \subseteq Reach(t)
  /\ \A th \in Threads :
       /\ call[th].op = "add" => call[th].mode \in Reach(call[th].timer)
       /\ call[th].op = "setDate" => call[th].modes # {} /\ call[th].modes \subseteq Reach(call[th].timer)
  /\ \A t \in moved : IsSet(t)

(* ... and a run has handled nothing before its pass.                       *)
RunTidy(run) ==
  /\ \A t \in ToSet(run.todo) : run.mode \in Reach(t)
  /\ run.at \in {"asleep", "awake"} => ~run.handled

Tidy == \A d \in DOMAIN runs : RunTidy(runs[d])

(* The timerfd of a mode is armed for the deadline on record, if there is   *)
(* one, unless it has expired and its pass has handled no timer yet.        *)
Served(m) ==
  Running /\ Top.mode = m /\ Top.onTimer /\ Top.at \in {"awake", "timers"} /\ ~Top.handled

Sound(m) == deadline[m] = Never \/ armed[m] = deadline[m] \/ Served(m)

(* That deadline is no later than any timer that is not in a callout.       *)
Early(m) ==
  \A t \in ToSet(timers[m]) \cap valid :
    t \in firing \/ (deadline[m] \in Nat /\ deadline[m] <= date[t])

Deadlines == \A m \in Modes : Sound(m) /\ Early(m)

Armory == Order /\ Schedule /\ InReach /\ Tidy /\ Deadlines

(* In a sorted list the deadline that is chosen is the first date of those  *)
(* that are not firing.                                                     *)
LEMMA NextDeadlineIsFirst ==
  ASSUME NEW list \in Seq(Timers), NEW dates \in [Timers -> Nat], NEW busy,
         Listing(list, dates), NEW t \in ToSet(list), t \notin busy
  PROVE  NextDeadline(list, dates, busy) \in Nat /\ NextDeadline(list, dates, busy) <= dates[t]
<1> DEFINE idle == Among(list, Timers \ busy)
           falls(k) == \A i \in 1..(k - 1) : dates[idle[i + 1]] <= dates[idle[i]]
           T == {k \in DOMAIN idle : falls(k)}
           R == {p \in Timers \X Timers : p[1] # p[2] /\ dates[p[1]] <= dates[p[2]]}
<1>1. NextDeadline(list, dates, busy) = IF idle = <<>> THEN Never ELSE dates[idle[Max(T)]]
  BY DEF NextDeadline
<1>2. \A i \in DOMAIN list : list[i] \in Timers
  BY LenProperties
<1>3. idle \in Seq(Timers) /\ ToSet(idle) = ToSet(list) \cap (Timers \ busy)
  BY AmongProperties
<1>4. \A i, j \in DOMAIN idle : i < j => <<idle[i], idle[j]>> \in R
  <2>1. \A i, j \in DOMAIN list :
          i < j /\ list[i] \in Timers \ busy /\ list[j] \in Timers \ busy => <<list[i], list[j]>> \in R
    BY <1>2 DEF Listing
  <2> HIDE DEF R
  <2> QED BY <2>1, AmongKeepsOrder
<1>5. \A i, j \in DOMAIN idle : i < j => dates[idle[i]] <= dates[idle[j]]
  BY <1>4
<1> HIDE DEF idle, R
<1>6. Len(idle) \in Nat /\ DOMAIN idle = 1..Len(idle) /\ \A i \in DOMAIN idle : idle[i] \in Timers
  BY <1>3, LenProperties
<1>7. PICK p \in DOMAIN idle : idle[p] = t
  <2>1. t \in ToSet(idle)
    BY <1>2, <1>3 DEF ToSet
  <2> QED BY <2>1 DEF ToSet
<1>8. 1 \in DOMAIN idle /\ idle # <<>>
  BY <1>6, <1>7, EmptySeq
<1>9. Max(T) \in T
  <2>1. falls(1)
    OBVIOUS
  <2>2. T \in SUBSET (1..Len(idle)) /\ T # {}
    BY <1>6, <1>8, <2>1
  <2> HIDE DEF T
  <2> QED BY <1>6, <2>2, GreatestElement
<1>10. PICK k \in DOMAIN idle : k = Max(T) /\ falls(k)
  BY <1>9
<1> HIDE DEF T
<1>11. dates[idle[k]] <= dates[idle[1]]
  <2> DEFINE P == {n \in Nat : n + 1 <= k => dates[idle[n + 1]] <= dates[idle[1]]}
  <2>1. k \in 1..Len(idle) /\ \A i \in 1..k : dates[idle[i]] \in Nat
    BY <1>6, <1>10
  <2>2. 0 \in P
    BY <1>6, <1>8
  <2>3. ASSUME NEW n \in Nat, n \in P
        PROVE  n + 1 \in P
    <3> SUFFICES ASSUME (n + 1) + 1 <= k
                 PROVE  dates[idle[(n + 1) + 1]] <= dates[idle[1]]
      OBVIOUS
    <3>1. n + 1 \in 1..(k - 1) /\ n + 1 \in 1..k /\ (n + 1) + 1 \in 1..k /\ 1 \in 1..k
      BY <2>1
    <3>2. dates[idle[n + 1]] <= dates[idle[1]] /\ dates[idle[(n + 1) + 1]] <= dates[idle[n + 1]]
      BY <1>10, <2>3, <3>1
    <3> QED BY <2>1, <3>1, <3>2
  <2>4. \A n \in Nat : n \in P
    <3> HIDE DEF P
    <3> QED BY <2>2, <2>3, InductionOverSet
  <2>5. k - 1 \in Nat /\ (k - 1) + 1 = k
    BY <2>1
  <2> QED BY <2>4, <2>5
<1>12. dates[idle[1]] <= dates[t]
  <2>1. p = 1 \/ 1 < p
    BY <1>6, <1>7
  <2> QED BY <1>5, <1>6, <1>7, <1>8, <2>1
<1>13. dates[idle[k]] \in Nat /\ dates[idle[1]] \in Nat /\ dates[t] \in Nat
  BY <1>6, <1>7, <1>8, <1>10
<1>14. NextDeadline(list, dates, busy) = dates[idle[k]]
  BY <1>1, <1>8, <1>10
<1> QED BY <1>11, <1>12, <1>13, <1>14

(* What arming does to a mode.                                              *)
LEMMA ArmedIsEarly ==
  ASSUME NEW ms, NEW lists \in [Modes -> Seq(Timers)], NEW dates \in [Timers -> Nat], NEW busy,
         NEW recorded, Arm(ms, lists, dates, busy, recorded),
         NEW m \in Modes, m \in ms, Listing(lists[m], dates), NEW t \in ToSet(lists[m]), t \notin busy
  PROVE  deadline'[m] \in Nat /\ deadline'[m] <= dates[t]
<1>1. deadline'[m] = NextDeadline(lists[m], dates, busy)
  BY DEF Arm
<1>2. PICK list \in Seq(Timers) : list = lists[m]
  OBVIOUS
<1> QED BY <1>1, <1>2, NextDeadlineIsFirst

LEMMA ArmedIsSound ==
  ASSUME NEW ms, NEW lists, NEW dates, NEW busy,
         NEW recorded, Arm(ms, lists, dates, busy, recorded),
         NEW m \in Modes, recorded[m] = Never \/ armed[m] = recorded[m]
  PROVE  deadline'[m] = Never \/ armed'[m] = deadline'[m]
<1>1. PICK next : next = NextDeadline(lists[m], dates, busy)
  OBVIOUS
<1>2. /\ deadline'[m] = IF m \in ms THEN next ELSE recorded[m]
      /\ armed'[m] = IF m \in ms THEN Armed(next, recorded[m], armed[m]) ELSE armed[m]
  BY <1>1 DEF Arm
<1> QED BY <1>2 DEF Armed

(* The steps that are no calls leave the modes of the timers alone.         *)
LEMMA LoopKeepsModes ==
  ASSUME Tick \/ LoopStep \/ UNCHANGED vars
  PROVE  /\ rlModes' = rlModes /\ moved' = moved
         /\ \E rest : /\ call' = call \/ call' = [call EXCEPT ![Loop] = rest]
                      /\ rest.op = "invalidate"
<1>1. PICK rest : rest = [op |-> "invalidate", timer |-> Head(Top.todo), modes |-> rlModes[Head(Top.todo)]]
  OBVIOUS
<1>2. CASE Return
  BY <1>1, <1>2 DEF Return, Invalidate, Continue, history
<1>3. CASE ~Return
  <2>1. rlModes' = rlModes /\ moved' = moved /\ call' = call
    BY <1>3 DEF Tick, LoopStep, Wait, DoTimers, DoTimer, FinishTimer, EndPass,
                vars, timerVars, threadVars, history
  <2> QED BY <1>1, <2>1
<1> QED BY <1>2, <1>3

(* A call that is left over after a step, when it is one of a few.          *)
LEMMA ReachOfCalls ==
  ASSUME Shape, InReach, NEW th \in Threads, NEW rest,
         call' = call \/ call' = [call EXCEPT ![th] = rest],
         rest.op = "add" => rest.mode \in Reach(rest.timer),
         rest.op = "setDate" => rest.modes # {} /\ rest.modes \subseteq Reach(rest.timer),
         NEW v \in Threads
  PROVE  /\ call'[v].op = "add" => call'[v].mode \in Reach(call'[v].timer)
         /\ call'[v].op = "setDate" => call'[v].modes # {} /\ call'[v].modes \subseteq Reach(call'[v].timer)
<1>1. call \in [Threads -> Rests \cup {NoCall}]
  BY DEF Shape, TypeOK
<1>2. call'[v] = call[v] \/ call'[v] = rest
  BY <1>1
<1>3. /\ call[v].op = "add" => call[v].mode \in Reach(call[v].timer)
      /\ call[v].op = "setDate" => call[v].modes # {} /\ call[v].modes \subseteq Reach(call[v].timer)
  BY DEF InReach
<1> QED BY <1>2, <1>3

LEMMA InReachNext ==
  ASSUME Order, InReach, [Next]_vars
  PROVE  InReach'
<1>1. Shape /\ TypeOK /\ Origins /\ TimersSorted
  BY DEF Order, Shape
<1>2. call \in [Threads -> Rests \cup {NoCall}] /\ rlModes \in [Timers -> SUBSET Modes]
  BY <1>1 DEF TypeOK
<1>3. ASSUME NEW th \in Threads, NEW rest,
             call' = call \/ call' = [call EXCEPT ![th] = rest],
             rest.op = "add" => rest.mode \in Reach(rest.timer),
             rest.op = "setDate" => rest.modes # {} /\ rest.modes \subseteq Reach(rest.timer),
             \A t \in Timers : rlModes'[t] \subseteq Reach(t),
             \A t \in moved' : t \in moved \/ IsSet(t)
      PROVE  InReach'
  <2>1. \A v \in Threads :
          /\ call'[v].op = "add" => call'[v].mode \in Reach(call'[v].timer)
          /\ call'[v].op = "setDate" =>
               call'[v].modes # {} /\ call'[v].modes \subseteq Reach(call'[v].timer)
    BY <1>1, <1>3, ReachOfCalls
  <2>2. \A t \in moved' : IsSet(t)
    BY <1>3 DEF InReach
  <2> QED BY <1>3, <2>1, <2>2 DEF InReach
<1>4. \A t \in Timers : rlModes[t] \subseteq Reach(t)
  BY DEF InReach
<1>5. CASE Tick \/ LoopStep \/ UNCHANGED vars
  <2>1. PICK rest : /\ call' = call \/ call' = [call EXCEPT ![Loop] = rest]
                    /\ rest.op = "invalidate"
    BY <1>5, LoopKeepsModes
  <2>2. rlModes' = rlModes /\ moved' = moved /\ Loop \in Threads
    BY <1>5, LoopKeepsModes DEF Threads
  <2> QED BY <1>3, <1>4, <2>1, <2>2
<1>6. ASSUME NEW th \in Threads, BeginCall(th)
      PROVE  InReach'
  <2>1. PICK c \in Program[th][done[th] + 1] : FirstHalf(th, c)
    BY <1>6 DEF BeginCall
  <2>2. c \in Calls
    BY <1>1, <1>6, CallType DEF BeginCall
  <2>3. done[th] + 1 \in DOMAIN Program[th]
    <3>1. Program[th] \in Seq(SUBSET Calls) /\ done[th] \in Nat /\ done[th] < Len(Program[th])
      BY <1>1, <1>6, TimerConstants DEF BeginCall, TypeOK
    <3> QED BY <3>1, LenProperties
  <2>4. c \in AllCalls
    BY <2>1, <2>3 DEF AllCalls
  <2>5. PICK idle : idle = NoCall
    OBVIOUS
  <2>6. idle.op = "return"
    BY <2>5 DEF NoCall
  <2>7. CASE c.op = "setDate" /\ SetNextFireDate(th, c.timer, c.date)
    <3>1. rlModes' = rlModes /\ c.timer \in Timers /\ IsSet(c.timer)
      BY <2>2, <2>4, <2>7 DEF SetNextFireDate, Calls, IsSet
    <3>2. CASE c.timer \in valid /\ rlModes[c.timer] # {}
      <4>1. PICK next : /\ moved' = moved
                        /\ call' = [call EXCEPT ![th] = [op |-> "setDate", timer |-> c.timer,
                                      date |-> next, modes |-> rlModes[c.timer]]]
        BY <2>7, <3>2 DEF SetNextFireDate, Continue
      <4>2. PICK rest : rest = [op |-> "setDate", timer |-> c.timer,
                                date |-> next, modes |-> rlModes[c.timer]]
        OBVIOUS
      <4>3. rest.op = "setDate" /\ rest.modes # {} /\ rest.modes \subseteq Reach(rest.timer)
        BY <1>4, <3>1, <3>2, <4>2
      <4> QED BY <1>3, <1>4, <3>1, <4>1, <4>2, <4>3
    <3>3. CASE ~(c.timer \in valid /\ rlModes[c.timer] # {})
      <4>1. call' = call /\ moved' = moved \cup {c.timer}
        BY <2>7, <3>3 DEF SetNextFireDate
      <4> QED BY <1>3, <1>4, <2>6, <3>1, <4>1
    <3> QED BY <3>2, <3>3
  <2>8. CASE c.op = "add" /\ Continue(th, IF c.timer \in valid THEN c ELSE NoCall)
             /\ UNCHANGED <<timerVars, modeVars, woken, runs, history>>
    <3>1. c.mode \in Reach(c.timer)
      BY <2>2, <2>4, <2>8 DEF Reach, Calls
    <3>2. PICK rest : rest \in {c, idle} /\ call' = [call EXCEPT ![th] = rest]
      BY <2>5, <2>8 DEF Continue
    <3>3. rlModes' = rlModes /\ moved' = moved
      BY <2>8 DEF timerVars, history
    <3> QED BY <1>3, <1>4, <2>6, <2>8, <3>1, <3>2, <3>3
  <2>9. CASE c.op = "remove" /\ RemoveFromModes(c.timer, {c.mode}) /\ UNCHANGED call
    <3>1. c.timer \in Timers /\ {c.mode} \in SUBSET Modes
      BY <2>2, <2>9 DEF Calls
    <3>2. \A u \in Timers : rlModes'[u] \subseteq rlModes[u]
      BY <1>1, <2>9, <3>1, RemoveKeepsOrder
    <3>3. moved' = moved
      BY <2>9 DEF RemoveFromModes, history
    <3> QED BY <1>3, <1>4, <2>6, <2>9, <3>2, <3>3
  <2>10. CASE c.op = "invalidate" /\ Invalidate(th, c.timer)
              /\ UNCHANGED <<date, rlModes, firing, modeVars, woken, runs, history>>
    <3>1. PICK rest : (call' = call \/ call' = [call EXCEPT ![th] = rest]) /\ rest.op = "invalidate"
      <4>1. PICK rest : rest = [op |-> "invalidate", timer |-> c.timer, modes |-> rlModes[c.timer]]
        OBVIOUS
      <4> QED BY <2>10, <4>1 DEF Invalidate, Continue
    <3>2. rlModes' = rlModes /\ moved' = moved
      BY <2>10 DEF history
    <3> QED BY <1>3, <1>4, <3>1, <3>2
  <2>11. CASE c.op = "run" /\ Run(c.mode, c.poll) /\ UNCHANGED call
    <3>1. rlModes' = rlModes /\ moved' = moved
      BY <2>11 DEF Run, timerVars, history
    <3> QED BY <1>3, <1>4, <2>6, <2>11, <3>1
  <2> QED BY <2>1, <2>7, <2>8, <2>9, <2>10, <2>11 DEF FirstHalf
<1>7. ASSUME NEW th \in Threads, FinishCall(th)
      PROVE  InReach'
  <2>1. PICK c : c = call[th] /\ c \in Rests
    BY <1>1, <1>7 DEF TypeOK, FinishCall
  <2>2. SecondHalf(c)
    BY <1>7, <2>1 DEF FinishCall
  <2>3. PICK rest : call' = [call EXCEPT ![th] = rest] /\ rest.op \notin {"setDate", "add"}
    <3>1. PICK rest : /\ rest \in {[op |-> "wake"], NoCall}
                      /\ call' = [call EXCEPT ![th] = rest]
      BY <1>7 DEF FinishCall, Continue
    <3>2. rest.op \notin {"setDate", "add"}
      BY <3>1 DEF NoCall
    <3> QED BY <3>1, <3>2
  <2>4. CASE c.op = "setDate" /\ SetDate(c.timer, c.date, c.modes)
    <3>1. rlModes' = rlModes /\ moved' = moved \cup {c.timer}
      BY <2>4 DEF SetDate
    <3>2. PICK i \in DOMAIN Program[th] : \E e \in Program[th][i] : e.op = "setDate" /\ e.timer = c.timer
      BY <1>1, <2>1, <2>4 DEF Origins
    <3>3. IsSet(c.timer)
      BY <3>2 DEF IsSet, AllCalls
    <3> QED BY <1>3, <1>4, <2>3, <3>1, <3>3
  <2>5. CASE c.op = "add" /\ AddTimer(c.timer, c.mode)
    <3>1. PICK t \in Timers, m \in Modes : t = c.timer /\ m = c.mode /\ m \in Reach(t)
      BY <2>1, <2>5 DEF Rests, InReach
    <3>2. \A u \in Timers : rlModes'[u] \subseteq rlModes[u] \cup (IF u = t THEN {m} ELSE {})
      BY <1>1, <2>5, <3>1, AddKeepsOrder
    <3>3. \A u \in Timers : rlModes'[u] \subseteq Reach(u)
      BY <1>4, <3>1, <3>2
    <3>4. moved' = moved
      BY <2>5 DEF AddTimer, history
    <3> QED BY <1>3, <2>3, <3>3, <3>4
  <2>6. CASE c.op = "invalidate" /\ RemoveFromModes(c.timer, c.modes)
    <3>1. c.timer \in Timers /\ c.modes \in SUBSET Modes
      BY <2>1, <2>6 DEF Rests
    <3>2. \A u \in Timers : rlModes'[u] \subseteq rlModes[u]
      BY <1>1, <2>6, <3>1, RemoveKeepsOrder
    <3>3. moved' = moved
      BY <2>6 DEF RemoveFromModes, history
    <3> QED BY <1>3, <1>4, <2>3, <3>2, <3>3
  <2>7. CASE c.op = "wake" /\ WakeUp
    <3>1. rlModes' = rlModes /\ moved' = moved
      BY <2>7 DEF WakeUp, timerVars, history
    <3> QED BY <1>3, <1>4, <2>3, <3>1
  <2> QED BY <2>2, <2>4, <2>5, <2>6, <2>7 DEF SecondHalf
<1> QED BY <1>5, <1>6, <1>7 DEF Next

-----------------------------------------------------------------------------
(* The stack of runs.                                                       *)

LEMMA TopIsTidy ==
  ASSUME Shape, Tidy, Running, NEW run \in RunType, SetTop(run), RunTidy(run)
  PROVE  Tidy'
<1>1. /\ DOMAIN runs' = DOMAIN runs
      /\ \A d \in DOMAIN runs : runs'[d] = IF d = Len(runs) THEN run ELSE runs[d]
  BY TopReplaced
<1> QED BY <1>1 DEF Tidy

LEMMA TidyNext ==
  ASSUME Order, InReach, Tidy, [Next]_vars
  PROVE  Tidy'
<1>1. Shape /\ TypeOK /\ TimersSorted
  BY DEF Order, Shape
<1>2. CASE runs' = runs
  BY <1>2 DEF Tidy
<1>3. ASSUME NEW m \in Modes, NEW poll \in BOOLEAN, NEW run, run = NewRun(m, poll)
      PROVE  run \in RunType /\ RunTidy(run)
  <2>1. run \in RunType /\ run.todo = <<>> /\ ~run.handled
    BY <1>3, EmptySeq DEF NewRun, RunType, Places
  <2>2. ToSet(run.todo) = {}
    BY <2>1, EmptySeq, LenProperties DEF ToSet
  <2> QED BY <2>1, <2>2 DEF RunTidy
<1>4. ASSUME Running
      PROVE  Top \in RunType /\ RunTidy(Top) /\ Len(runs) \in DOMAIN runs
  BY <1>1, <1>4, TopIsRun DEF Tidy, Top
<1>5. ASSUME NEW m \in Modes, NEW poll \in BOOLEAN, NEW run, run = NewRun(m, poll), runs' = Append(runs, run)
      PROVE  Tidy'
  <2>1. run \in RunType /\ RunTidy(run)
    BY <1>3, <1>5
  <2>2. /\ Len(runs) \in Nat /\ DOMAIN runs = 1..Len(runs)
        /\ DOMAIN runs' = 1..(Len(runs) + 1)
        /\ runs'[Len(runs) + 1] = run
        /\ \A d \in DOMAIN runs : runs'[d] = runs[d]
    BY <1>1, <1>5, <2>1, Pushed
  <2>3. \A d \in DOMAIN runs' : d \in DOMAIN runs \/ d = Len(runs) + 1
    BY <2>2
  <2> QED BY <2>1, <2>2, <2>3 DEF Tidy
<1>6. CASE Wait
  <2>1. Running /\ Top.at = "asleep"
    BY <1>6 DEF Wait, Serving
  <2>2. PICK run : /\ SetTop(run)
                   /\ run \in {[Top EXCEPT !.at = "awake", !.onTimer = TRUE],
                               [Top EXCEPT !.at = "awake"]}
    BY <1>6 DEF Wait
  <2>3. run \in RunType /\ run.todo = Top.todo /\ run.mode = Top.mode /\ run.handled = Top.handled
    BY <1>4, <2>1, <2>2 DEF RunType, Places
  <2>4. RunTidy(run)
    BY <1>4, <2>1, <2>3 DEF RunTidy
  <2> QED BY <1>1, <2>1, <2>2, <2>3, <2>4, TopIsTidy
<1>7. CASE DoTimers
  <2>1. Running
    BY <1>7 DEF DoTimers, Serving
  <2>2. PICK m \in Modes : m = Top.mode
    BY <1>4, <2>1 DEF RunType
  <2>3. PICK todo \in Seq(Timers) :
          /\ ToSet(todo) \subseteq ToSet(timers[m])
          /\ SetTop([Top EXCEPT !.at = "timers", !.handled = FALSE, !.todo = todo])
    <3>1. PICK set : set = {t \in valid \ firing : date[t] <= now}
      OBVIOUS
    <3>2. timers[m] \in Seq(Timers)
      BY <1>1 DEF TypeOK
    <3>3. Among(timers[m], set) \in Seq(Timers) /\ ToSet(Among(timers[m], set)) \subseteq ToSet(timers[m])
      BY <3>2, AmongProperties
    <3>4. <<>> \in Seq(Timers) /\ ToSet(<<>>) = {}
      BY EmptySeq, LenProperties DEF ToSet
    <3> QED BY <1>7, <2>2, <3>1, <3>3, <3>4 DEF DoTimers
  <2>4. PICK run : run = [Top EXCEPT !.at = "timers", !.handled = FALSE, !.todo = todo]
    OBVIOUS
  <2>5. run \in RunType /\ run.at = "timers" /\ run.todo = todo /\ run.mode = m
    BY <1>4, <2>1, <2>2, <2>4 DEF RunType, Places
  <2>6. \A t \in ToSet(timers[m]) : m \in Reach(t)
    BY <1>1 DEF TimersSorted, InReach
  <2>7. RunTidy(run)
    BY <2>3, <2>5, <2>6 DEF RunTidy
  <2> QED BY <1>1, <2>1, <2>3, <2>4, <2>5, <2>7, TopIsTidy
<1>8. ASSUME NEW run \in RunType, Running, Top.todo # <<>>, SetTop(run),
             run.mode = Top.mode, run.at \notin {"asleep", "awake"},
             run.todo = Top.todo \/ run.todo = Tail(Top.todo)
      PROVE  Tidy'
  <2>1. Top.todo \in Seq(Timers)
    BY <1>4, <1>8 DEF RunType
  <2>2. ToSet(run.todo) \subseteq ToSet(Top.todo)
    BY <1>8, <2>1, TailElements
  <2>3. RunTidy(run)
    BY <1>4, <1>8, <2>2 DEF RunTidy
  <2> QED BY <1>1, <1>8, <2>3, TopIsTidy
<1>9. CASE DoTimer
  <2>1. Running /\ Top.todo # <<>> /\ Top.at = "timers" /\ Top \in RunType
    BY <1>4, <1>9 DEF DoTimer, Serving
  <2>2. PICK t \in Timers : t = Head(Top.todo)
    BY <2>1, TodoType
  <2>3. PICK run : /\ SetTop(run)
                   /\ run \in {[Top EXCEPT !.at = "callout", !.handled = TRUE, !.old = date[t]],
                               [Top EXCEPT !.todo = Tail(Top.todo)]}
    BY <1>9, <2>2 DEF DoTimer
  <2>4. run \in RunType /\ run.mode = Top.mode /\ run.at \notin {"asleep", "awake"}
        /\ (run.todo = Top.todo \/ run.todo = Tail(Top.todo))
    <3>1. date[t] \in Nat /\ Tail(Top.todo) \in Seq(Timers)
      BY <1>1, <2>1, TodoType DEF TypeOK
    <3> QED BY <2>1, <2>3, <3>1 DEF RunType, Places
  <2> QED BY <1>8, <2>1, <2>3, <2>4
<1>10. CASE Return
  <2>1. Running /\ Top.at = "callout" /\ Top \in RunType /\ RunOK(Top)
    BY <1>1, <1>10, TopIsRun DEF Return, Serving
  <2>2. Top.todo # <<>>
    BY <2>1 DEF RunOK, Busy
  <2>3. PICK run : run = [Top EXCEPT !.at = "served"]
    OBVIOUS
  <2>4. run \in RunType /\ run.mode = Top.mode /\ run.at = "served" /\ run.todo = Top.todo
    BY <2>1, <2>3 DEF RunType, Places
  <2>5. SetTop(run)
    BY <1>10, <2>3 DEF Return
  <2> QED BY <1>8, <2>1, <2>2, <2>4, <2>5
<1>11. CASE FinishTimer
  <2>1. Running /\ Top \in RunType /\ Top.todo # <<>>
    BY <1>1, <1>11, TopIsRun, FinishTimerDates DEF FinishTimer, Serving
  <2>2. PICK run : run = [Top EXCEPT !.at = "timers", !.todo = Tail(Top.todo)]
    OBVIOUS
  <2>3. run \in RunType /\ run.mode = Top.mode /\ run.at = "timers" /\ run.todo = Tail(Top.todo)
    BY <2>1, <2>2, TodoType DEF RunType, Places
  <2>4. SetTop(run)
    BY <1>11, <2>2 DEF FinishTimer
  <2> QED BY <1>8, <2>1, <2>3, <2>4
<1>12. CASE EndPass
  <2>1. Running
    BY <1>12 DEF EndPass, Serving
  <2>2. PICK m \in Modes : m = Top.mode
    BY <1>4, <2>1 DEF RunType
  <2>3. CASE runs' = SubSeq(runs, 1, Len(runs) - 1)
    <3>1. \A d \in DOMAIN runs' : d \in DOMAIN runs /\ runs'[d] = runs[d]
      BY <1>1, <2>1, <2>3, Popped
    <3> QED BY <3>1 DEF Tidy
  <2>4. CASE SetTop(NewRun(m, FALSE))
    <3>1. PICK run : run = NewRun(m, FALSE)
      OBVIOUS
    <3> QED BY <1>1, <1>3, <2>1, <2>4, <3>1, TopIsTidy
  <2> QED BY <1>12, <2>2, <2>3, <2>4 DEF EndPass, SetTop
<1>13. ASSUME NEW th \in Threads, BeginCall(th)
       PROVE  Tidy'
  <2>1. PICK c \in Program[th][done[th] + 1] : FirstHalf(th, c)
    BY <1>13 DEF BeginCall
  <2>2. c \in Calls
    BY <1>1, <1>13, CallType DEF BeginCall
  <2>3. CASE c.op = "run" /\ Run(c.mode, c.poll)
    <3>1. c.mode \in Modes /\ c.poll \in BOOLEAN
      BY <2>2, <2>3 DEF Calls
    <3> QED BY <1>2, <1>5, <2>3, <3>1 DEF Run
  <2>4. CASE ~(c.op = "run" /\ Run(c.mode, c.poll))
    <3>1. runs' = runs
      BY <2>1, <2>4 DEF FirstHalf, SetNextFireDate, RemoveFromModes
    <3> QED BY <1>2, <3>1
  <2> QED BY <2>3, <2>4
<1>14. ASSUME NEW th \in Threads, FinishCall(th)
       PROVE  Tidy'
  <2>1. runs' = runs
    BY <1>14 DEF FinishCall, SecondHalf, SetDate, AddTimer, RemoveFromModes, WakeUp
  <2> QED BY <1>2, <2>1
<1>15. CASE Tick \/ UNCHANGED vars
  BY <1>2, <1>15 DEF Tick, vars
<1> QED BY <1>6, <1>7, <1>9, <1>10, <1>11, <1>12, <1>13, <1>14, <1>15 DEF Next, LoopStep

-----------------------------------------------------------------------------
(* The deadlines, step by step.                                             *)

(* A timer that somebody moves is in no mode but one.                       *)
LEMMA MovedHasOneMode ==
  ASSUME OneModeIfSet, NEW t, IsSet(t), NEW m \in Reach(t), NEW n \in Reach(t)
  PROVE  m = n
BY DEF OneModeIfSet, IsSet

LEMMA AddsAreKnown ==
  ASSUME OneModeIfSet, Order, InReach
  PROVE  AddsKnown
<1> SUFFICES ASSUME NEW v \in Threads, NEW th \in Threads, call[v].op = "setDate",
                    call[th].op = "add", call[v].timer = call[th].timer
             PROVE  call[th].mode \in call[v].modes
  BY DEF AddsKnown
<1>1. PICK i \in DOMAIN Program[v] : \E c \in Program[v][i] : c.op = "setDate" /\ c.timer = call[v].timer
  BY DEF Order, Origins
<1>2. IsSet(call[v].timer)
  BY <1>1 DEF IsSet, AllCalls
<1>3. /\ call[th].mode \in Reach(call[v].timer)
      /\ call[v].modes # {} /\ call[v].modes \subseteq Reach(call[v].timer)
  BY DEF InReach
<1>4. PICK m \in call[v].modes : m \in Reach(call[v].timer)
  BY <1>3
<1> QED BY <1>2, <1>3, <1>4, MovedHasOneMode

(* A call of any thread that arms some modes, and changes nothing that the  *)
(* deadlines of the others depend on.                                       *)
LEMMA CallKeepsDeadlines ==
  ASSUME TypeOK, Deadlines, TimersSorted', NEW ms,
         NEW lists \in [Modes -> Seq(Timers)], NEW dates \in [Timers -> Nat],
         Arm(ms, lists, dates, firing, deadline), date' = dates,
         UNCHANGED <<runs, firing, valid>>,
         \A m \in Modes : m \notin ms =>
           lists[m] = timers[m] /\ \A t \in ToSet(timers[m]) : dates[t] = date[t]
  PROVE  Deadlines'
<1> SUFFICES ASSUME NEW m \in Modes
             PROVE  Sound(m)' /\ Early(m)'
  BY DEF Deadlines
<1>1. Sound(m) /\ Early(m)
  BY DEF Deadlines
<1>2. timers' = lists
  BY DEF Arm
<1>3. Listing(lists[m], dates)
  <2>1. Listing(timers'[m], date')
    BY DEF TimersSorted, Listing
  <2> QED BY <1>2, <2>1
<1>4. deadline[m] = Never \/ armed[m] = deadline[m] => deadline'[m] = Never \/ armed'[m] = deadline'[m]
  BY ArmedIsSound
<1>5. Served(m)' <=> Served(m)
  BY DEF Served, Running, Top
<1>6. Sound(m)'
  BY <1>1, <1>4, <1>5 DEF Sound
<1>7. ASSUME NEW t \in ToSet(lists[m]) \cap valid, t \notin firing
      PROVE  deadline'[m] \in Nat /\ deadline'[m] <= dates[t]
  <2>1. CASE m \in ms
    BY <1>3, <1>7, <2>1, ArmedIsEarly
  <2>2. CASE m \notin ms
    <3>1. lists[m] = timers[m] /\ dates[t] = date[t]
      BY <1>7, <2>2
    <3>2. deadline'[m] = deadline[m]
      BY <2>2 DEF Arm
    <3> QED BY <1>1, <1>7, <3>1, <3>2 DEF Early
  <2> QED BY <2>1, <2>2
<1> QED BY <1>2, <1>6, <1>7 DEF Early

LEMMA RemoveKeepsDeadlines ==
  ASSUME TypeOK, Deadlines, TimersSorted', NEW t \in Timers, NEW ms \in SUBSET Modes, RemoveFromModes(t, ms)
  PROVE  Deadlines'
<1> DEFINE here == {m \in ms : t \in ToSet(timers[m])}
           lists == [m \in Modes |-> IF m \in here THEN Without(timers[m], t) ELSE timers[m]]
<1>1. lists \in [Modes -> Seq(Timers)]
  <2> HIDE DEF here
  <2> QED BY RemovedLists
<1>2. Arm(here, lists, date, firing, deadline) /\ UNCHANGED <<date, runs, firing, valid>>
  BY DEF RemoveFromModes, RemoveTimer
<1>3. \A m \in Modes : m \notin here => lists[m] = timers[m]
  OBVIOUS
<1>4. date \in [Timers -> Nat]
  BY DEF TypeOK
<1> HIDE DEF lists, here
<1> QED BY <1>1, <1>2, <1>3, <1>4, CallKeepsDeadlines

LEMMA AddKeepsDeadlines ==
  ASSUME TypeOK, Deadlines, TimersSorted', NEW t \in Timers, NEW m \in Modes, AddTimer(t, m)
  PROVE  Deadlines'
<1>1. CASE m \in rlModes[t]
  <2>1. UNCHANGED <<timers, deadline, armed, date, valid, firing, runs>>
    BY <1>1 DEF AddTimer, modeVars
  <2> QED BY <2>1 DEF Deadlines, Sound, Early, Served, Running, Top
<1>2. CASE m \notin rlModes[t]
  <2> DEFINE lists == [timers EXCEPT ![m] = Inserted(@, t, date)]
  <2>1. date \in [Timers -> Nat] /\ timers \in [Modes -> Seq(Timers)]
    BY DEF TypeOK
  <2>2. Inserted(timers[m], t, date) \in Seq(Timers)
    BY <2>1, InsertedProperties
  <2>3. lists \in [Modes -> Seq(Timers)] /\ \A k \in Modes : k \notin {m} => lists[k] = timers[k]
    BY <2>1, <2>2
  <2>4. PICK ms : ms = {m}
    OBVIOUS
  <2>5. Arm(ms, lists, date, firing, deadline) /\ date' = date /\ UNCHANGED <<runs, firing, valid>>
    BY <1>2, <2>4 DEF AddTimer
  <2>6. \A k \in Modes : k \notin ms =>
          lists[k] = timers[k] /\ \A u \in ToSet(timers[k]) : date[u] = date[u]
    BY <2>3, <2>4
  <2> HIDE DEF lists
  <2> QED BY <2>1, <2>3, <2>5, <2>6, CallKeepsDeadlines
<1> QED BY <1>1, <1>2

LEMMA SetDateKeepsDeadlines ==
  ASSUME TypeOK, Deadlines, TimersSorted, TimersSorted',
         NEW t \in Timers, NEW d \in Instants, NEW ms \in SUBSET Modes,
         rlModes[t] \subseteq ms, SetDate(t, d, ms)
  PROVE  Deadlines'
<1> DEFINE here == {m \in ms : t \in ToSet(timers[m])}
           lists(dates) == [m \in Modes |-> IF m \in here THEN Inserted(Without(timers[m], t), t, dates)
                                            ELSE timers[m]]
<1>1. date \in [Timers -> Nat] /\ d \in Nat
  BY DEF TypeOK, Instants
<1>2. date' = [date EXCEPT ![t] = d]
  BY DEF SetDate
<1>3. PICK dates \in [Timers -> Nat] : dates = date'
  BY <1>1, <1>2
<1>4. lists(dates) \in [Modes -> Seq(Timers)]
  <2> HIDE DEF here
  <2> QED BY MovedLists
<1>5. Arm(here, lists(dates), dates, firing, deadline) /\ UNCHANGED <<runs, firing, valid>>
  BY <1>3 DEF SetDate, Reposition
<1>6. ASSUME NEW m \in Modes, m \notin here
      PROVE  lists(dates)[m] = timers[m] /\ \A u \in ToSet(timers[m]) : dates[u] = date[u]
  <2>1. ToSet(timers[m]) = {u \in Timers : m \in rlModes[u]}
    BY DEF TimersSorted
  <2>2. t \notin ToSet(timers[m])
    BY <1>6, <2>1
  <2>3. \A u \in ToSet(timers[m]) : u \in Timers /\ u # t
    BY <2>1, <2>2
  <2> QED BY <1>1, <1>2, <1>3, <1>6, <2>3
<1> HIDE DEF lists, here
<1> QED BY <1>3, <1>4, <1>5, <1>6, CallKeepsDeadlines

(* No mode is waiting for its pass.                                         *)
AllArmed == \A m \in Modes : deadline[m] = Never \/ armed[m] = deadline[m]

LEMMA ArmedUnlessServed ==
  ASSUME Deadlines, \A m \in Modes : ~Served(m)
  PROVE  AllArmed
BY DEF Deadlines, Sound, AllArmed

LEMMA BeginCallDeadlines ==
  ASSUME Order, Deadlines, Order', NEW th \in Threads, BeginCall(th)
  PROVE  Deadlines'
<1>1. PICK c \in Program[th][done[th] + 1] : MayCall(th, c) /\ FirstHalf(th, c)
  BY DEF BeginCall
<1>2. Shape /\ TypeOK /\ TimersSorted /\ TimersSorted'
  BY DEF Order, Shape
<1>3. c \in Calls
  BY <1>2, CallType DEF BeginCall
<1>4. ASSUME UNCHANGED <<timers, deadline, armed, runs, firing>>, valid' \subseteq valid,
             \A m \in Modes : \A t \in ToSet(timers[m]) : date'[t] = date[t]
      PROVE  Deadlines'
  BY <1>4 DEF Deadlines, Sound, Early, Served, Running, Top
<1>5. CASE c.op = "setDate" /\ SetNextFireDate(th, c.timer, c.date)
  <2>1. UNCHANGED <<timers, deadline, armed, runs, firing, valid>>
    BY <1>5 DEF SetNextFireDate, modeVars
  <2>2. /\ \A u \in Timers : u # c.timer => date'[u] = date[u]
        /\ date' = date \/ rlModes[c.timer] = {}
    BY <1>2, <1>5 DEF SetNextFireDate, TypeOK
  <2>3. ASSUME NEW m \in Modes, NEW t \in ToSet(timers[m])
        PROVE  date'[t] = date[t]
    <3>1. t \in Timers /\ m \in rlModes[t]
      BY <1>2 DEF TimersSorted
    <3> QED BY <2>2, <3>1
  <2> QED BY <1>4, <2>1, <2>3
<1>6. CASE c.op = "add" /\ UNCHANGED <<timerVars, modeVars, woken, runs, history>>
  BY <1>4, <1>6 DEF timerVars, modeVars
<1>7. CASE c.op = "remove" /\ RemoveFromModes(c.timer, {c.mode})
  <2>1. c.timer \in Timers /\ {c.mode} \in SUBSET Modes
    BY <1>3, <1>7 DEF Calls
  <2> QED BY <1>2, <1>7, <2>1, RemoveKeepsDeadlines
<1>8. CASE c.op = "invalidate" /\ Invalidate(th, c.timer)
           /\ UNCHANGED <<date, rlModes, firing, modeVars, woken, runs, history>>
  BY <1>4, <1>8 DEF Invalidate, modeVars
<1>9. CASE c.op = "run" /\ Run(c.mode, c.poll)
  <2>1. UNCHANGED <<timers, deadline, armed, firing, valid, date>>
    BY <1>9 DEF Run, timerVars, modeVars
  <2>2. CASE runs' = runs
    BY <1>4, <2>1, <2>2
  <2>3. CASE runs' # runs
    <3>1. \A m \in Modes : ~Served(m)
      BY <1>1, <1>9 DEF MayCall, Served
    <3>2. AllArmed
      BY <3>1, ArmedUnlessServed
    <3> QED BY <2>1, <3>2 DEF AllArmed, Deadlines, Sound, Early
  <2> QED BY <2>2, <2>3
<1> QED BY <1>1, <1>5, <1>6, <1>7, <1>8, <1>9 DEF FirstHalf

LEMMA FinishCallDeadlines ==
  ASSUME Order, Deadlines, Order', NEW th \in Threads, FinishCall(th)
  PROVE  Deadlines'
<1>1. PICK c : c = call[th] /\ c \in Rests
  BY DEF Order, Shape, TypeOK, FinishCall
<1>2. SecondHalf(c)
  BY <1>1 DEF FinishCall
<1>3. Shape /\ TypeOK /\ ModesKnown /\ TimersSorted /\ TimersSorted'
  BY DEF Order, Shape
<1>4. CASE c.op = "setDate" /\ SetDate(c.timer, c.date, c.modes)
  <2>1. c.timer \in Timers /\ c.date \in Instants /\ c.modes \in SUBSET Modes
    BY <1>1, <1>4 DEF Rests
  <2>2. rlModes[c.timer] \subseteq c.modes
    BY <1>1, <1>3, <1>4 DEF ModesKnown
  <2> QED BY <1>3, <1>4, <2>1, <2>2, SetDateKeepsDeadlines
<1>5. CASE c.op = "add" /\ AddTimer(c.timer, c.mode)
  <2>1. c.timer \in Timers /\ c.mode \in Modes
    BY <1>1, <1>5 DEF Rests
  <2> QED BY <1>3, <1>5, <2>1, AddKeepsDeadlines
<1>6. CASE c.op = "invalidate" /\ RemoveFromModes(c.timer, c.modes)
  <2>1. c.timer \in Timers /\ c.modes \in SUBSET Modes
    BY <1>1, <1>6 DEF Rests
  <2> QED BY <1>3, <1>6, <2>1, RemoveKeepsDeadlines
<1>7. CASE c.op = "wake" /\ WakeUp
  BY <1>7 DEF WakeUp, timerVars, modeVars, Deadlines, Sound, Early, Served, Running, Top
<1> QED BY <1>2, <1>4, <1>5, <1>6, <1>7 DEF SecondHalf

(* The top of the stack after a step.                                       *)
LEMMA NewTop ==
  ASSUME Shape, Running, NEW run \in RunType, SetTop(run)
  PROVE  Running' /\ Top' = run
<1>1. /\ Len(runs') = Len(runs) /\ Len(runs) \in DOMAIN runs /\ Len(runs) \in Nat \ {0}
      /\ \A d \in DOMAIN runs : runs'[d] = IF d = Len(runs) THEN run ELSE runs[d]
  BY TopReplaced, TopIsRun
<1>2. Top' = run
  BY <1>1 DEF Top
<1>3. runs' # <<>>
  BY <1>1, EmptySeq
<1> QED BY <1>2, <1>3 DEF Running

LEMMA WaitDeadlines ==
  ASSUME Order, Tidy, Deadlines, Wait
  PROVE  Deadlines'
<1>1. Shape /\ Running /\ Top \in RunType /\ Top.at = "asleep" /\ Len(runs) \in DOMAIN runs
  BY TopIsRun DEF Order, Wait, Serving
<1>2. ~Top.handled
  BY <1>1 DEF Tidy, RunTidy, Top
<1>3. AllArmed
  BY <1>1, ArmedUnlessServed DEF Served
<1>4. UNCHANGED <<timers, date, deadline, firing, valid>>
  BY DEF Wait, timerVars
<1>5. CASE UNCHANGED armed
  BY <1>3, <1>4, <1>5 DEF AllArmed, Deadlines, Sound, Early
<1>6. CASE /\ SetTop([Top EXCEPT !.at = "awake", !.onTimer = TRUE])
           /\ armed' = [armed EXCEPT ![Top.mode] = Never]
  <2>1. PICK run : run = [Top EXCEPT !.at = "awake", !.onTimer = TRUE]
    OBVIOUS
  <2>2. /\ run \in RunType /\ run.at = "awake" /\ run.onTimer
        /\ run.mode = Top.mode /\ run.handled = Top.handled
    BY <1>1, <2>1 DEF RunType, Places
  <2>3. Running' /\ Top' = run
    BY <1>1, <1>6, <2>1, <2>2, NewTop
  <2>4. Served(Top.mode)'
    BY <1>2, <2>2, <2>3 DEF Served
  <2>5. armed \in [Modes -> Nat \cup {Never}]
    BY <1>1 DEF Shape, TypeOK
  <2>6. ASSUME NEW m \in Modes
        PROVE  Sound(m)'
    <3>1. CASE m = Top.mode
      BY <2>2, <2>3, <2>4, <3>1 DEF Sound, Served
    <3>2. CASE m # Top.mode
      <4>1. armed'[m] = armed[m] /\ deadline'[m] = deadline[m]
        BY <1>4, <1>6, <2>5, <3>2
      <4> QED BY <1>3, <4>1 DEF AllArmed, Sound
    <3> QED BY <3>1, <3>2
  <2> QED BY <1>4, <2>6 DEF Deadlines, Early
<1> QED BY <1>5, <1>6 DEF Wait

LEMMA DoTimersDeadlines ==
  ASSUME Order, Order', Tidy, Deadlines, DoTimers
  PROVE  Deadlines'
<1>1. Shape /\ Running /\ Top \in RunType /\ Top.at = "awake" /\ Len(runs) \in DOMAIN runs
  BY TopIsRun DEF Order, DoTimers, Serving
<1>2. ~Top.handled
  BY <1>1 DEF Tidy, RunTidy, Top
<1>3. PICK todo : SetTop([Top EXCEPT !.at = "timers", !.handled = FALSE, !.todo = todo])
  BY DEF DoTimers
<1>4. PICK run : run = [Top EXCEPT !.at = "timers", !.handled = FALSE, !.todo = todo]
  OBVIOUS
<1>5. /\ run.at = "timers" /\ ~run.handled
      /\ run.mode = Top.mode /\ run.onTimer = Top.onTimer
  BY <1>1, <1>4 DEF RunType
<1>6. Running' /\ Top' = run
  <2>1. runs'[Len(runs)] = run /\ Len(runs) \in DOMAIN runs' /\ runs' \in Seq(RunType)
    BY <1>1, <1>3, <1>4 DEF SetTop, Order, Shape, TypeOK
  <2>2. run \in RunType
    BY <2>1, ElementOfSeq, LenProperties
  <2> QED BY <1>1, <1>3, <1>4, <2>2, NewTop
<1>7. \A m \in Modes : Served(m)' <=> Served(m)
  BY <1>1, <1>2, <1>5, <1>6 DEF Served
<1> QED BY <1>7 DEF DoTimers, timerVars, modeVars, Deadlines, Sound, Early

LEMMA DoTimerDeadlines ==
  ASSUME Order, Deadlines, DoTimer
  PROVE  Deadlines'
<1>1. Shape /\ TypeOK /\ TimersSorted
      /\ Running /\ Top \in RunType /\ Top.at = "timers" /\ Top.todo # <<>>
  BY TopIsRun DEF Order, Shape, DoTimer, Serving
<1>2. PICK t \in Timers, m \in Modes : t = Head(Top.todo) /\ m = Top.mode
  BY <1>1, TodoType DEF RunType
<1>3. UNCHANGED <<date, valid>>
  BY DEF DoTimer
<1>4. CASE ~MayFire(t)
  <2>1. PICK run : run = [Top EXCEPT !.todo = Tail(Top.todo)]
    OBVIOUS
  <2>2. SetTop(run) /\ UNCHANGED <<firing, modeVars>>
    BY <1>2, <1>4, <2>1 DEF DoTimer
  <2>3. /\ run \in RunType /\ run.at = Top.at /\ run.mode = Top.mode
        /\ run.onTimer = Top.onTimer /\ run.handled = Top.handled
    BY <1>1, <2>1, TodoType DEF RunType
  <2>4. Running' /\ Top' = run
    BY <1>1, <2>2, <2>3, NewTop
  <2>5. \A k \in Modes : Served(k)' <=> Served(k)
    BY <1>1, <2>3, <2>4 DEF Served
  <2> QED BY <1>3, <2>2, <2>5 DEF modeVars, Deadlines, Sound, Early
<1>5. CASE MayFire(t)
  <2>1. PICK recorded, busy : recorded = Forget(m) /\ busy = firing \cup {t}
    OBVIOUS
  <2>2. Arm({m}, timers, date, busy, recorded) /\ firing' = busy
    BY <1>2, <1>5, <2>1 DEF DoTimer
  <2>3. /\ date \in [Timers -> Nat] /\ timers \in [Modes -> Seq(Timers)]
        /\ deadline \in [Modes -> Nat \cup {Never}]
    BY <1>1 DEF TypeOK
  <2>4. recorded[m] = Never /\ \A k \in Modes : k # m => recorded[k] = deadline[k]
    BY <2>1, <2>3 DEF Forget
  <2>5. ASSUME NEW k \in Modes
        PROVE  deadline'[k] = Never \/ armed'[k] = deadline'[k]
    <3>1. k # m => deadline[k] = Never \/ armed[k] = deadline[k]
      BY <1>2 DEF Deadlines, Sound, Served
    <3> QED BY <2>2, <2>4, <3>1, ArmedIsSound
  <2>6. timers' = timers
    BY <2>2 DEF Arm
  <2>7. ASSUME NEW k \in Modes, NEW u \in ToSet(timers[k]) \cap valid, u \notin busy
        PROVE  deadline'[k] \in Nat /\ deadline'[k] <= date[u]
    <3>1. CASE k = m
      <4>1. Listing(timers[k], date)
        BY <1>1, SortedLists
      <4> QED BY <2>2, <2>3, <2>7, <3>1, <4>1, ArmedIsEarly
    <3>2. CASE k # m
      <4>1. deadline'[k] = deadline[k]
        BY <2>2, <2>4, <3>2 DEF Arm
      <4> QED BY <2>1, <2>7, <4>1 DEF Deadlines, Early
    <3> QED BY <3>1, <3>2
  <2> QED BY <1>3, <2>2, <2>5, <2>6, <2>7 DEF Deadlines, Sound, Early
<1> QED BY <1>4, <1>5

LEMMA ReturnDeadlines ==
  ASSUME Order, Deadlines, Return
  PROVE  Deadlines'
<1>1. AllArmed
  BY ArmedUnlessServed DEF Return, Serving, Served
<1>2. UNCHANGED <<timers, date, deadline, armed, firing>>
  BY DEF Return, modeVars
<1>3. valid' \subseteq valid
  BY DEF Return, Invalidate
<1> QED BY <1>1, <1>2, <1>3 DEF AllArmed, Deadlines, Sound, Early

LEMMA FinishTimerDeadlines ==
  ASSUME OneModeIfSet, Armory, TimersSorted', FinishTimer
  PROVE  Deadlines'
<1>1. Shape /\ TypeOK /\ TimersSorted /\ Schedule /\ Callouts /\ InReach /\ Tidy /\ Deadlines
  BY DEF Armory, Order, Shape, Schedule
<1>2. Running /\ Top \in RunType /\ RunOK(Top) /\ Top.at = "served" /\ Len(runs) \in DOMAIN runs
  BY <1>1, TopIsRun DEF FinishTimer, Serving
<1>3. AllArmed
  BY <1>1, <1>2, ArmedUnlessServed DEF Served
<1>4. Top.todo # <<>> /\ date' \in [Timers -> Nat]
  BY <1>1, FinishTimerDates
<1>5. PICK t \in Timers, m \in Modes : t = Head(Top.todo) /\ m = Top.mode
  BY <1>2, <1>4, TodoType DEF RunType
<1>6. PICK dates, busy : dates \in [Timers -> Nat] /\ dates = date' /\ busy = firing'
  BY <1>4
<1>7. busy = firing \ {t} /\ valid' = valid /\ rlModes' = rlModes
  BY <1>5, <1>6 DEF FinishTimer
<1>8. date \in [Timers -> Nat] /\ timers \in [Modes -> Seq(Timers)]
  BY <1>1 DEF TypeOK
<1>9. \A k \in Modes : ToSet(timers[k]) = {u \in Timers : k \in rlModes[u]}
  BY <1>1 DEF TimersSorted
<1>10. ASSUME NEW ms, NEW lists \in [Modes -> Seq(Timers)], Arm(ms, lists, dates, busy, deadline),
              \A k \in Modes : k \notin ms =>
                /\ lists[k] = timers[k] /\ t \notin ToSet(timers[k])
                /\ \A u \in ToSet(timers[k]) : dates[u] = date[u]
       PROVE  Deadlines'
  <2>1. \A k \in Modes : deadline'[k] = Never \/ armed'[k] = deadline'[k]
    BY <1>3, <1>10, ArmedIsSound DEF AllArmed
  <2>2. timers' = lists
    BY <1>10 DEF Arm
  <2>3. ASSUME NEW k \in Modes, NEW u \in ToSet(lists[k]) \cap valid, u \notin busy
        PROVE  deadline'[k] \in Nat /\ deadline'[k] <= dates[u]
    <3>1. CASE k \in ms
      <4>1. Listing(timers'[k], date')
        BY DEF TimersSorted, Listing
      <4> QED BY <1>6, <1>10, <2>2, <2>3, <3>1, <4>1, ArmedIsEarly
    <3>2. CASE k \notin ms
      <4>1. lists[k] = timers[k] /\ t \notin ToSet(timers[k]) /\ dates[u] = date[u]
        BY <1>10, <2>3, <3>2
      <4>2. u \notin firing
        BY <1>7, <2>3, <4>1
      <4>3. deadline'[k] = deadline[k]
        BY <1>10, <3>2 DEF Arm
      <4> QED BY <1>1, <2>3, <4>1, <4>2, <4>3 DEF Deadlines, Early
    <3> QED BY <3>1, <3>2
  <2> QED BY <1>6, <1>7, <2>1, <2>2, <2>3 DEF Deadlines, Sound, Early
<1>11. CASE t \notin valid
  <2>1. UNCHANGED <<date, timers, deadline, armed>>
    BY <1>5, <1>11 DEF FinishTimer, modeVars
  <2> QED BY <1>1, <1>3, <1>6, <1>7, <1>11, <2>1 DEF AllArmed, Deadlines, Sound, Early
(* The timer was moved, so that this is its one mode.                       *)
<1>12. CASE t \in valid /\ Top.old < date[t]
  <2>1. Arm({m}, timers, dates, busy, deadline) /\ dates = date
    BY <1>5, <1>6, <1>12 DEF FinishTimer
  <2>2. t \in moved
    <3>1. Busy(Top) /\ Top.old \in Nat /\ date[t] \in Nat
      BY <1>2, <1>8 DEF Busy, RunType
    <3>2. Top.old # date[t]
      BY <1>12, <3>1
    <3> QED BY <1>1, <1>2, <1>5, <3>1, <3>2 DEF Callouts, Top
  <2>3. IsSet(t)
    BY <1>1, <2>2 DEF InReach
  <2>4. m \in Reach(t)
    <3>1. t \in ToSet(Top.todo)
      <4>1. Top.todo \in Seq(Timers)
        BY <1>2 DEF RunType
      <4> QED BY <1>4, <1>5, <4>1, HeadTailProperties, LenProperties, EmptySeq DEF ToSet
    <3>2. RunTidy(Top)
      BY <1>1, <1>2 DEF Tidy, Top
    <3> QED BY <1>5, <3>1, <3>2 DEF RunTidy
  <2>5. ASSUME NEW k \in Modes, k # m
        PROVE  t \notin ToSet(timers[k])
    <3>1. k \notin Reach(t)
      BY <2>3, <2>4, <2>5, MovedHasOneMode
    <3>2. rlModes[t] \subseteq Reach(t)
      BY <1>1 DEF InReach
    <3> QED BY <1>9, <3>1, <3>2
  <2> QED BY <1>8, <1>10, <2>1, <2>5
<1>13. CASE t \in valid /\ ~(Top.old < date[t])
  <2> DEFINE here == {k \in rlModes[t] : t \in ToSet(timers[k])}
             lists == [k \in Modes |->
                         IF k \in here THEN Inserted(Without(timers[k], t), t, dates)
                                       ELSE timers[k]]
  <2>1. Arm(here, lists, dates, busy, deadline)
    BY <1>5, <1>6, <1>13 DEF FinishTimer
  <2>2. lists \in [Modes -> Seq(Timers)]
    <3> HIDE DEF here
    <3> QED BY <1>1, <1>6, MovedLists
  <2>3. \A u \in Timers : u # t => dates[u] = date[u]
    <3>1. date' = [date EXCEPT ![t] = NextDate(Top.old, Interval[t])]
      BY <1>5, <1>13 DEF FinishTimer
    <3> QED BY <1>6, <1>8, <3>1
  <2>4. ASSUME NEW k \in Modes, k \notin here
        PROVE  /\ lists[k] = timers[k] /\ t \notin ToSet(timers[k])
               /\ \A u \in ToSet(timers[k]) : dates[u] = date[u]
    <3>1. t \notin ToSet(timers[k])
      BY <1>9, <2>4
    <3> QED BY <1>9, <2>3, <2>4, <3>1
  <2> HIDE DEF lists, here
  <2> QED BY <1>10, <2>1, <2>2, <2>4
<1> QED BY <1>11, <1>12, <1>13

LEMMA EndPassDeadlines ==
  ASSUME Order, Deadlines, EndPass
  PROVE  Deadlines'
<1>1. Shape /\ TypeOK /\ TimersSorted /\ Running /\ Top \in RunType
  BY TopIsRun DEF Order, Shape, EndPass, Serving
<1>2. PICK m \in Modes : m = Top.mode
  BY <1>1 DEF RunType
<1>3. UNCHANGED <<date, valid, firing>>
  BY DEF EndPass, timerVars
<1>4. CASE Top.onTimer /\ ~Top.handled
  <2>1. PICK recorded : recorded = Forget(m)
    OBVIOUS
  <2>2. Arm({m}, timers, date, firing, recorded)
    BY <1>2, <1>4, <2>1 DEF EndPass
  <2>3. /\ date \in [Timers -> Nat] /\ timers \in [Modes -> Seq(Timers)]
        /\ deadline \in [Modes -> Nat \cup {Never}]
    BY <1>1 DEF TypeOK
  <2>4. recorded[m] = Never /\ \A k \in Modes : k # m => recorded[k] = deadline[k]
    BY <2>1, <2>3 DEF Forget
  <2>5. ASSUME NEW k \in Modes
        PROVE  deadline'[k] = Never \/ armed'[k] = deadline'[k]
    <3>1. k # m => deadline[k] = Never \/ armed[k] = deadline[k]
      BY <1>2 DEF Deadlines, Sound, Served
    <3> QED BY <2>2, <2>4, <3>1, ArmedIsSound
  <2>6. timers' = timers
    BY <2>2 DEF Arm
  <2>7. ASSUME NEW k \in Modes, NEW u \in ToSet(timers[k]) \cap valid, u \notin firing
        PROVE  deadline'[k] \in Nat /\ deadline'[k] <= date[u]
    <3>1. CASE k = m
      <4>1. Listing(timers[k], date)
        BY <1>1, SortedLists
      <4> QED BY <2>2, <2>3, <2>7, <3>1, <4>1, ArmedIsEarly
    <3>2. CASE k # m
      <4>1. deadline'[k] = deadline[k]
        BY <2>2, <2>4, <3>2 DEF Arm
      <4> QED BY <2>7, <4>1 DEF Deadlines, Early
    <3> QED BY <3>1, <3>2
  <2> QED BY <1>3, <2>5, <2>6, <2>7 DEF Deadlines, Sound, Early
<1>5. CASE ~(Top.onTimer /\ ~Top.handled)
  <2>1. AllArmed
    BY <1>5, ArmedUnlessServed DEF Served
  <2>2. UNCHANGED modeVars
    BY <1>5 DEF EndPass
  <2> QED BY <1>3, <2>1, <2>2 DEF modeVars, AllArmed, Deadlines, Sound, Early
<1> QED BY <1>4, <1>5

LEMMA ArmoryNext == OneModeIfSet /\ Armory /\ [Next]_vars => Armory'
<1> SUFFICES ASSUME OneModeIfSet, Armory, [Next]_vars
             PROVE  Armory'
  OBVIOUS
<1>1. Order /\ Schedule /\ InReach /\ Tidy /\ Deadlines
  BY DEF Armory
<1>2. AddsKnown
  BY <1>1, AddsAreKnown
<1>3. Order' /\ Schedule' /\ InReach' /\ Tidy'
  BY <1>1, <1>2, OrderNext, ScheduleNext, InReachNext, TidyNext
<1>4. TimersSorted'
  BY <1>3 DEF Order
<1>5. CASE Tick \/ UNCHANGED vars
  <2>1. UNCHANGED <<timers, date, deadline, armed, firing, valid, runs>>
    BY <1>5 DEF Tick, vars, timerVars, modeVars
  <2> QED BY <1>1, <1>3, <2>1 DEF Armory, Deadlines, Sound, Early, Served, Running, Top
<1>6. CASE LoopStep
  <2>1. Deadlines'
    BY <1>1, <1>3, <1>4, <1>6, WaitDeadlines, DoTimersDeadlines, DoTimerDeadlines, ReturnDeadlines,
       FinishTimerDeadlines, EndPassDeadlines DEF LoopStep
  <2> QED BY <1>3, <2>1 DEF Armory
<1>7. CASE \E th \in Threads : BeginCall(th) \/ FinishCall(th)
  <2>1. Deadlines'
    BY <1>1, <1>3, <1>7, BeginCallDeadlines, FinishCallDeadlines
  <2> QED BY <1>3, <2>1 DEF Armory
<1> QED BY <1>5, <1>6, <1>7 DEF Next

LEMMA InitArmory == Init => Armory
<1> SUFFICES ASSUME Init PROVE Armory
  OBVIOUS
<1>1. Order /\ Schedule /\ TypeOK /\ TimersSorted
  BY InitOrder, InitSchedule DEF Order, Shape
<1>2. DOMAIN runs = {}
  <2>1. runs = <<>>
    BY DEF Init
  <2> QED BY <2>1, EmptySeq, LenProperties
<1>3. InReach
  <2>1. \A t \in Timers : rlModes[t] \subseteq Reach(t)
    BY DEF Init, Reach
  <2>2. \A th \in Threads : call[th].op = "return"
    BY DEF Init, NoCall
  <2>3. moved = {}
    BY DEF Init
  <2> QED BY <2>1, <2>2, <2>3 DEF InReach
<1>4. ASSUME NEW m \in Modes
      PROVE  Sound(m) /\ Early(m)
  <2>1. PICK dates \in [Timers -> Nat] : dates = date
    BY <1>1 DEF TypeOK
  <2>2. deadline[m] = NextDeadline(timers[m], dates, {}) /\ armed = deadline
    BY <2>1 DEF Init
  <2>3. Listing(timers[m], dates) /\ timers[m] \in Seq(Timers)
    BY <1>1, <2>1, SortedLists DEF TypeOK
  <2>4. \A t \in ToSet(timers[m]) : deadline[m] \in Nat /\ deadline[m] <= dates[t]
    BY <2>2, <2>3, NextDeadlineIsFirst
  <2> QED BY <2>1, <2>2, <2>4 DEF Sound, Early
<1> QED BY <1>1, <1>2, <1>3, <1>4 DEF Armory, Tidy, Deadlines

(* The timerfd of a mode that no pass is serving expires no later than the  *)
(* first of its timers that is not in a callout: it is armed for the        *)
(* deadline on record, which is that of the first timer.  A timer whose     *)
(* date is set must have one mode: a callout whose timer was given a later  *)
(* date arms the mode of its run, and no other.                             *)
THEOREM TimersArmedInTime ==
  ASSUME OneModeIfSet
  PROVE  Spec => []ArmedInTime
<1>1. Armory => ArmedInTime
  <2> SUFFICES ASSUME Armory, NEW m \in Modes, NEW t \in ToSet(timers[m]) \cap valid, t \notin firing, ~Served(m)
               PROVE  armed[m] \in Nat /\ armed[m] <= date[t]
    BY DEF ArmedInTime, Served
  <2>1. Sound(m) /\ Early(m)
    BY DEF Armory, Deadlines
  <2> QED BY <2>1, TimerConstants DEF Sound, Early
<1>2. Armory /\ [Next]_vars => Armory'
  BY ArmoryNext
<1> QED BY <1>1, <1>2, InitArmory, PTL DEF Spec
=============================================================================
