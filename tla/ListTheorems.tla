---------------------------- MODULE ListTheorems ----------------------------
(***************************************************************************)
(* What Among and Without return, for every list.  Induction is over a     *)
(* subset of Nat, by the least number outside of it.                       *)
(***************************************************************************)
EXTENDS Lists, SequenceTheorems, WellFoundedInduction, TLAPS

(* A set of natural numbers has a least element.                           *)
LEMMA LeastElement ==
  ASSUME NEW T \in SUBSET Nat, T # {}
  PROVE  \E x \in T : \A y \in T : x <= y
<1>1. PICK x \in T : \A y \in T : ~ (<<y, x>> \in OpToRel(<, Nat))
  BY NatLessThanWellFounded, WFMin
<1>2. \A y \in T : ~(y < x)
  BY <1>1 DEF OpToRel
<1> QED BY <1>2

(* Induction over the natural numbers, for a set.                          *)
LEMMA InductionOverSet ==
  ASSUME NEW P, 0 \in P, \A n \in Nat : n \in P => n + 1 \in P
  PROVE  \A n \in Nat : n \in P
<1> DEFINE T == Nat \ P
<1> SUFFICES ASSUME T # {} PROVE FALSE
  OBVIOUS
<1>1. PICK x \in T : \A y \in T : ~ (<<y, x>> \in OpToRel(<, Nat))
  <2>1. T \subseteq Nat
    OBVIOUS
  <2> HIDE DEF T
  <2> QED BY <2>1, NatLessThanWellFounded, WFMin
<1>2. \A y \in T : ~(y < x)
  BY <1>1 DEF OpToRel
<1>3. x # 0 /\ x - 1 \in Nat /\ x - 1 < x
  OBVIOUS
<1>4. x - 1 \in P
  BY <1>2, <1>3
<1> QED BY <1>3, <1>4

(* The function by which Among is defined.                                 *)
Parts(list, set, taken, len) ==
  taken = [n \in 0..len |->
             IF n = 0 THEN <<>>
             ELSE IF list[n] \in set THEN Append(taken[n - 1], list[n])
             ELSE taken[n - 1]]

(* It exists, though it is defined by recursion.                           *)
LEMMA PartsExist ==
  ASSUME NEW list, NEW set, NEW len \in Nat
  PROVE  \E taken : Parts(list, set, taken, len)
<1> DEFINE P == {n \in Nat : \E taken : Parts(list, set, taken, n)}
<1>1. 0 \in P
  <2> DEFINE first == [n \in 0..0 |-> <<>>]
  <2>1. Parts(list, set, first, 0)
    BY DEF Parts
  <2> QED BY <2>1
<1>2. ASSUME NEW n \in Nat, n \in P
      PROVE  n + 1 \in P
  <2>1. PICK taken : Parts(list, set, taken, n)
    BY <1>2
  <2> DEFINE last == IF list[n + 1] \in set THEN Append(taken[n], list[n + 1]) ELSE taken[n]
             next == [i \in 0..(n + 1) |-> IF i = n + 1 THEN last ELSE taken[i]]
  <2>2. \A i \in 0..n : next[i] = taken[i]
    OBVIOUS
  <2>3. \A i \in 0..n : taken[i] = IF i = 0 THEN <<>>
                                   ELSE IF list[i] \in set THEN Append(taken[i - 1], list[i])
                                   ELSE taken[i - 1]
    BY <2>1 DEF Parts
  <2>4. next[n + 1] = IF list[n + 1] \in set THEN Append(next[n], list[n + 1]) ELSE next[n]
    BY <2>2
  <2>5. \A i \in 0..n : next[i] = IF i = 0 THEN <<>>
                                   ELSE IF list[i] \in set THEN Append(next[i - 1], list[i])
                                   ELSE next[i - 1]
    BY <2>2, <2>3
  <2> HIDE DEF next
  <2>6. Parts(list, set, next, n + 1)
    <3>1. \A i \in 0..(n + 1) : next[i] = IF i = 0 THEN <<>>
                                   ELSE IF list[i] \in set THEN Append(next[i - 1], list[i])
                                   ELSE next[i - 1]
      BY <2>4, <2>5
    <3>2. next = [i \in 0..(n + 1) |-> next[i]]
      BY DEF next
    <3> QED BY <3>1, <3>2 DEF Parts
  <2> QED BY <2>6
<1> HIDE DEF P
<1>3. \A n \in Nat : n \in P
  BY <1>1, <1>2, InductionOverSet
<1> QED BY <1>3 DEF P

(* Among has the list's elements that are in the set, and no others.  A     *)
(* relation that holds between the elements kept, from an earlier one to a  *)
(* later one, still does.                                                   *)
LEMMA AmongByInduction ==
  ASSUME NEW S, NEW list \in Seq(S), NEW set
  PROVE  /\ Among(list, set) \in Seq(S)
         /\ Len(Among(list, set)) <= Len(list)
         /\ ToSet(Among(list, set)) = ToSet(list) \cap set
         /\ \A R :
              (\A i, j \in DOMAIN list :
                 i < j /\ list[i] \in set /\ list[j] \in set => <<list[i], list[j]>> \in R)
              => \A i, j \in DOMAIN Among(list, set) :
                   i < j => <<Among(list, set)[i], Among(list, set)[j]>> \in R
<1> DEFINE len == Len(list)
           taken == CHOOSE f : Parts(list, set, f, len)
           Ordered(f, n) ==
             \A R :
               (\A i, j \in DOMAIN list :
                  i < j /\ list[i] \in set /\ list[j] \in set => <<list[i], list[j]>> \in R)
               => \A i, j \in DOMAIN f : i < j => <<f[i], f[j]>> \in R
           Good(f, n) == /\ f \in Seq(S)
                         /\ Len(f) <= n
                         /\ {f[k] : k \in 1..Len(f)} = {list[k] : k \in 1..n} \cap set
                         /\ Ordered(f, n)
           P == {n \in Nat : n <= len => Good(taken[n], n)}
<1>0. len \in Nat /\ DOMAIN list = 1..len /\ \A i \in 1..len : list[i] \in S
  BY LenProperties
<1>1. Among(list, set) = taken[len]
  BY DEF Among, Parts
<1>2. Parts(list, set, taken, len)
  BY PartsExist, <1>0
<1>3. \A n \in 0..len : taken[n] = IF n = 0 THEN <<>>
                                    ELSE IF list[n] \in set THEN Append(taken[n - 1], list[n])
                                    ELSE taken[n - 1]
  BY <1>2 DEF Parts
<1> HIDE DEF taken, len
<1>e. ASSUME NEW n \in Nat, n + 1 <= len
      PROVE  taken[n + 1] = IF list[n + 1] \in set THEN Append(taken[n], list[n + 1])
                            ELSE taken[n]
  <2>1. n + 1 \in 0..len /\ n + 1 # 0 /\ (n + 1) - 1 = n
    BY <1>0, <1>e
  <2> QED BY <1>3, <2>1
<1> HIDE DEF Good
<1>4. 0 \in P
  <2>1. taken[0] = <<>>
    BY <1>0, <1>3
  <2>2. Good(<<>>, 0)
    BY DEF Good
  <2> QED BY <2>1, <2>2
<1>5. ASSUME NEW n \in Nat, n \in P
      PROVE  n + 1 \in P
  <2> SUFFICES ASSUME n + 1 <= len
               PROVE  Good(taken[n + 1], n + 1)
    OBVIOUS
  <2>1. Good(taken[n], n)
    BY <1>0, <1>5
  <2>5. n + 1 \in DOMAIN list /\ 1..n \subseteq DOMAIN list
    BY <1>0
  <2>2. {list[k] : k \in 1..(n + 1)} = {list[k] : k \in 1..n} \cup {list[n + 1]}
    OBVIOUS
  <2>3. CASE list[n + 1] \notin set
    <3>1. taken[n + 1] = taken[n]
      BY <1>e, <2>3
    <3>2. Len(taken[n]) <= n + 1
      BY <2>1, LenProperties DEF Good
    <3>3. {taken[n][k] : k \in 1..Len(taken[n])} = {list[k] : k \in 1..(n + 1)} \cap set
      BY <2>1, <2>2, <2>3 DEF Good
    <3> QED BY <2>1, <3>1, <3>2, <3>3 DEF Good
  <2>4. CASE list[n + 1] \in set
    <3> DEFINE f == taken[n]
               g == Append(f, list[n + 1])
               m == Len(f)
    <3>1. taken[n + 1] = g
      BY <1>e, <2>4
    <3>2. f \in Seq(S) /\ m \in Nat /\ DOMAIN f = 1..m /\ m <= n
      BY <2>1, LenProperties DEF Good
    <3>3. list[n + 1] \in S
      BY <1>0
    <3> HIDE DEF f
    <3>4. /\ g \in Seq(S)
          /\ Len(g) = m + 1
          /\ DOMAIN g = 1..(m + 1)
          /\ \A k \in 1..m : g[k] = f[k]
          /\ g[m + 1] = list[n + 1]
      BY <3>2, <3>3, AppendProperties
    <3> HIDE DEF g, m
    <3>5. {g[k] : k \in 1..(m + 1)} = {f[k] : k \in 1..m} \cup {list[n + 1]}
      BY <3>2, <3>4
    <3>6. {f[k] : k \in 1..m} = {list[k] : k \in 1..n} \cap set
      BY <2>1 DEF f, m, Good
    <3>7. {g[k] : k \in 1..Len(g)} = {list[k] : k \in 1..(n + 1)} \cap set
      BY <2>2, <2>4, <3>4, <3>5, <3>6
    <3>8. Ordered(g, n + 1)
      <4> SUFFICES ASSUME NEW R,
                          \A i, j \in DOMAIN list :
                            i < j /\ list[i] \in set /\ list[j] \in set
                              => <<list[i], list[j]>> \in R,
                          NEW i \in DOMAIN g, NEW j \in DOMAIN g, i < j
                   PROVE  <<g[i], g[j]>> \in R
        OBVIOUS
      <4>1. i \in 1..m
        BY <3>2, <3>4
      <4>2. CASE j \in 1..m
        <5>1. <<f[i], f[j]>> \in R
          BY <2>1, <3>2, <4>1, <4>2 DEF f, Good
        <5> QED BY <3>4, <4>1, <4>2, <5>1
      <4>3. CASE j = m + 1
        <5>1. PICK k \in 1..n : f[i] = list[k] /\ list[k] \in set
          BY <3>6, <4>1
        <5>2. <<list[k], list[n + 1]>> \in R
          BY <2>4, <2>5, <5>1
        <5> QED BY <3>4, <4>1, <4>3, <5>1, <5>2
      <4> QED BY <3>2, <3>4, <4>2, <4>3
    <3>9. Len(g) <= n + 1
      BY <3>2, <3>4
    <3> QED BY <3>1, <3>4, <3>7, <3>8, <3>9 DEF Good
  <2> QED BY <2>3, <2>4
<1> HIDE DEF P
<1>6. \A n \in Nat : n \in P
  BY <1>4, <1>5, InductionOverSet
<1>7. Good(taken[len], len)
  BY <1>0, <1>6 DEF P
<1>8. taken[len] \in Seq(S) /\ DOMAIN taken[len] = 1..Len(taken[len])
  BY <1>7, LenProperties DEF Good
<1> QED BY <1>0, <1>1, <1>7, <1>8 DEF len, Good, ToSet

(* The type, the length and the elements of Among.                         *)
THEOREM AmongProperties ==
  ASSUME NEW S, NEW list \in Seq(S), NEW set
  PROVE  /\ Among(list, set) \in Seq(S)
         /\ Len(Among(list, set)) <= Len(list)
         /\ ToSet(Among(list, set)) = ToSet(list) \cap set
BY AmongByInduction, Zenon

(* Among keeps the order of the list.                                      *)
THEOREM AmongKeepsOrder ==
  ASSUME NEW S, NEW list \in Seq(S), NEW set, NEW R,
         \A i, j \in DOMAIN list :
           i < j /\ list[i] \in set /\ list[j] \in set => <<list[i], list[j]>> \in R,
         NEW i \in DOMAIN Among(list, set), NEW j \in DOMAIN Among(list, set), i < j
  PROVE  <<Among(list, set)[i], Among(list, set)[j]>> \in R
BY AmongByInduction, Zenon

(* Without loses that element and nothing else.                            *)
THEOREM WithoutProperties ==
  ASSUME NEW S, NEW list \in Seq(S), NEW e
  PROVE  /\ Without(list, e) \in Seq(S)
         /\ Len(Without(list, e)) <= Len(list)
         /\ ToSet(Without(list, e)) = ToSet(list) \ {e}
<1>1. ToSet(list) \cap (ToSet(list) \ {e}) = ToSet(list) \ {e}
  OBVIOUS
<1> QED BY <1>1, AmongProperties DEF Without

(* What RemoveFirst returns: when the element occurs, the list before its   *)
(* first occurrence and the list after it.                                  *)
LEMMA RemoveFirstProperties ==
  ASSUME NEW S, NEW list \in Seq(S), NEW e
  PROVE  /\ RemoveFirst(list, e) \in Seq(S)
         /\ \A i \in 1..Len(list) :
              list[i] = e /\ (\A j \in 1..(i - 1) : list[j] # e)
                => RemoveFirst(list, e) = SubSeq(list, 1, i - 1) \o SubSeq(list, i + 1, Len(list))
         /\ (\A i \in 1..Len(list) : list[i] # e) => RemoveFirst(list, e) = list
<1> DEFINE len == Len(list)
           at == {i \in 1..len : list[i] = e}
<1>1. len \in Nat /\ DOMAIN list = 1..len /\ \A i \in 1..len : list[i] \in S
  BY LenProperties
<1>2. RemoveFirst(list, e) = IF \E i \in 1..len : list[i] = e
                             THEN RemoveAt(list, IF at # {} THEN Min(at) ELSE 0)
                             ELSE list
  BY DEF RemoveFirst, SelectInSeq
<1>3. ASSUME NEW i \in 1..len, list[i] = e, \A j \in 1..(i - 1) : list[j] # e
      PROVE  RemoveFirst(list, e) = SubSeq(list, 1, i - 1) \o SubSeq(list, i + 1, len)
  <2>1. i \in at /\ \A j \in at : i <= j
    BY <1>1, <1>3
  <2> HIDE DEF at
  <2>2. at \subseteq Nat
    BY <1>1 DEF at
  <2>3. Min(at) = i
    <3>1. \A x \in at : (\A j \in at : x <= j) => x = i
      BY <2>1, <2>2
    <3> QED BY <2>1, <3>1 DEF Min
  <2>4. at # {} /\ \E k \in 1..len : list[k] = e
    BY <1>3, <2>1
  <2>5. RemoveFirst(list, e) = RemoveAt(list, i)
    BY <1>2, <2>3, <2>4
  <2> QED BY <2>5 DEF RemoveAt
<1>4. (\A i \in 1..len : list[i] # e) => RemoveFirst(list, e) = list
  BY <1>2
<1>5. RemoveFirst(list, e) \in Seq(S)
  <2>1. CASE \A i \in 1..len : list[i] # e
    BY <1>4, <2>1
  <2>2. CASE \E i \in 1..len : list[i] = e
    <3>1. PICK i \in at : \A j \in at : i <= j
      <4>1. at \subseteq Nat /\ at # {}
        BY <1>1, <2>2
      <4> HIDE DEF at
      <4> QED BY <4>1, LeastElement
    <3>2. i \in 1..len /\ list[i] = e /\ \A j \in 1..(i - 1) : list[j] # e
      BY <1>1, <3>1
    <3>3. RemoveFirst(list, e) = SubSeq(list, 1, i - 1) \o SubSeq(list, i + 1, len)
      BY <1>3, <3>2
    <3>4. SubSeq(list, 1, i - 1) \in Seq(S) /\ SubSeq(list, i + 1, len) \in Seq(S)
      BY <1>1, <3>2, SubSeqProperties
    <3> QED BY <3>3, <3>4, ConcatProperties
  <2> QED BY <2>1, <2>2
<1> HIDE DEF at
<1> QED BY <1>3, <1>4, <1>5

(* The elements of a list without its first.                                *)
LEMMA TailElements ==
  ASSUME NEW S, NEW list \in Seq(S), list # <<>>
  PROVE  ToSet(Tail(list)) \subseteq ToSet(list)
BY HeadTailProperties, LenProperties, EmptySeq DEF ToSet

(* The elements of two lists, one behind the other.                         *)
LEMMA ConcatElements ==
  ASSUME NEW S, NEW k \in Seq(S), NEW t \in Seq(S)
  PROVE  ToSet(k \o t) = ToSet(k) \cup ToSet(t)
<1> DEFINE n == Len(k)
           m == Len(t)
           l == k \o t
<1>1. n \in Nat /\ m \in Nat /\ DOMAIN k = 1..n /\ DOMAIN t = 1..m
  BY LenProperties
<1>2. l \in Seq(S) /\ Len(l) = n + m
      /\ \A i \in 1..(n + m) : l[i] = IF i <= n THEN k[i] ELSE t[i - n]
  BY ConcatProperties
<1>3. DOMAIN l = 1..(n + m)
  BY <1>2, LenProperties
<1> HIDE DEF n, m, l
<1>4. ASSUME NEW i \in 1..n
      PROVE  i \in 1..(n + m) /\ l[i] = k[i]
  BY <1>1, <1>2, <1>4
<1>5. ASSUME NEW i \in 1..m
      PROVE  i + n \in 1..(n + m) /\ l[i + n] = t[i]
  <2>1. i + n \in 1..(n + m) /\ ~(i + n <= n) /\ (i + n) - n = i
    BY <1>1
  <2> QED BY <1>2, <2>1
<1>6. ASSUME NEW i \in 1..(n + m)
      PROVE  l[i] \in ToSet(k) \cup ToSet(t)
  <2>1. CASE i <= n
    <3>1. i \in 1..n
      BY <1>1, <1>6, <2>1
    <3>2. k[i] \in ToSet(k)
      BY <1>1, <3>1 DEF ToSet
    <3> QED BY <1>2, <2>1, <3>2
  <2>2. CASE ~(i <= n)
    <3>1. i - n \in 1..m
      BY <1>1, <1>6, <2>2
    <3>2. t[i - n] \in ToSet(t)
      BY <1>1, <3>1 DEF ToSet
    <3> QED BY <1>2, <2>2, <3>2
  <2> QED BY <2>1, <2>2
<1>7. ToSet(l) \subseteq ToSet(k) \cup ToSet(t)
  BY <1>3, <1>6 DEF ToSet
<1>8. ToSet(k) \subseteq ToSet(l)
  BY <1>1, <1>3, <1>4 DEF ToSet
<1>9. ToSet(t) \subseteq ToSet(l)
  BY <1>1, <1>3, <1>5 DEF ToSet
<1> QED BY <1>7, <1>8, <1>9 DEF l

(* The elements of a list are of its type.                                  *)
LEMMA ElementsOfList ==
  ASSUME NEW S, NEW list \in Seq(S)
  PROVE  ToSet(list) \subseteq S
BY LenProperties, ElementOfSeq DEF ToSet

(* The elements of a list with one more.                                    *)
LEMMA AppendElements ==
  ASSUME NEW S, NEW list \in Seq(S), NEW e \in S
  PROVE  ToSet(Append(list, e)) = ToSet(list) \cup {e}
<1>1. <<e>> \in Seq(S) /\ Append(list, e) = list \o <<e>>
  BY AppendIsConcat
<1>2. ToSet(<<e>>) = {e}
  BY DEF ToSet
<1>3. \A t \in Seq(S) : ToSet(list \o t) = ToSet(list) \cup ToSet(t)
  BY ConcatElements
<1> QED BY <1>1, <1>2, <1>3, Zenon

(* An element is the head or behind it.                                     *)
LEMMA HeadOrTail ==
  ASSUME NEW S, NEW list \in Seq(S), list # <<>>, NEW e \in ToSet(list), e # Head(list)
  PROVE  e \in ToSet(Tail(list))
<1>1. /\ Len(list) \in Nat \ {0} /\ DOMAIN list = 1..Len(list)
      /\ Head(list) = list[1]
      /\ Tail(list) \in Seq(S) /\ Len(Tail(list)) = Len(list) - 1
      /\ \A i \in 1..Len(Tail(list)) : Tail(list)[i] = list[i + 1]
  BY HeadTailProperties, LenProperties, EmptySeq
<1>2. DOMAIN Tail(list) = 1..(Len(list) - 1)
  BY <1>1, LenProperties
<1>3. PICK i \in 1..Len(list) : list[i] = e
  BY <1>1 DEF ToSet
<1>4. i - 1 \in 1..(Len(list) - 1) /\ (i - 1) + 1 = i
  BY <1>1, <1>3
<1>5. Tail(list)[i - 1] = e
  BY <1>1, <1>3, <1>4
<1> QED BY <1>2, <1>4, <1>5 DEF ToSet

(* Behind the head of a list of one is nothing.                             *)
LEMMA TailOfOne ==
  ASSUME NEW S, NEW list \in Seq(S), Len(list) = 1
  PROVE  Tail(list) = <<>>
<1>0. Len(list) # 0
  OBVIOUS
<1>1. list # <<>>
  BY <1>0, EmptySeq, Zenon
<1>2. Tail(list) \in Seq(S) /\ Len(Tail(list)) = 0
  BY <1>1, HeadTailProperties
<1> QED BY <1>2, EmptySeq

(* Removing the first occurrence of an element adds none.                   *)
LEMMA RemoveFirstElements ==
  ASSUME NEW S, NEW list \in Seq(S), NEW e
  PROVE  ToSet(RemoveFirst(list, e)) \subseteq ToSet(list)
<1>1. DOMAIN list = 1..Len(list) /\ Len(list) \in Nat
  BY LenProperties
<1>2. list \in Seq(ToSet(list))
  <2>1. \A i \in 1..Len(list) : list[i] \in ToSet(list)
    BY <1>1 DEF ToSet
  <2>2. list \in [1..Len(list) -> S]
    BY LenProperties
  <2>3. list \in [1..Len(list) -> ToSet(list)]
    BY <2>1, <2>2
  <2> QED BY <1>1, <2>3, IsASeq
<1>3. RemoveFirst(list, e) \in Seq(ToSet(list))
  BY <1>2, RemoveFirstProperties
<1>4. \A r \in Seq(ToSet(list)) : \A i \in DOMAIN r : r[i] \in ToSet(list)
  BY LenProperties, ElementOfSeq
<1> QED BY <1>3, <1>4 DEF ToSet

(* Moving the head of a list behind another list.                           *)
LEMMA MoveHead ==
  ASSUME NEW S, NEW k \in Seq(S), NEW u \in Seq(S), u # <<>>
  PROVE  Append(k, Head(u)) \o Tail(u) = k \o u
<1> DEFINE a == Append(k, Head(u))
           b == Tail(u)
           n == Len(k)
           m == Len(u)
<1>1. /\ Head(u) \in S /\ b \in Seq(S) /\ Len(b) = m - 1
      /\ \A i \in 1..Len(b) : b[i] = u[i + 1]
      /\ Head(u) = u[1]
  BY HeadTailProperties
<1>2. n \in Nat /\ m \in Nat \ {0}
  BY LenProperties, EmptySeq
<1>3. /\ a \in Seq(S) /\ Len(a) = n + 1
      /\ \A i \in 1..n : a[i] = k[i]
      /\ a[n + 1] = Head(u)
  BY <1>1, <1>2, AppendProperties
<1>5. /\ k \o u \in Seq(S)
      /\ Len(k \o u) = n + m
      /\ \A i \in 1..(n + m) : (k \o u)[i] = IF i <= n THEN k[i] ELSE u[i - n]
  BY ConcatProperties
<1> HIDE DEF a, b, n, m
<1>4. /\ a \o b \in Seq(S)
      /\ Len(a \o b) = n + m
      /\ \A i \in 1..(n + m) : (a \o b)[i] = IF i <= n + 1 THEN a[i] ELSE b[i - (n + 1)]
  <2>1. /\ a \o b \in Seq(S)
        /\ Len(a \o b) = Len(a) + Len(b)
        /\ \A i \in 1..(Len(a) + Len(b)) : (a \o b)[i] = IF i <= Len(a) THEN a[i] ELSE b[i - Len(a)]
    BY <1>1, <1>3, ConcatProperties
  <2>2. (n + 1) + (m - 1) = n + m
    BY <1>2
  <2> QED BY <1>1, <1>3, <2>1, <2>2
<1>6. ASSUME NEW i \in 1..(n + m)
      PROVE  (a \o b)[i] = (k \o u)[i]
  <2>1. CASE i <= n
    BY <1>2, <1>3, <1>4, <1>5, <2>1
  <2>2. CASE i = n + 1
    <3>1. i - n = 1 /\ ~(i <= n) /\ i <= n + 1
      BY <1>2, <2>2
    <3>2. (a \o b)[i] = a[i] /\ (k \o u)[i] = u[i - n]
      BY <1>4, <1>5, <3>1
    <3>3. a[i] = Head(u) /\ u[i - n] = u[1]
      BY <1>3, <2>2, <3>1
    <3> QED BY <1>1, <3>2, <3>3
  <2>3. CASE i > n + 1
    <3>1. /\ i - (n + 1) \in 1..(m - 1) /\ (i - (n + 1)) + 1 = i - n
          /\ ~(i <= n) /\ ~(i <= n + 1)
      BY <1>2, <2>3
    <3>2. (a \o b)[i] = b[i - (n + 1)] /\ (k \o u)[i] = u[i - n]
      BY <1>4, <1>5, <3>1
    <3>3. b[i - (n + 1)] = u[(i - (n + 1)) + 1]
      BY <1>1, <3>1
    <3> QED BY <3>1, <3>2, <3>3
  <2>4. i <= n \/ i = n + 1 \/ i > n + 1
    BY <1>2
  <2> QED BY <2>1, <2>2, <2>3, <2>4
<1>7. a \o b = k \o u
  BY <1>4, <1>5, <1>6, SeqEqual
<1> QED BY <1>7 DEF a, b

(* The head and the tail of a list that goes on with another list.          *)
LEMMA HeadTailConcat ==
  ASSUME NEW S, NEW t \in Seq(S), NEW r \in Seq(S), t # <<>>
  PROVE  /\ t \o r # <<>>
         /\ Head(t \o r) = Head(t)
         /\ Tail(t \o r) = Tail(t) \o r
<1>1. /\ Tail(t) \in Seq(S) /\ Len(Tail(t)) = Len(t) - 1
      /\ \A i \in 1..Len(Tail(t)) : Tail(t)[i] = t[i + 1]
  BY HeadTailProperties
<1>2. Len(r) \in Nat /\ Len(t) \in Nat \ {0}
  BY LenProperties, EmptySeq
<1>3. /\ t \o r \in Seq(S)
      /\ Len(t \o r) = Len(t) + Len(r)
      /\ \A i \in 1..(Len(t) + Len(r)) : (t \o r)[i] = IF i <= Len(t) THEN t[i] ELSE r[i - Len(t)]
  BY ConcatProperties
<1>4. t \o r # <<>>
  BY <1>2, <1>3, EmptySeq
<1>5. Head(t \o r) = (t \o r)[1] /\ Head(t) = t[1] /\ (t \o r)[1] = t[1]
  BY <1>2, <1>3, <1>4
<1>6. /\ Tail(t \o r) \in Seq(S) /\ Len(Tail(t \o r)) = Len(t) + Len(r) - 1
      /\ \A i \in 1..(Len(t) + Len(r) - 1) : Tail(t \o r)[i] = (t \o r)[i + 1]
  BY <1>3, <1>4, HeadTailProperties
<1>7. /\ Tail(t) \o r \in Seq(S) /\ Len(Tail(t) \o r) = Len(t) - 1 + Len(r)
      /\ \A i \in 1..(Len(t) - 1 + Len(r)) : (Tail(t) \o r)[i] =
           IF i <= Len(t) - 1 THEN Tail(t)[i] ELSE r[i - (Len(t) - 1)]
  BY <1>1, ConcatProperties
<1>8. ASSUME NEW i \in 1..(Len(t) + Len(r) - 1)
      PROVE  Tail(t \o r)[i] = (Tail(t) \o r)[i]
  <2>1. i + 1 \in 1..(Len(t) + Len(r)) /\ i \in 1..(Len(t) - 1 + Len(r))
    BY <1>2
  <2>2. CASE i <= Len(t) - 1
    BY <1>1, <1>2, <1>3, <1>6, <1>7, <2>1, <2>2
  <2>3. CASE i > Len(t) - 1
    <3>1. (i + 1) - Len(t) = i - (Len(t) - 1)
      BY <1>2
    <3> QED BY <1>2, <1>3, <1>6, <1>7, <2>1, <2>3, <3>1
  <2> QED BY <1>2, <2>2, <2>3
<1>9. Tail(t \o r) = Tail(t) \o r
  <2>1. Len(Tail(t \o r)) = Len(Tail(t) \o r) /\ Len(Tail(t \o r)) = Len(t) + Len(r) - 1
    BY <1>2, <1>6, <1>7
  <2> QED BY <1>6, <1>7, <1>8, <2>1, SeqEqual
<1> QED BY <1>4, <1>5, <1>9

(* The first of two lists loses nothing when RemoveFirst takes the head of  *)
(* the second, if that is not in it.                                        *)
LEMMA RemoveHead ==
  ASSUME NEW S, NEW k \in Seq(S), NEW u \in Seq(S), u # <<>>,
         \A i \in 1..Len(k) : k[i] # Head(u)
  PROVE  /\ RemoveFirst(k \o u, Head(u)) = k \o Tail(u)
         /\ Len(k) + 1 \in 1..Len(k \o u)
         /\ (k \o u)[Len(k) + 1] = Head(u)
         /\ \A i \in 1..Len(k) : (k \o u)[i] = k[i]
<1> DEFINE s == k \o u
           n == Len(k)
           m == Len(u)
<1>1. n \in Nat /\ m \in Nat \ {0} /\ Head(u) = u[1]
  BY LenProperties, EmptySeq
<1>2. /\ s \in Seq(S) /\ Len(s) = n + m
      /\ \A i \in 1..(n + m) : s[i] = IF i <= n THEN k[i] ELSE u[i - n]
  BY ConcatProperties
<1>3. /\ Tail(u) \in Seq(S) /\ Len(Tail(u)) = m - 1
      /\ \A i \in 1..(m - 1) : Tail(u)[i] = u[i + 1]
  BY HeadTailProperties
<1> HIDE DEF s, n, m
<1>4. /\ n + 1 \in 1..Len(s) /\ s[n + 1] = Head(u) /\ (n + 1) - 1 = n
      /\ \A i \in 1..n : s[i] = k[i] /\ i \in 1..Len(s)
  BY <1>1, <1>2
<1>5. \A i \in 1..n : s[i] # Head(u)
  BY <1>4 DEF n
<1>6. RemoveFirst(s, Head(u)) = SubSeq(s, 1, n) \o SubSeq(s, n + 2, n + m)
  <2>1. \A j \in 1..((n + 1) - 1) : s[j] # Head(u)
    BY <1>4, <1>5
  <2>2. RemoveFirst(s, Head(u)) = SubSeq(s, 1, (n + 1) - 1) \o SubSeq(s, (n + 1) + 1, Len(s))
    <3> DEFINE e == Head(u)
    <3> HIDE DEF e
    <3>1. \A i \in 1..Len(s) :
            s[i] = e /\ (\A j \in 1..(i - 1) : s[j] # e)
              => RemoveFirst(s, e) = SubSeq(s, 1, i - 1) \o SubSeq(s, i + 1, Len(s))
      BY <1>2, RemoveFirstProperties
    <3>2. n + 1 \in 1..Len(s) /\ s[n + 1] = e /\ \A j \in 1..((n + 1) - 1) : s[j] # e
      BY <1>4, <2>1 DEF e
    <3> QED BY <3>1, <3>2 DEF e
  <2>3. (n + 1) + 1 = n + 2
    BY <1>1
  <2> QED BY <1>2, <1>4, <2>2, <2>3
<1>7. SubSeq(s, 1, n) = k
  <2>1. \A i \in 1..n : s[i] \in S
    BY <1>2, <1>4, ElementOfSeq
  <2>2. /\ SubSeq(s, 1, n) \in Seq(S) /\ Len(SubSeq(s, 1, n)) = n
        /\ \A i \in 1..n : SubSeq(s, 1, n)[i] = k[i]
    BY <1>1, <1>4, <2>1, SubSeqProperties
  <2> QED BY <2>2, SeqEqual DEF n
<1>8. SubSeq(s, n + 2, n + m) = Tail(u)
  <2>1. \A i \in (n + 2)..(n + m) : s[i] \in S
    BY <1>1, <1>2, ElementOfSeq
  <2>2. /\ SubSeq(s, n + 2, n + m) \in Seq(S) /\ Len(SubSeq(s, n + 2, n + m)) = m - 1
        /\ \A i \in 1..(m - 1) : SubSeq(s, n + 2, n + m)[i] = s[n + 1 + i]
    BY <1>1, <2>1, SubSeqProperties
  <2>3. ASSUME NEW i \in 1..(m - 1)
        PROVE  s[n + 1 + i] = Tail(u)[i]
    <3>1. n + 1 + i \in 1..(n + m) /\ ~(n + 1 + i <= n) /\ (n + 1 + i) - n = i + 1
      BY <1>1
    <3> QED BY <1>2, <1>3, <3>1
  <2> QED BY <1>3, <2>2, <2>3, SeqEqual
<1> QED BY <1>4, <1>6, <1>7, <1>8 DEF s, n

(* A list from which one element was taken has all the others.              *)
LEMMA RemovedElements ==
  ASSUME NEW S, NEW list \in Seq(S), NEW n \in 1..Len(list),
         NEW i \in 1..Len(list), i # n
  PROVE  list[i] \in ToSet(SubSeq(list, 1, n - 1) \o SubSeq(list, n + 1, Len(list)))
<1> DEFINE len == Len(list)
           a == SubSeq(list, 1, n - 1)
           b == SubSeq(list, n + 1, len)
<1>1. len \in Nat /\ \A k \in 1..len : list[k] \in S
  BY LenProperties, ElementOfSeq
<1>2. /\ a \in Seq(S) /\ Len(a) = n - 1
      /\ \A k \in 1..(n - 1) : a[k] = list[k]
  BY <1>1, SubSeqProperties
<1>3. /\ b \in Seq(S) /\ Len(b) = len - n
      /\ \A k \in 1..(len - n) : b[k] = list[n + k]
  <2>1. \A k \in (n + 1)..len : list[k] \in S
    BY <1>1
  <2>2. /\ b \in Seq(S) /\ Len(b) = IF n + 1 <= len THEN len - (n + 1) + 1 ELSE 0
        /\ \A k \in 1..(len - (n + 1) + 1) : b[k] = list[(n + 1) + k - 1]
    BY <1>1, <2>1, SubSeqProperties
  <2>3. /\ len - (n + 1) + 1 = len - n
        /\ (IF n + 1 <= len THEN len - (n + 1) + 1 ELSE 0) = len - n
        /\ \A k \in 1..(len - n) : (n + 1) + k - 1 = n + k
    BY <1>1 DEF len
  <2> HIDE DEF b, len
  <2> QED BY <2>2, <2>3
<1> HIDE DEF a, b, len
<1>4. /\ a \o b \in Seq(S) /\ Len(a \o b) = len - 1
      /\ DOMAIN (a \o b) = 1..(len - 1)
      /\ \A k \in 1..(len - 1) : (a \o b)[k] = IF k <= n - 1 THEN a[k] ELSE b[k - (n - 1)]
  <2>1. (n - 1) + (len - n) = len - 1
    BY <1>1
  <2> QED BY <1>2, <1>3, <2>1, ConcatProperties, LenProperties
<1>5. CASE i < n
  <2>1. i \in 1..(n - 1) /\ i \in 1..(len - 1) /\ i <= n - 1
    BY <1>1, <1>5 DEF len
  <2>2. (a \o b)[i] = list[i]
    BY <1>2, <1>4, <2>1
  <2> QED BY <1>4, <2>1, <2>2 DEF ToSet, a, b, len
<1>6. CASE i > n
  <2> DEFINE k == i - 1
  <2>1. /\ k \in 1..(len - 1) /\ ~(k <= n - 1)
        /\ k - (n - 1) \in 1..(len - n) /\ n + (k - (n - 1)) = i
    BY <1>1, <1>6 DEF len
  <2> HIDE DEF k
  <2>2. (a \o b)[k] = b[k - (n - 1)] /\ b[k - (n - 1)] = list[n + (k - (n - 1))]
    BY <1>3, <1>4, <2>1
  <2>3. (a \o b)[k] = list[i]
    BY <2>1, <2>2
  <2> QED BY <1>4, <2>1, <2>3 DEF ToSet, a, b, len
<1> QED BY <1>5, <1>6

=============================================================================
