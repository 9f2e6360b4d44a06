----------------------------- MODULE ReadProofs -----------------------------
(***************************************************************************)
(* Proofs about the answers of recall, govern and expire_raw_content, and  *)
(* about the audit trail and its pages.                                    *)
(*                                                                         *)
(* First what list.sort and the slice [:limit] do to a list of any length: *)
(* a stable sort is an arrangement of the list in which the key decides    *)
(* and what the key leaves open stays in the order it had (Resorting), so  *)
(* a chain of sorts gives the lexicographic order of its keys.  Then the   *)
(* clarity: division with rounding to the nearest, ties to even, is        *)
(* monotone in the quotient and exact for 1 and 1/2, whatever the number   *)
(* of digits.  The theorems about recall and govern put the two together   *)
(* with the invariant of Store and the finiteness of its tables.           *)
(*                                                                         *)
(* Last the audit trail: every change of a row and nothing else is         *)
(* recorded, the records are dated as the rows are, and a page holds the   *)
(* newest records.  The invariant is that the trail is finite, that no two *)
(* of its rows share their identifier, and that it tells once of every row *)
(* on record and never of one that was not; every step adds the rows of    *)
(* one transaction and tells of what it changed (Grow), or does nothing.   *)
(***************************************************************************)
EXTENDS Recall, AuditTrail, StoreProofs, FiniteSetTheorems

-----------------------------------------------------------------------------
(* list.sort.                                                              *)

\* A strict order of 1..n in which any two positions compare.
StrictOrder(R, n) ==
    /\ \A i \in 1..n : <<i, i>> \notin R
    /\ \A i, j \in 1..n : i = j \/ <<i, j>> \in R \/ <<j, i>> \in R
    /\ \A i, j, k \in 1..n : <<i, j>> \in R /\ <<j, k>> \in R => <<i, k>> \in R

Before(R, n, i) == {j \in 1..n : <<j, i>> \in R}
Places(R, n) == [i \in 1..n |-> 1 + Cardinality(Before(R, n, i))]

\* Counting what comes before gives every position a place of its own, and every
\* place is taken.
LEMMA Ranking ==
    ASSUME NEW n \in Nat, NEW R, StrictOrder(R, n)
    PROVE  /\ Places(R, n) \in [1..n -> 1..n]
           /\ \A i, j \in 1..n : <<i, j>> \in R => Places(R, n)[i] < Places(R, n)[j]
           /\ \A k \in 1..n : \E i \in 1..n : Places(R, n)[i] = k
<1> DEFINE place == Places(R, n)
<1>0. place = [i \in 1..n |-> 1 + Cardinality(Before(R, n, i))]
  BY DEF Places
<1> HIDE DEF place
<1>1. IsFiniteSet(1..n) /\ Cardinality(1..n) = n
  BY FS_Interval
<1>2. ASSUME NEW i \in 1..n
      PROVE  /\ IsFiniteSet(Before(R, n, i)) /\ Cardinality(Before(R, n, i)) \in Nat
             /\ Cardinality(Before(R, n, i)) < n
  <2>1. Before(R, n, i) \subseteq 1..n /\ i \notin Before(R, n, i)
    BY DEF Before, StrictOrder
  <2>2. /\ IsFiniteSet(Before(R, n, i)) /\ Cardinality(Before(R, n, i)) <= n
        /\ Cardinality(Before(R, n, i)) # n
    BY <1>1, <2>1, FS_Subset
  <2>3. QED
    BY <2>2, FS_CardinalityType
<1>3. place \in [1..n -> 1..n]
  BY <1>0, <1>2
<1>4. ASSUME NEW i \in 1..n, NEW j \in 1..n, <<i, j>> \in R
      PROVE  place[i] < place[j]
  <2>1. /\ Before(R, n, i) \subseteq Before(R, n, j)
        /\ i \in Before(R, n, j) /\ i \notin Before(R, n, i)
    BY <1>4 DEF Before, StrictOrder
  <2>2. /\ Cardinality(Before(R, n, i)) <= Cardinality(Before(R, n, j))
        /\ Cardinality(Before(R, n, i)) # Cardinality(Before(R, n, j))
    BY <1>2, <2>1, FS_Subset
  <2>3. QED
    BY <1>0, <1>2, <2>2
<1>5. place \in Injection(1..n, 1..n)
  <2>1. \A i, j \in 1..n : i # j => place[i] # place[j]
    <3>1. SUFFICES ASSUME NEW i \in 1..n, NEW j \in 1..n, i # j
                   PROVE  place[i] # place[j]
      OBVIOUS
    <3>2. <<i, j>> \in R \/ <<j, i>> \in R
      BY <3>1 DEF StrictOrder
    <3>3. place[i] \in Nat /\ place[j] \in Nat
      BY <1>3
    <3>4. QED
      BY <1>4, <3>2, <3>3
  <2>2. QED
    BY <1>3, <2>1 DEF Injection, IsInjective
<1>6. place \in Surjection(1..n, 1..n)
  BY <1>1, <1>5, FS_Injection
<1>7. QED
  BY <1>3, <1>4, <1>6 DEF Surjection, place

\* The keys of a list.sort: of two different keys one is smaller, and a third
\* key is not between two equal ones.
WeakOrder(B, S) ==
    /\ \A x, y \in S : <<x, y>> \in B => <<y, x>> \notin B
    /\ \A x, y, z \in S : <<x, y>> \in B => <<x, z>> \in B \/ <<z, y>> \in B

\* The item at place k of the sorted list stood at p[k].
Arrangement(p, n, items, B) ==
    /\ p \in [1..n -> 1..n]
    /\ \A i \in 1..n : \E k \in 1..n : p[k] = i
    /\ StableSort(items, B) = [k \in 1..n |-> items[p[k]]]
    /\ \A k, l \in 1..n : k < l =>
         /\ p[k] # p[l]
         /\ <<items[p[l]], items[p[k]]>> \notin B
         /\ <<items[p[k]], items[p[l]]>> \in B \/ p[k] < p[l]

\* The sort moves every item to one place, in the order of the keys, and leaves
\* the items of equal keys as they followed each other.
LEMMA Sorting ==
    ASSUME NEW n \in Nat, NEW S, NEW items \in [1..n -> S], NEW B, WeakOrder(B, S)
    PROVE  \E p : Arrangement(p, n, items, B)
<1> DEFINE less(i, j) == <<items[i], items[j]>> \in B
           R == {q \in (1..n) \X (1..n) :
                    less(q[1], q[2]) \/ (q[1] < q[2] /\ ~less(q[2], q[1]))}
           place == Places(R, n)
           p == [k \in 1..n |-> CHOOSE i \in 1..n : place[i] = k]
<1>1. /\ \A i, j \in 1..n : less(i, j) => ~less(j, i)
      /\ \A i, j, k \in 1..n : less(i, j) => less(i, k) \/ less(k, j)
  BY DEF WeakOrder
<1>2. \A i, j \in 1..n : <<i, j>> \in R <=> less(i, j) \/ (i < j /\ ~less(j, i))
  OBVIOUS
<1>3. StrictOrder(R, n)
  <2> HIDE DEF R, less
  <2>1. \A i \in 1..n : <<i, i>> \notin R
    BY <1>1, <1>2
  <2>2. ASSUME NEW i \in 1..n, NEW j \in 1..n, i # j
        PROVE  <<i, j>> \in R \/ <<j, i>> \in R
    <3>1. i < j \/ j < i
      BY <2>2
    <3>2. QED
      BY <1>2, <3>1
  <2>3. ASSUME NEW i \in 1..n, NEW j \in 1..n, NEW k \in 1..n,
               <<i, j>> \in R, <<j, k>> \in R
        PROVE  <<i, k>> \in R
    BY <1>1, <1>2, <2>3
  <2>4. QED
    BY <2>1, <2>2, <2>3 DEF StrictOrder
<1>4. /\ place \in [1..n -> 1..n]
      /\ \A i, j \in 1..n : <<i, j>> \in R => place[i] < place[j]
      /\ \A k \in 1..n : \E i \in 1..n : place[i] = k
  <2> HIDE DEF R
  <2>1. QED
    BY <1>3, Ranking
<1>5. \A i \in 1..n : {j \in DOMAIN items :
            \/ <<items[j], items[i]>> \in B
            \/ j < i /\ <<items[i], items[j]>> \notin B} = Before(R, n, i)
  <2>1. SUFFICES ASSUME NEW i \in 1..n
                 PROVE  {j \in 1..n : \/ <<items[j], items[i]>> \in B
                                      \/ j < i /\ <<items[i], items[j]>> \notin B}
                          = {j \in 1..n : <<j, i>> \in R}
    BY DEF Before
  <2>2. \A j \in 1..n : <<j, i>> \in R <=> \/ <<items[j], items[i]>> \in B
                                           \/ j < i /\ <<items[i], items[j]>> \notin B
    BY <1>2
  <2> HIDE DEF R
  <2>3. QED
    BY <2>2
<1>6. StableSort(items, B) = [k \in 1..n |-> items[p[k]]]
  <2> DEFINE spot(i) == 1 + Cardinality({j \in DOMAIN items :
            \/ <<items[j], items[i]>> \in B
            \/ j < i /\ <<items[i], items[j]>> \notin B})
  <2>1. \A i \in 1..n : spot(i) = place[i]
    BY <1>5 DEF Places
  <2>2. StableSort(items, B) = [k \in 1..n |-> items[CHOOSE i \in 1..n : spot(i) = k]]
    BY DEF StableSort
  <2> HIDE DEF spot, place
  <2>3. \A k \in 1..n : (CHOOSE i \in 1..n : spot(i) = k)
                        = (CHOOSE i \in 1..n : place[i] = k)
    BY <2>1
  <2>4. QED
    BY <2>2, <2>3
<1> HIDE DEF R, place
<1>7. \A k \in 1..n : p[k] \in 1..n /\ place[p[k]] = k
  BY <1>4
<1>8. p \in [1..n -> 1..n]
  BY <1>7
<1>9. \A i \in 1..n : \E k \in 1..n : p[k] = i
  <2>1. ASSUME NEW i \in 1..n, NEW j \in 1..n, place[i] = place[j] PROVE i = j
    <3>1. place[i] \in Nat
      BY <1>4
    <3>2. ~(place[i] < place[j]) /\ ~(place[j] < place[i])
      BY <2>1, <3>1
    <3>3. QED
      BY <1>3, <1>4, <3>2 DEF StrictOrder
  <2>2. ASSUME NEW i \in 1..n PROVE p[place[i]] = i /\ place[i] \in 1..n
    <3>1. place[i] \in 1..n
      BY <1>4
    <3>2. QED
      BY <1>7, <2>1, <3>1
  <2>3. QED
    BY <2>2
<1>10. \A k, l \in 1..n : k < l => p[k] # p[l] /\ <<p[k], p[l]>> \in R
  <2>1. SUFFICES ASSUME NEW k \in 1..n, NEW l \in 1..n, k < l
                 PROVE  p[k] # p[l] /\ <<p[k], p[l]>> \in R
    OBVIOUS
  <2> HIDE DEF p
  <2>2. p[k] # p[l]
    BY <1>7, <2>1
  <2>3. <<p[l], p[k]>> \notin R
    <3>1. SUFFICES ASSUME <<p[l], p[k]>> \in R PROVE FALSE
      OBVIOUS
    <3>2. place[p[l]] < place[p[k]]
      BY <1>4, <1>7, <3>1
    <3>3. QED
      BY <1>7, <2>1, <3>2
  <2>4. QED
    BY <1>3, <1>7, <2>2, <2>3 DEF StrictOrder
<1> HIDE DEF p
<1>11. \A k, l \in 1..n : k < l =>
          /\ p[k] # p[l]
          /\ <<items[p[l]], items[p[k]]>> \notin B
          /\ <<items[p[k]], items[p[l]]>> \in B \/ p[k] < p[l]
  BY <1>1, <1>2, <1>7, <1>10
<1>12. Arrangement(p, n, items, B)
  BY <1>6, <1>8, <1>9, <1>11 DEF Arrangement
<1>13. QED
  BY <1>12

\* What a list holds.
LEMMA InRange ==
    ASSUME NEW f
    PROVE  \A x : x \in Range(f) <=> \E i \in DOMAIN f : x = f[i]
BY DEF Range

IsList(list, n, S) == list \in [1..n -> S]

\* The items of a list are in the order O.
Ordered(list, n, O) == \A k, l \in 1..n : k < l => <<list[k], list[l]>> \in O

\* The order by a key, and by O among those whose keys are equal.
Refine(B, O, S) ==
    {q \in S \X S : q \in B \/ (<<q[2], q[1]>> \notin B /\ q \in O)}

\* One more sort of a list that is ordered already: what the key does not decide
\* stays in the order it had.
LEMMA Resorting ==
    ASSUME NEW n \in Nat, NEW S, NEW items, IsList(items, n, S), NEW B, WeakOrder(B, S),
           NEW O, Ordered(items, n, O),
           NEW sorted, sorted = StableSort(items, B)
    PROVE  /\ IsList(sorted, n, S)
           /\ Range(sorted) = Range(items)
           /\ Ordered(sorted, n, Refine(B, O, S))
<1>0. items \in [1..n -> S]
  BY DEF IsList
<1>1. PICK p : Arrangement(p, n, items, B)
  BY <1>0, Sorting
<1>2. /\ p \in [1..n -> 1..n]
      /\ \A i \in 1..n : \E k \in 1..n : p[k] = i
      /\ StableSort(items, B) = [k \in 1..n |-> items[p[k]]]
      /\ \A k, l \in 1..n : k < l =>
           /\ p[k] # p[l]
           /\ <<items[p[l]], items[p[k]]>> \notin B
           /\ <<items[p[k]], items[p[l]]>> \in B \/ p[k] < p[l]
  BY <1>1 DEF Arrangement
<1>3. sorted = [k \in 1..n |-> items[p[k]]]
  BY <1>2
<1>4. sorted \in [1..n -> S]
  BY <1>0, <1>2, <1>3
<1>5. Range(sorted) = Range(items)
  <2>1. ASSUME NEW i \in 1..n PROVE \E k \in 1..n : sorted[k] = items[i]
    <3>1. PICK k \in 1..n : p[k] = i
      BY <1>2
    <3>2. QED
      BY <1>3, <3>1
  <2>2. ASSUME NEW k \in 1..n PROVE \E i \in 1..n : sorted[k] = items[i]
    <3>1. p[k] \in 1..n /\ sorted[k] = items[p[k]]
      BY <1>2, <1>3
    <3>2. QED
      BY <3>1
  <2>3. DOMAIN sorted = 1..n /\ DOMAIN items = 1..n
    BY <1>0, <1>4
  <2>4. \A x : /\ x \in Range(sorted) <=> \E k \in 1..n : x = sorted[k]
               /\ x \in Range(items) <=> \E i \in 1..n : x = items[i]
    BY <2>3, InRange
  <2>5. Range(sorted) \subseteq Range(items)
    BY <2>2, <2>4
  <2>6. Range(items) \subseteq Range(sorted)
    BY <2>1, <2>4
  <2>7. QED
    BY <2>5, <2>6
<1>6. ASSUME NEW k \in 1..n, NEW l \in 1..n, k < l
      PROVE  \/ <<sorted[k], sorted[l]>> \in B
             \/ /\ <<sorted[l], sorted[k]>> \notin B
                /\ <<sorted[k], sorted[l]>> \in O
  <2>1. p[k] \in 1..n /\ p[l] \in 1..n
    BY <1>2
  <2>2. p[k] < p[l] => <<items[p[k]], items[p[l]]>> \in O
    BY <2>1 DEF Ordered
  <2>3. sorted[k] = items[p[k]] /\ sorted[l] = items[p[l]]
    BY <1>3
  <2>4. QED
    BY <1>2, <1>6, <2>2, <2>3
<1>7. Ordered(sorted, n, Refine(B, O, S))
  BY <1>4, <1>6 DEF Ordered, Refine
<1>8. QED
  BY <1>4, <1>5, <1>7 DEF IsList

\* The slice [:limit] of a list in which every two items are in the order P.
LEMMA Slice ==
    ASSUME NEW n \in Nat, NEW S, NEW s, IsList(s, n, S), NEW limit \in Nat \ {0},
           NEW P, Ordered(s, n, P),
           NEW page, page = Take(s, limit)
    PROVE  /\ Len(s) = n
           /\ Len(page) = IF limit < n THEN limit ELSE n
           /\ DOMAIN page = 1..Len(page)
           /\ \A i, j \in DOMAIN page : i < j => <<page[i], page[j]>> \in P
           /\ Range(page) \subseteq Range(s)
           /\ \A x \in Range(page), y \in Range(s) \ Range(page) : <<x, y>> \in P
<1> DEFINE size == IF limit < n THEN limit ELSE n
<1>1. s \in Seq(S) /\ Len(s) = n
  BY DEF IsList
<1>2. size \in 0..n
  OBVIOUS
<1>3. page = SubSeq(s, 1, size)
  BY <1>1 DEF Take
<1> HIDE DEF size
<1>4. /\ page \in Seq(S) /\ Len(page) = size
      /\ \A k \in 1..size : page[k] = s[k]
  BY <1>1, <1>2, <1>3
<1>5. DOMAIN page = 1..size /\ DOMAIN s = 1..n
  BY <1>1, <1>4
<1>6. \A i, j \in DOMAIN page : i < j => <<page[i], page[j]>> \in P
  BY <1>2, <1>4, <1>5 DEF Ordered
<1>7. Range(page) = {s[k] : k \in 1..size} /\ Range(s) = {s[k] : k \in 1..n}
  BY <1>4, <1>5 DEF Range
<1>8. \A x \in Range(page), y \in Range(s) \ Range(page) : <<x, y>> \in P
  <2>1. SUFFICES ASSUME NEW k \in 1..size, NEW l \in 1..n,
                        s[l] \notin {s[i] : i \in 1..size}
                 PROVE  <<s[k], s[l]>> \in P
    BY <1>7
  <2>2. l \notin 1..size
    BY <2>1
  <2>3. k \in 1..n /\ k < l
    BY <1>2, <2>2
  <2>4. QED
    BY <2>3 DEF Ordered
<1>9. Range(page) \subseteq Range(s)
  BY <1>2, <1>7
<1>10. QED
  BY <1>1, <1>4, <1>5, <1>6, <1>8, <1>9 DEF size

-----------------------------------------------------------------------------
(* _clarity: arithmetic.                                                   *)

\* A product grows with its first factor.
LEMMA AtMostTimes ==
    ASSUME NEW a \in Int, NEW b \in Int, NEW c \in Nat, a <= b
    PROVE a * c <= b * c
<1>1. (b - a) * c >= 0
  OBVIOUS
<1>2. (b - a) * c = b * c - a * c /\ a * c \in Int /\ b * c \in Int
  OBVIOUS
<1>3. QED
  BY <1>1, <1>2

\* A positive factor can be cancelled.
LEMMA LessTimes ==
    ASSUME NEW a \in Int, NEW b \in Int, NEW c \in Nat \ {0}
    PROVE a < b <=> a * c < b * c
<1>1. a < b => (b - a) * c > 0
  OBVIOUS
<1>2. (b - a) * c = b * c - a * c /\ a * c \in Int /\ b * c \in Int
  OBVIOUS
<1>3. a >= b => (a - b) * c >= 0
  OBVIOUS
<1>4. (a - b) * c = a * c - b * c
  OBVIOUS
<1>5. QED
  BY <1>1, <1>2, <1>3, <1>4

\* Products of integers, rearranged.
LEMMA Factors ==
    ASSUME NEW a \in Int, NEW b \in Int, NEW c \in Int
    PROVE /\ (a * b) * c = (a * c) * b /\ (a * b) * c \in Int
          /\ a * b = b * a /\ a * b \in Int
          /\ (a * b) * c = a * (b * c)
OBVIOUS

\* Quotient and remainder.
LEMMA Division ==
    ASSUME NEW a \in Nat, NEW d \in Nat \ {0}
    PROVE /\ a \div d \in Nat /\ a % d \in Nat /\ a % d < d
          /\ a = d * (a \div d) + (a % d)
OBVIOUS

\* The quotient is the largest integer whose product does not exceed the dividend.
LEMMA Floor ==
    ASSUME NEW a \in Nat, NEW d \in Nat \ {0}, NEW k \in Int
    PROVE k <= a \div d <=> d * k <= a
<1> DEFINE q == a \div d
           r == a % d
<1>1. q \in Nat /\ r \in Nat /\ r < d /\ a = d * q + r
  BY Division
<1> HIDE DEF q, r
<1>2. k <= q => d * k <= d * q
  BY <1>1, AtMostTimes, Factors
<1>3. k >= q + 1 => d * k >= d * (q + 1)
  BY <1>1, AtMostTimes, Factors
<1>4. d * (q + 1) = d * q + d /\ d * q \in Int /\ d * k \in Int
  BY <1>1
<1>5. k <= q <=> d * k <= a
  BY <1>1, <1>2, <1>3, <1>4
<1>6. QED
  BY <1>5 DEF q

\* Rounding never passes an integer, and an integer is not rounded.
LEMMA Rounding ==
    ASSUME NEW a \in Nat, NEW d \in Nat \ {0}, NEW k \in Nat
    PROVE /\ RoundHalfEven(a, d) \in Nat
          /\ d * k <= a => k <= RoundHalfEven(a, d)
          /\ a <= d * k => RoundHalfEven(a, d) <= k
          /\ a = d * k => RoundHalfEven(a, d) = k
<1> DEFINE q == a \div d
           r == a % d
<1>1. q \in Nat /\ r \in Nat /\ r < d /\ a = d * q + r
  BY Division
<1>2. RoundHalfEven(a, d) \in {q, q + 1} /\ (2 * r < d => RoundHalfEven(a, d) = q)
  BY DEF RoundHalfEven
<1>3. k <= q <=> d * k <= a
  BY Floor
<1> HIDE DEF q, r
<1>4. d * k \in Int /\ d * q \in Int
  BY <1>1
<1>5. k < q => ~(a <= d * k)
  <2>1. k < q => k * d < q * d
    BY <1>1, LessTimes
  <2>2. k * d = d * k /\ q * d = d * q
    BY <1>1, Factors
  <2>3. QED
    BY <1>1, <1>4, <2>1, <2>2
<1>6. k = q => a = d * k + r
  BY <1>1
<1>7. k = q /\ a <= d * k => r = 0
  BY <1>1, <1>4, <1>6
<1>8. QED
  BY <1>1, <1>2, <1>3, <1>4, <1>5, <1>7

\* A quotient that is no smaller is never rounded to something smaller.
LEMMA RoundingKeepsOrder ==
    ASSUME NEW a \in Nat, NEW d \in Nat \ {0}, NEW b \in Nat, NEW c \in Nat \ {0},
           b * d <= a * c
    PROVE  RoundHalfEven(b, c) <= RoundHalfEven(a, d)
<1> DEFINE q == a \div d
           r == a % d
           p == b \div c
           s == b % c
<1>1. q \in Nat /\ r \in Nat /\ r < d /\ a = d * q + r
  BY Division
<1>2. p \in Nat /\ s \in Nat /\ s < c /\ b = c * p + s
  BY Division
<1>3. p <= q <=> d * p <= a
  BY <1>2, Floor
<1>4. /\ RoundHalfEven(a, d) = IF 2 * r < d \/ (2 * r = d /\ q % 2 = 0) THEN q ELSE q + 1
      /\ RoundHalfEven(b, c) = IF 2 * s < c \/ (2 * s = c /\ p % 2 = 0) THEN p ELSE p + 1
  BY DEF RoundHalfEven
<1> HIDE DEF q, r, p, s
<1>5. p <= q
  <2>1. (c * p) * d <= b * d
    BY <1>2, AtMostTimes, Factors
  <2>2. (d * p) * c <= a * c
    BY <1>1, <1>2, <2>1, Factors
  <2>3. ~(a < d * p)
    BY <1>1, <1>2, <2>2, LessTimes, Factors
  <2>4. QED
    BY <1>3, <1>1, <1>2, <2>3, Factors
<1>6. p = q => s * d <= r * c
  <2>1. b * d = (c * p) * d + s * d /\ a * c = (d * q) * c + r * c
    BY <1>1, <1>2
  <2>2. p = q => (c * p) * d = (d * q) * c
    BY <1>1, <1>2, Factors
  <2>3. /\ (c * p) * d \in Int /\ s * d \in Int
        /\ (d * q) * c \in Int /\ r * c \in Int
    BY <1>1, <1>2, Factors
  <2>4. QED
    BY <2>1, <2>2, <2>3
<1>7. s * d <= r * c /\ c <= 2 * s => d <= 2 * r
  <2>1. SUFFICES ASSUME s * d <= r * c, c <= 2 * s PROVE d <= 2 * r
    OBVIOUS
  <2>2. c * d <= (2 * s) * d
    BY <1>2, <2>1, AtMostTimes
  <2>3. (2 * s) * d <= (2 * r) * c
    BY <1>1, <1>2, <2>1, Factors
  <2>4. ~(2 * r < d)
    BY <1>1, <1>2, <2>2, <2>3, LessTimes, Factors
  <2>5. QED
    BY <1>1, <2>4
<1>8. s * d <= r * c /\ c < 2 * s => d < 2 * r
  <2>1. SUFFICES ASSUME s * d <= r * c, c < 2 * s PROVE d < 2 * r
    OBVIOUS
  <2>2. c * d < (2 * s) * d
    BY <1>2, <2>1, LessTimes
  <2>3. (2 * s) * d <= (2 * r) * c
    BY <1>1, <1>2, <2>1, Factors
  <2>4. d * c < (2 * r) * c
    BY <1>1, <1>2, <2>2, <2>3, Factors
  <2>5. QED
    BY <1>1, <2>4, LessTimes
<1>9. CASE p < q
  BY <1>1, <1>2, <1>4, <1>9
<1>10. CASE p = q
  BY <1>1, <1>2, <1>4, <1>6, <1>7, <1>8, <1>10
<1>11. QED
  BY <1>1, <1>2, <1>5, <1>9, <1>10

-----------------------------------------------------------------------------
(* _clarity: the float.                                                    *)

\* The table of powers, as far as it goes.
LEMMA Powers ==
    /\ MaxTime + Bits \in Nat
    /\ \A k \in 0..(MaxTime + Bits) :
         /\ Pow2[k] \in Nat \ {0}
         /\ \A j \in 0..(MaxTime + Bits) : j < k => 2 * Pow2[j] <= Pow2[k]
<1> DEFINE Ok(k) == /\ Pow2[k] \in Nat \ {0}
                    /\ \A j \in 0..(MaxTime + Bits) : j < k => 2 * Pow2[j] <= Pow2[k]
           bad == {k \in 0..(MaxTime + Bits) : ~Ok(k)}
<1>1. MaxTime + Bits \in Nat
  BY BoundAssumption, PrecisionAssumption
<1>2. bad = {}
  <2>1. SUFFICES ASSUME bad # {} PROVE FALSE
    OBVIOUS
  <2>2. bad \in SUBSET Nat
    BY <1>1
  <2> DEFINE k == Min(bad)
  <2>3. k \in bad /\ \A x \in bad : k <= x
    <3> HIDE DEF bad
    <3> QED
      BY <2>1, <2>2, MinNat
  <2> HIDE DEF k
  <2>4. k \in 0..(MaxTime + Bits) /\ ~Ok(k)
    BY <2>3
  <2>5. k # 0
    <3>1. Pow2[0] = 1
      BY PowerAssumption
    <3>2. Ok(0)
      BY <1>1, <3>1
    <3> HIDE DEF Ok
    <3>3. QED
      BY <2>4, <3>2
  <2>6. k - 1 \in 0..(MaxTime + Bits) /\ ~(k <= k - 1)
    BY <1>1, <2>4, <2>5
  <2>7. Ok(k - 1)
    BY <2>3, <2>6
  <2>8. Pow2[k] = 2 * Pow2[k - 1]
    BY <1>1, <2>4, <2>5, PowerAssumption
  <2>9. Pow2 \in [0..(MaxTime + Bits) -> Nat]
    BY PowerAssumption
  <2>10. Ok(k)
    <3>1. Pow2[k] \in Nat \ {0}
      BY <2>7, <2>8
    <3>2. ASSUME NEW j \in 0..(MaxTime + Bits), j < k PROVE 2 * Pow2[j] <= Pow2[k]
      <4>1. j = k - 1 \/ j < k - 1
        BY <1>1, <2>4, <3>2
      <4>2. j < k - 1 => 2 * Pow2[j] <= Pow2[k - 1]
        BY <2>7
      <4>3. Pow2[j] \in Nat /\ Pow2[k - 1] \in Nat
        BY <2>6, <2>9
      <4>4. QED
        BY <4>1, <4>2, <4>3, <2>8
    <3>3. QED
      BY <3>1, <3>2
  <2> HIDE DEF Ok
  <2>11. QED
    BY <2>4, <2>10
<1>3. QED
  BY <1>1, <1>2

\* Past the digits of a mantissa the powers outgrow every duration.
LEMMA PowersReach ==
    ASSUME NEW d \in 0..MaxTime
    PROVE  d * Pow2[Bits - 1] <= Pow2[MaxTime + Bits]
<1> DEFINE start == Bits - 1
           Ok(j) == (j + 1) * Pow2[start] <= Pow2[start + j]
           bad == {j \in 0..(MaxTime + 1) : ~Ok(j)}
<1>1. /\ MaxTime \in Nat /\ start \in Nat /\ Bits = start + 1
      /\ start \in 0..(MaxTime + Bits)
      /\ \A j \in 0..(MaxTime + 1) : start + j \in 0..(MaxTime + Bits)
  BY BoundAssumption, PrecisionAssumption
<1>2. \A k \in 0..(MaxTime + Bits) : Pow2[k] \in Nat \ {0}
  BY Powers
<1>3. bad = {}
  <2>1. SUFFICES ASSUME bad # {} PROVE FALSE
    OBVIOUS
  <2>2. bad \in SUBSET Nat
    BY <1>1
  <2> DEFINE j == Min(bad)
  <2>3. j \in bad /\ \A x \in bad : j <= x
    <3> HIDE DEF bad
    <3> QED
      BY <2>1, <2>2, MinNat
  <2> HIDE DEF j
  <2>4. j \in 0..(MaxTime + 1) /\ ~Ok(j)
    BY <2>3
  <2>5. j # 0
    <3>1. Pow2[start + 0] = Pow2[start] /\ Pow2[start] \in Nat
      BY <1>1, <1>2
    <3>2. Ok(0)
      BY <3>1
    <3> HIDE DEF Ok
    <3>3. QED
      BY <2>4, <3>2
  <2>6. j - 1 \in 0..(MaxTime + 1) /\ ~(j <= j - 1)
    BY <1>1, <2>4, <2>5
  <2>7. Ok(j - 1)
    BY <2>3, <2>6
  <2>8. Pow2[start + j] = 2 * Pow2[start + (j - 1)]
    <3>1. start + j \in 1..(MaxTime + Bits)
      BY <1>1, <2>4, <2>5
    <3>2. (start + j) - 1 = start + (j - 1)
      BY <1>1, <2>4
    <3>3. QED
      BY <3>1, <3>2, PowerAssumption
  <2>9. Pow2[start] \in Nat /\ Pow2[start + (j - 1)] \in Nat
    BY <1>1, <1>2, <2>6
  <2>10. /\ ((j - 1) + 1) * Pow2[start] <= Pow2[start + (j - 1)]
         /\ (j - 1) + 1 = j
    BY <2>4, <2>7
  <2> DEFINE p == Pow2[start]
             r == Pow2[start + (j - 1)]
  <2>11. p \in Nat /\ r \in Nat /\ j * p <= r /\ Pow2[start + j] = 2 * r
    BY <2>8, <2>9, <2>10
  <2>12. j \in Nat /\ 1 <= j
    BY <2>4, <2>5, <1>1
  <2> HIDE DEF p, r
  <2>13. (j + 1) * p <= 2 * r
    <3>1. (j + 1) * p <= (2 * j) * p
      BY <2>11, <2>12, AtMostTimes
    <3>2. (2 * j) * p = 2 * (j * p) /\ j * p \in Int /\ (j + 1) * p \in Int
      BY <2>11, <2>12
    <3>3. QED
      BY <2>11, <3>1, <3>2
  <2>14. Ok(j)
    BY <2>11, <2>13 DEF p
  <2> HIDE DEF Ok
  <2>15. QED
    BY <2>4, <2>14
<1>4. Ok(MaxTime + 1)
  BY <1>1, <1>3
<1>5. start + (MaxTime + 1) = MaxTime + Bits
  BY <1>1
<1>6. ((MaxTime + 1) + 1) * Pow2[start] <= Pow2[MaxTime + Bits]
  BY <1>4, <1>5
<1> DEFINE p == Pow2[start]
           r == Pow2[MaxTime + Bits]
<1>7. p \in Nat /\ r \in Nat
  BY <1>1, <1>2
<1>8. d \in Nat /\ d <= MaxTime + 2
  BY <1>1
<1>9. (MaxTime + 2) * p <= r
  BY <1>1, <1>6
<1> HIDE DEF p, r
<1>10. d * p <= (MaxTime + 2) * p
  BY <1>1, <1>7, <1>8, AtMostTimes
<1>11. d * p \in Int /\ (MaxTime + 2) * p \in Int
  BY <1>1, <1>7, <1>8
<1>12. d * p <= r
  BY <1>7, <1>9, <1>10, <1>11
<1>13. QED
  BY <1>12 DEF p, r

Float == [m : Nat, e : 0..(MaxTime + Bits)]

\* A fraction of one is normalised to Bits digits and rounded to them.
LEMMA Quotient ==
    ASSUME NEW n \in Nat \ {0}, NEW d \in Nat, n < d, d <= MaxTime,
           NEW x, x = TrueDivide(n, d)
    PROVE  /\ x \in Float
           /\ x.e \in 1..(MaxTime + Bits)
           /\ x.m = RoundHalfEven(n * Pow2[x.e], d) /\ x.m \in Nat
           /\ d * Pow2[Bits - 1] <= n * Pow2[x.e]
           /\ n * Pow2[x.e - 1] < d * Pow2[Bits - 1]
           /\ \A k \in 0..(MaxTime + Bits) :
                d * Pow2[Bits - 1] <= n * Pow2[k] => x.e <= k
<1> DEFINE enough == {k \in 0..(MaxTime + Bits) : n * Pow2[k] >= d * Pow2[Bits - 1]}
           e == Min(enough)
<1>1. /\ MaxTime \in Nat /\ MaxTime + Bits \in Nat /\ Bits - 1 \in 0..(MaxTime + Bits)
      /\ MaxTime + Bits \in 0..(MaxTime + Bits)
  BY BoundAssumption, PrecisionAssumption
<1>2. \A k \in 0..(MaxTime + Bits) : Pow2[k] \in Nat \ {0}
  BY Powers
<1>3. MaxTime + Bits \in enough
  <2> DEFINE r == Pow2[MaxTime + Bits]
  <2>1. d * Pow2[Bits - 1] <= r
    BY <1>1, PowersReach
  <2>2. r \in Nat /\ Pow2[Bits - 1] \in Nat
    BY <1>1, <1>2
  <2>3. 1 * r <= n * r
    <3> HIDE DEF r
    <3> QED
      BY <2>2, AtMostTimes
  <2>4. n * Pow2[MaxTime + Bits] >= d * Pow2[Bits - 1]
    BY <2>1, <2>2, <2>3
  <2>5. QED
    BY <1>1, <2>4
<1>4. enough \in SUBSET Nat
  BY <1>1
<1>5. e \in enough /\ \A k \in enough : e <= k
  <2> HIDE DEF enough
  <2> QED
    BY <1>3, <1>4, MinNat
<1>6. x = [m |-> RoundHalfEven(n * Pow2[e], d), e |-> e]
  BY DEF TrueDivide
<1> HIDE DEF e
<1>7. /\ e \in 0..(MaxTime + Bits) /\ n * Pow2[e] >= d * Pow2[Bits - 1]
      /\ \A k \in 0..(MaxTime + Bits) : n * Pow2[k] >= d * Pow2[Bits - 1] => e <= k
  BY <1>5
<1> HIDE DEF enough
<1>8. /\ \A k \in 0..(MaxTime + Bits) : n * Pow2[k] \in Nat
      /\ d * Pow2[Bits - 1] \in Nat
  BY <1>1, <1>2
<1>9. \A k \in 0..(MaxTime + Bits) : d * Pow2[Bits - 1] <= n * Pow2[k] => e <= k
  BY <1>7, <1>8
<1>10. d * Pow2[Bits - 1] <= n * Pow2[e]
  BY <1>7, <1>8
<1>11. e # 0
  <2>1. Pow2[0] = 1 /\ n * Pow2[0] = n
    BY PowerAssumption
  <2> DEFINE p == Pow2[Bits - 1]
  <2>2. p \in Nat /\ 1 <= p
    BY <1>1, <1>2
  <2>3. d * 1 <= d * p
    <3> HIDE DEF p
    <3>1. 1 * d <= p * d
      BY <2>2, AtMostTimes
    <3>2. QED
      BY <2>2, <3>1, Factors
  <2>4. QED
    BY <1>8, <1>10, <2>1, <2>3
<1>12. e \in 1..(MaxTime + Bits) /\ e - 1 \in 0..(MaxTime + Bits) /\ ~(e <= e - 1)
  BY <1>1, <1>7, <1>11
<1>13. n * Pow2[e - 1] < d * Pow2[Bits - 1]
  BY <1>8, <1>9, <1>12
<1>14. RoundHalfEven(n * Pow2[e], d) \in Nat
  BY <1>7, <1>8, Rounding
<1>15. x \in Float
  BY <1>6, <1>7, <1>14 DEF Float
<1>16. QED
  BY <1>6, <1>9, <1>10, <1>12, <1>13, <1>14, <1>15

\* A larger fraction is never rounded to a smaller float.
LEMMA QuotientOrder ==
    ASSUME NEW n \in Nat \ {0}, NEW d \in Nat, n < d, d <= MaxTime,
           NEW k \in Nat \ {0}, NEW c \in Nat, k < c, c <= MaxTime,
           k * d <= n * c,
           NEW x, x = TrueDivide(n, d), NEW y, y = TrueDivide(k, c)
    PROVE  ~Less(x, y)
<1> DEFINE p == Pow2[Bits - 1]
           P(i) == Pow2[i]
<1>0. MaxTime + Bits \in Nat /\ Bits - 1 \in 0..(MaxTime + Bits) /\ MaxTime \in Nat
  BY BoundAssumption, PrecisionAssumption
<1>1. /\ x.e \in 1..(MaxTime + Bits) /\ x.m = RoundHalfEven(n * P(x.e), d) /\ x.m \in Nat
      /\ d * p <= n * P(x.e)
      /\ \A i \in 0..(MaxTime + Bits) : d * p <= n * P(i) => x.e <= i
  BY Quotient
<1>2. /\ y.e \in 1..(MaxTime + Bits) /\ y.m = RoundHalfEven(k * P(y.e), c) /\ y.m \in Nat
      /\ c * p <= k * P(y.e) /\ k * P(y.e - 1) < c * p
  BY Quotient
<1>3. /\ \A i \in 0..(MaxTime + Bits) : P(i) \in Nat \ {0}
      /\ \A i, j \in 0..(MaxTime + Bits) : j < i => 2 * P(j) <= P(i)
  BY Powers
<1>4. p \in Nat \ {0} /\ d \in Nat \ {0} /\ c \in Nat \ {0}
  BY <1>0, <1>3
<1>5. /\ x.e \in 0..(MaxTime + Bits) /\ y.e \in 0..(MaxTime + Bits)
      /\ y.e - 1 \in 0..(MaxTime + Bits)
  BY <1>0, <1>1, <1>2
<1>6. P(y.e) = 2 * P(y.e - 1)
  BY <1>0, <1>2, PowerAssumption
<1> HIDE DEF p, P
<1>7. x.e <= y.e
  <2> DEFINE r == P(y.e)
  <2>0. r \in Nat
    BY <1>3, <1>5
  <2> HIDE DEF r
  <2>1. (c * p) * d <= (k * r) * d
    BY <1>2, <1>4, <2>0, AtMostTimes, Factors DEF r
  <2>2. (k * d) * r <= (n * c) * r
    BY <1>4, <2>0, AtMostTimes, Factors
  <2>3. (d * p) * c <= (n * r) * c
    <3>1. (c * p) * d = (d * p) * c
      BY <1>4
    <3>2. (k * r) * d = (k * d) * r
      BY <1>4, <2>0, Factors
    <3>3. (n * c) * r = (n * r) * c
      BY <1>4, <2>0, Factors
    <3>4. (d * p) * c \in Int /\ (k * d) * r \in Int /\ (n * r) * c \in Int
      BY <1>4, <2>0, Factors
    <3>5. QED
      BY <2>1, <2>2, <3>1, <3>2, <3>3, <3>4
  <2>4. d * p \in Int /\ n * r \in Int
    BY <1>4, <2>0, Factors
  <2>5. (n * r) * c \in Int /\ (d * p) * c \in Int
    BY <1>4, <2>4, Factors
  <2>6. ~(n * r < d * p)
    BY <1>4, <2>3, <2>4, <2>5, LessTimes
  <2>7. d * p <= n * r
    BY <2>4, <2>6
  <2>8. QED
    BY <1>1, <1>5, <2>7 DEF r
<1>8. CASE x.e = y.e
  <2> DEFINE r == P(y.e)
  <2>0. r \in Nat
    BY <1>3, <1>5
  <2>1. x.m = RoundHalfEven(n * r, d) /\ y.m = RoundHalfEven(k * r, c)
    BY <1>1, <1>2, <1>8
  <2>2. P(x.e) = r
    BY <1>8
  <2> HIDE DEF r
  <2>3. (k * d) * r <= (n * c) * r
    BY <1>4, <2>0, AtMostTimes, Factors
  <2>4. (k * r) * d <= (n * r) * c
    BY <1>4, <2>0, <2>3, Factors
  <2>5. k * r \in Nat /\ n * r \in Nat
    BY <2>0
  <2>6. y.m <= x.m
    BY <1>4, <2>1, <2>4, <2>5, RoundingKeepsOrder
  <2>7. y.m * r <= x.m * r
    BY <1>1, <1>2, <2>0, <2>6, AtMostTimes
  <2>8. y.m * r \in Int /\ x.m * r \in Int
    BY <1>1, <1>2, <2>0, Factors
  <2>9. ~(x.m * P(y.e) < y.m * P(x.e))
    BY <2>2, <2>7, <2>8 DEF r
  <2>10. QED
    BY <2>9 DEF Less, P
<1>9. CASE x.e < y.e
  <2> DEFINE r == P(y.e)
             s == P(x.e)
             q == P(y.e - 1)
  <2>1. r \in Nat /\ s \in Nat /\ q \in Nat /\ 2 * s <= r /\ r = 2 * q
    BY <1>3, <1>5, <1>6, <1>9
  <2>2. x.m = RoundHalfEven(n * s, d) /\ y.m = RoundHalfEven(k * r, c)
    BY <1>1, <1>2
  <2>3. d * p <= n * s /\ k * q < c * p
    BY <1>1, <1>2
  <2> HIDE DEF r, s, q
  <2>4. p <= x.m
    BY <1>4, <2>1, <2>2, <2>3, Rounding
  <2>5. y.m <= 2 * p
    <3>1. k * r = 2 * (k * q) /\ c * (2 * p) = 2 * (c * p)
      BY <1>4, <2>1
    <3>2. k * q \in Int /\ c * p \in Int /\ k * r \in Nat /\ 2 * p \in Nat
      BY <1>4, <2>1
    <3>3. k * r <= c * (2 * p)
      BY <2>3, <3>1, <3>2
    <3>4. QED
      BY <1>4, <2>2, <3>2, <3>3, Rounding
  <2>6. y.m * s <= (2 * p) * s
    BY <1>2, <1>4, <2>1, <2>5, AtMostTimes
  <2>7. p * r <= x.m * r
    BY <1>1, <1>4, <2>1, <2>4, AtMostTimes
  <2>8. (2 * s) * p <= r * p
    BY <1>4, <2>1, AtMostTimes
  <2>9. (2 * s) * p = (2 * p) * s /\ r * p = p * r
    BY <1>4, <2>1, Factors
  <2>10. /\ y.m * s \in Int /\ (2 * p) * s \in Int
         /\ p * r \in Int /\ x.m * r \in Int
    BY <1>1, <1>2, <1>4, <2>1, Factors
  <2>11. ~(x.m * r < y.m * s)
    BY <2>6, <2>7, <2>8, <2>9, <2>10
  <2>12. QED
    BY <2>11 DEF Less, P, r, s
<1>10. QED
  BY <1>5, <1>7, <1>8, <1>9

\* A fraction of one is never rounded to 0, and never above 1.
LEMMA QuotientOfOne ==
    ASSUME NEW n \in Nat \ {0}, NEW d \in Nat, n < d, d <= MaxTime,
           NEW x, x = TrueDivide(n, d)
    PROVE  /\ x.m > 0 /\ x.m <= Pow2[x.e]
           /\ 2 * n = d => x.m * 2 = Pow2[x.e]
<1> DEFINE p == Pow2[Bits - 1]
           r == Pow2[x.e]
           q == Pow2[x.e - 1]
<1>0. MaxTime + Bits \in Nat /\ Bits - 1 \in 0..(MaxTime + Bits) /\ MaxTime \in Nat
  BY BoundAssumption, PrecisionAssumption
<1>1. /\ x.e \in 1..(MaxTime + Bits) /\ x.m = RoundHalfEven(n * r, d) /\ x.m \in Nat
      /\ d * p <= n * r
  BY Quotient
<1>2. \A i \in 0..(MaxTime + Bits) : Pow2[i] \in Nat \ {0}
  BY Powers
<1>3. x.e \in 0..(MaxTime + Bits) /\ x.e - 1 \in 0..(MaxTime + Bits)
  BY <1>0, <1>1
<1>4. p \in Nat \ {0} /\ r \in Nat \ {0} /\ q \in Nat /\ d \in Nat \ {0}
  BY <1>0, <1>2, <1>3
<1>5. r = 2 * q
  BY <1>0, <1>1, PowerAssumption
<1> HIDE DEF p, r, q
<1>6. n * r \in Nat /\ d * p \in Nat
  BY <1>4
<1>7. p <= x.m
  BY <1>1, <1>4, <1>6, Rounding
<1>8. x.m <= r
  <2>1. n * r <= d * r
    BY <1>4, AtMostTimes
  <2>2. QED
    BY <1>1, <1>4, <1>6, <2>1, Rounding
<1>9. 2 * n = d => x.m = q
  <2>1. n * r = n * (2 * q)
    BY <1>5
  <2>2. n * (2 * q) = (2 * n) * q
    BY <1>4
  <2>3. 2 * n = d => n * r = d * q
    BY <2>1, <2>2
  <2>4. QED
    BY <1>1, <1>4, <1>6, <2>3, Rounding
<1>10. QED
  BY <1>1, <1>4, <1>5, <1>7, <1>8, <1>9 DEF r

-----------------------------------------------------------------------------
(* _clarity: a total preorder.                                             *)

\* Clarities compare as the numbers they stand for.
LEMMA LessIsWeakOrder ==
    /\ \A x, y \in Float : Less(x, y) => ~Less(y, x)
    /\ \A x, y, z \in Float : Less(x, y) => Less(x, z) \/ Less(z, y)
<1> DEFINE P(i) == Pow2[i]
<1>0. \A x \in Float : x.m \in Nat /\ P(x.e) \in Nat \ {0}
  BY Powers DEF Float
<1>1. \A x, y : Less(x, y) <=> x.m * P(y.e) < y.m * P(x.e)
  BY DEF Less
<1> HIDE DEF P
<1>2. ASSUME NEW x \in Float, NEW y \in Float PROVE Less(x, y) => ~Less(y, x)
  <2>1. x.m * P(y.e) \in Int /\ y.m * P(x.e) \in Int
    BY <1>0, Factors
  <2>2. QED
    BY <1>1, <2>1
<1>3. ASSUME NEW x \in Float, NEW y \in Float, NEW z \in Float,
             Less(x, y), ~Less(x, z), ~Less(z, y)
      PROVE  FALSE
  <2> DEFINE a == x.m
             b == P(x.e)
             c == y.m
             d == P(y.e)
             u == z.m
             v == P(z.e)
  <2>1. /\ a \in Nat /\ b \in Nat \ {0} /\ c \in Nat /\ d \in Nat \ {0}
        /\ u \in Nat /\ v \in Nat \ {0}
    BY <1>0
  <2>2. a * d < c * b /\ ~(a * v < u * b) /\ ~(u * d < c * v)
    BY <1>1, <1>3
  <2> HIDE DEF a, b, c, d, u, v
  <2>3. /\ a * v \in Int /\ u * b \in Int /\ u * d \in Int /\ c * v \in Int
        /\ a * d \in Int /\ c * b \in Int
    BY <2>1, Factors
  <2>4. u * b <= a * v /\ c * v <= u * d
    BY <2>2, <2>3
  <2>5. /\ (u * b) * d <= (a * v) * d /\ (c * v) * b <= (u * d) * b
        /\ (a * d) * v < (c * b) * v
    BY <2>1, <2>2, <2>3, <2>4, AtMostTimes, LessTimes
  <2>6. /\ (u * b) * d = (u * d) * b /\ (a * v) * d = (a * d) * v
        /\ (c * v) * b = (c * b) * v
    BY <2>1, Factors
  <2>7. (a * d) * v \in Int /\ (c * b) * v \in Int /\ (u * d) * b \in Int
    BY <2>1, Factors
  <2>8. QED
    BY <2>5, <2>6, <2>7
<1>4. QED
  BY <1>2, <1>3

-----------------------------------------------------------------------------
(* Every table is finite, whatever sets the constants are.                 *)

Finite(d) == IsFiniteSet(DOMAIN d.raw_events) /\ IsFiniteSet(DOMAIN d.memories)

LEMMA EffectsFinite ==
    ASSUME NEW d, DbType(d), DbConsistent(d), Finite(d)
    PROVE  /\ \A draft \in EventDrafts, now \in Clocks :
                Finite(IngestEffect(d, draft, now))
           /\ \A draft \in MemoryDrafts : Finite(MaterializeEffect(d, draft))
           /\ \A c \in GovernanceCommand :
                GovernOutcome(d, c) = "done" => Finite(GovernEffect(d, c))
           /\ \A as_of : Finite(ExpireEffect(d, as_of))
<1>0. IsDb(d)
  BY DEF DbType
<1>1. ASSUME NEW draft \in EventDrafts, NEW now \in Clocks
      PROVE  Finite(IngestEffect(d, draft, now))
  <2> DEFINE e == IngestEffect(d, draft, now)
  <2>1. /\ e.raw_events = Insert(d.raw_events, Row(EventKey(draft), NewEventRow(draft, now)))
        /\ e.memories = d.memories
    BY <1>0 DEF IsDb, IngestEffect
  <2>2. DOMAIN e.raw_events = DOMAIN d.raw_events \cup {EventKey(draft)}
    BY <2>1 DEF Insert, Row
  <2>3. QED
    BY <2>1, <2>2, FS_AddElement DEF Finite
<1>2. ASSUME NEW draft \in MemoryDrafts
      PROVE  Finite(MaterializeEffect(d, draft))
  <2> DEFINE e == MaterializeEffect(d, draft)
  <2>1. /\ e.memories = Insert(d.memories, Row(MemoryKey(draft), NewMemoryRow(d, draft)))
        /\ e.raw_events = d.raw_events
    BY <1>0 DEF IsDb, MaterializeEffect
  <2>2. DOMAIN e.memories = DOMAIN d.memories \cup {MemoryKey(draft)}
    BY <2>1 DEF Insert, Row
  <2>3. QED
    BY <2>1, <2>2, FS_AddElement DEF Finite
<1>3. ASSUME NEW c \in GovernanceCommand, GovernOutcome(d, c) = "done"
      PROVE  Finite(GovernEffect(d, c))
  <2> DEFINE e == GovernEffect(d, c)
  <2>1. /\ DOMAIN e.raw_events \subseteq DOMAIN d.raw_events
        /\ DOMAIN e.memories \subseteq DOMAIN d.memories
    BY <1>3, GovernShrinks
  <2>2. QED
    BY <2>1, FS_Subset DEF Finite
<1>4. ASSUME NEW as_of PROVE Finite(ExpireEffect(d, as_of))
  <2> DEFINE e == ExpireEffect(d, as_of)
  <2>1. DOMAIN e.raw_events = DOMAIN d.raw_events /\ e.memories = d.memories
    BY <1>0 DEF IsDb, ExpireEffect
  <2>2. QED
    BY <2>1 DEF Finite
<1>5. QED
  BY <1>1, <1>2, <1>3, <1>4

LEMMA StaysFinite == Spec => [](TypeOK /\ Consistent /\ Finite(db))
<1>1. Init => Finite(db)
  <2>1. Init => DOMAIN db.raw_events = {} /\ DOMAIN db.memories = {}
    BY DEF Init, EmptyDb, EmptyTable
  <2>2. QED
    BY <2>1, FS_EmptySet DEF Finite
<1>2. TypeOK /\ Consistent /\ Finite(db) /\ [Next]_vars => Finite(db)'
  <2> SUFFICES ASSUME TypeOK, Consistent, Finite(db), [Next]_vars
               PROVE  Finite(db')
    OBVIOUS
  <2>1. DbType(db) /\ DbConsistent(db)
    BY DEF TypeOK, Consistent
  <2>2. db' = db => Finite(db')
    OBVIOUS
  <2>3. ASSUME Next
        PROVE  Finite(db')
    <3>1. CASE \E draft \in EventDrafts, now \in Clocks : IngestEvent(draft, now)
      BY <2>1, <3>1, EffectsFinite DEF IngestEvent
    <3>2. CASE \E draft \in MemoryDrafts : MaterializeOnce(draft)
      BY <2>1, <3>2, EffectsFinite DEF MaterializeOnce
    <3>3. CASE \E c \in GovernanceCommand : Govern(c)
      BY <2>1, <3>3, EffectsFinite DEF Govern
    <3>4. CASE \E as_of \in Sweeps : ExpireRawContent(as_of)
      BY <2>1, <3>4, EffectsFinite DEF ExpireRawContent
    <3>5. QED
      BY <2>3, <3>1, <3>2, <3>3, <3>4 DEF Next
  <2>4. QED
    BY <2>2, <2>3 DEF vars
<1>3. QED
  BY <1>1, <1>2, TypeCorrect, Consistency, PTL DEF Spec

-----------------------------------------------------------------------------
(* recall.                                                                 *)

\* A candidate's row, and what _clarity divides.
LEMMA CandidateRow ==
    ASSUME NEW d, DbType(d), DbConsistent(d), NEW s, NEW t \in 0..MaxTime, NEW kinds,
           NEW m \in RecallCandidates(d, s, t, kinds),
           NEW row, row = d.memories[<<s, m>>]
    PROVE  /\ m \in Ids /\ <<s, m>> \in DOMAIN d.memories
           /\ row.created_at \in Nat
           /\ row.clear_until \in 0..MaxTime /\ row.recall_until \in 0..MaxTime
           /\ row.clear_until <= row.recall_until
           /\ t < row.recall_until
<1>1. m \in Ids /\ <<s, m>> \in DOMAIN d.memories /\ row.recall_until > t
  BY DEF RecallCandidates, MemoriesIn
<1>2. row \in MemoryRow
  BY <1>1 DEF DbType, IsTable
<1>3. /\ row.created_at \in 0..MaxTime
      /\ row.clear_until \in 0..MaxTime /\ row.recall_until \in 0..MaxTime
  BY <1>2 DEF MemoryRow
<1>4. MemoryRecordOk(d, s, m)
  <2>1. \A k \in DOMAIN d.memories : MemoryRecordOk(d, k[1], k[2])
    BY DEF DbConsistent
  <2>2. QED
    BY <1>1, <2>1
<1>5. row.clear_until <= row.recall_until
  BY <1>4 DEF MemoryRecordOk
<1>6. QED
  BY <1>1, <1>3, <1>5, BoundAssumption

\* clarity is a float from 0 to 1, and 1 until the memory starts to fade.
LEMMA ClarityBounds ==
    ASSUME NEW row, NEW t \in 0..MaxTime,
           row.clear_until \in 0..MaxTime, row.recall_until \in 0..MaxTime,
           t < row.recall_until,
           NEW x, x = Clarity(row, t)
    PROVE  /\ x \in Float
           /\ x.m > 0 /\ x.m <= Pow2[x.e]
           /\ t <= row.clear_until => x = One
           /\ t > row.clear_until =>
                /\ row.recall_until - t \in Nat \ {0}
                /\ row.recall_until - row.clear_until \in Nat
                /\ row.recall_until - t < row.recall_until - row.clear_until
                /\ row.recall_until - row.clear_until <= MaxTime
                /\ x = TrueDivide(row.recall_until - t, row.recall_until - row.clear_until)
<1>1. MaxTime \in Nat /\ MaxTime + Bits \in Nat
  BY BoundAssumption, PrecisionAssumption
<1>2. CASE t <= row.clear_until
  <2>1. x = One
    BY <1>2 DEF Clarity
  <2>2. One \in Float /\ One.m = 1 /\ One.e = 0
    BY <1>1 DEF One, Float
  <2>3. Pow2[0] = 1
    BY PowerAssumption
  <2>4. QED
    BY <1>1, <1>2, <2>1, <2>2, <2>3
<1>3. CASE ~(t <= row.clear_until)
  <2> DEFINE n == row.recall_until - t
             c == row.recall_until - row.clear_until
  <2>1. n \in Nat \ {0} /\ c \in Nat /\ n < c /\ c <= MaxTime
    BY <1>1, <1>3
  <2>2. x = TrueDivide(n, c)
    BY <1>3 DEF Clarity
  <2> HIDE DEF n, c
  <2>3. x \in Float
    BY <2>1, <2>2, Quotient
  <2>4. x.m > 0 /\ x.m <= Pow2[x.e]
    BY <2>1, <2>2, QuotientOfOne
  <2>5. QED
    BY <1>1, <1>3, <2>1, <2>2, <2>3, <2>4 DEF n, c
<1>4. QED
  BY <1>2, <1>3

\* Clarity is sound at every instant.
LEMMA Fading ==
    ASSUME NEW d, DbType(d), DbConsistent(d), NEW s, NEW t \in 0..MaxTime,
           NEW m \in RecallCandidates(d, s, t, {}),
           NEW row, row = d.memories[<<s, m>>],
           NEW x, x = Clarity(row, t)
    PROVE  /\ ~Less(One, x)
           /\ 2 * (row.recall_until - t) = row.recall_until - row.clear_until =>
                x.m * 2 = Pow2[x.e]
           /\ \A u \in 0..t : ~Less(Clarity(row, u), x)
<1>0. MaxTime \in Nat /\ t \in Nat /\ Pow2[0] = 1
  BY BoundAssumption, PowerAssumption
<1>1. /\ row.clear_until \in 0..MaxTime /\ row.recall_until \in 0..MaxTime
      /\ row.clear_until <= row.recall_until /\ t < row.recall_until
  BY CandidateRow
<1> DEFINE n(u) == row.recall_until - u
           c == row.recall_until - row.clear_until
<1>2. /\ x \in Float
      /\ x.m > 0 /\ x.m <= Pow2[x.e]
      /\ t <= row.clear_until => x = One
      /\ t > row.clear_until =>
           n(t) \in Nat \ {0} /\ c \in Nat /\ n(t) < c /\ c <= MaxTime /\ x = TrueDivide(n(t), c)
  BY <1>1, ClarityBounds
<1>3. x.m \in Nat /\ Pow2[x.e] \in Nat
  BY <1>2, Powers DEF Float
<1>4. One.m = 1 /\ One.e = 0
  BY DEF One
<1>5. ~Less(One, x)
  BY <1>0, <1>2, <1>3, <1>4 DEF Less
<1>6. 2 * n(t) = c => x.m * 2 = Pow2[x.e]
  <2>1. 2 * n(t) = c => t > row.clear_until
    BY <1>0, <1>1
  <2> HIDE DEF n, c
  <2>2. QED
    BY <1>2, <2>1, QuotientOfOne
<1>7. ASSUME NEW u \in 0..t PROVE ~Less(Clarity(row, u), x)
  <2>1. u \in 0..MaxTime /\ u < row.recall_until /\ u <= t
    BY <1>0, <1>1, <1>7
  <2>2. CASE u <= row.clear_until
    BY <1>5, <2>2 DEF Clarity
  <2>3. CASE ~(u <= row.clear_until)
    <3>1. u > row.clear_until /\ t > row.clear_until
      BY <1>0, <1>1, <2>1, <2>3
    <3>2. /\ n(u) \in Nat \ {0} /\ n(u) < c
          /\ Clarity(row, u) = TrueDivide(n(u), c)
      BY <1>1, <2>1, <3>1, ClarityBounds
    <3>3. n(t) <= n(u)
      BY <1>0, <1>1, <2>1
    <3>4. n(t) \in Nat \ {0} /\ c \in Nat /\ n(t) < c /\ c <= MaxTime /\ x = TrueDivide(n(t), c)
      BY <1>2, <3>1
    <3> HIDE DEF n, c
    <3>5. n(t) * c <= n(u) * c
      BY <3>2, <3>3, <3>4, AtMostTimes
    <3>6. QED
      BY <3>2, <3>4, <3>5, QuotientOrder
  <2>4. QED
    BY <2>2, <2>3
<1>8. QED
  BY <1>5, <1>6, <1>7

\* Between two memories rounding never reverses how far they have faded.
LEMMA FadingCompared ==
    ASSUME NEW d, DbType(d), DbConsistent(d), NEW s, NEW t \in 0..MaxTime,
           NEW m \in RecallCandidates(d, s, t, {}), NEW k \in RecallCandidates(d, s, t, {}),
           NEW row, row = d.memories[<<s, m>>],
           NEW other, other = d.memories[<<s, k>>],
           (row.recall_until - t) * (other.recall_until - other.clear_until)
             > (other.recall_until - t) * (row.recall_until - row.clear_until)
    PROVE  ~Less(Clarity(row, t), Clarity(other, t))
<1> DEFINE n == row.recall_until - t
           c == row.recall_until - row.clear_until
           i == other.recall_until - t
           j == other.recall_until - other.clear_until
           x == Clarity(row, t)
           y == Clarity(other, t)
<1>0. MaxTime \in Nat /\ t \in Nat
  BY BoundAssumption
<1>1. /\ row.clear_until \in 0..MaxTime /\ row.recall_until \in 0..MaxTime
      /\ row.clear_until <= row.recall_until /\ t < row.recall_until
      /\ other.clear_until \in 0..MaxTime /\ other.recall_until \in 0..MaxTime
      /\ other.clear_until <= other.recall_until /\ t < other.recall_until
  BY CandidateRow
<1>2. /\ t <= row.clear_until => x = One
      /\ t > row.clear_until =>
           n \in Nat \ {0} /\ c \in Nat /\ n < c /\ c <= MaxTime /\ x = TrueDivide(n, c)
  BY <1>1, ClarityBounds
<1>3. t > other.clear_until =>
        i \in Nat \ {0} /\ j \in Nat /\ i < j /\ j <= MaxTime /\ y = TrueDivide(i, j)
  BY <1>1, ClarityBounds
<1>4. n \in Nat /\ c \in Nat /\ i \in Nat /\ j \in Nat
  BY <1>0, <1>1
<1>5. t > row.clear_until \/ t <= row.clear_until
  BY <1>0, <1>1
<1>6. t > other.clear_until \/ j <= i
  BY <1>0, <1>1
<1>7. ~Less(One, y)
  BY Fading
<1>8. i * c < n * j
  BY <1>4
<1> HIDE DEF n, c, i, j, x, y
<1>9. CASE t <= row.clear_until
  BY <1>2, <1>7, <1>9 DEF x, y
<1>10. CASE t > row.clear_until /\ t > other.clear_until
  <2>1. i * c <= n * j
    BY <1>4, <1>8
  <2>2. QED
    BY <1>2, <1>3, <1>10, <2>1, QuotientOrder DEF x, y
<1>11. CASE t > row.clear_until /\ j <= i
  <2>1. n * j <= c * j
    BY <1>2, <1>4, <1>11, AtMostTimes
  <2>2. j * c <= i * c
    BY <1>4, <1>11, AtMostTimes
  <2>3. c * j = j * c /\ n * j \in Int /\ j * c \in Int /\ i * c \in Int
    BY <1>4, Factors
  <2>4. QED
    BY <1>8, <2>1, <2>2, <2>3
<1>12. QED
  BY <1>5, <1>6, <1>9, <1>10, <1>11 DEF x, y

\* What recall says of a fading memory is sound for every duration, every
\* precision of the float and every instant.
THEOREM FadingIsSound == Spec => []FadingSound
<1>1. TypeOK /\ Consistent => FadingSound
  <2> SUFFICES ASSUME DbType(db), DbConsistent(db), NEW s \in Scopes, NEW t \in 0..MaxTime,
                      NEW m \in RecallCandidates(db, s, t, {}),
                      NEW row, row = db.memories[<<s, m>>]
               PROVE
        /\ t > row.clear_until =>
             row.recall_until - row.clear_until > 0 /\ row.recall_until - t > 0
        /\ Clarity(row, t).m > 0 /\ ~Less(One, Clarity(row, t))
        /\ t <= row.clear_until => Clarity(row, t) = One
        /\ 2 * (row.recall_until - t) = row.recall_until - row.clear_until =>
             Clarity(row, t).m * 2 = Pow2[Clarity(row, t).e]
        /\ \A u \in 0..t : ~Less(Clarity(row, u), Clarity(row, t))
        /\ \A n \in RecallCandidates(db, s, t, {}) :
             (row.recall_until - t)
                 * (db.memories[<<s, n>>].recall_until - db.memories[<<s, n>>].clear_until)
               > (db.memories[<<s, n>>].recall_until - t)
                   * (row.recall_until - row.clear_until) =>
               ~Less(Clarity(row, t), Clarity(db.memories[<<s, n>>], t))
    BY DEF TypeOK, Consistent, FadingSound
  <2>1. /\ row.clear_until \in 0..MaxTime /\ row.recall_until \in 0..MaxTime
        /\ row.clear_until <= row.recall_until /\ t < row.recall_until
    BY CandidateRow
  <2>2. t > row.clear_until =>
          row.recall_until - row.clear_until > 0 /\ row.recall_until - t > 0
    BY <2>1, BoundAssumption
  <2>3. Clarity(row, t).m > 0 /\ (t <= row.clear_until => Clarity(row, t) = One)
    BY <2>1, ClarityBounds
  <2>4. /\ ~Less(One, Clarity(row, t))
        /\ 2 * (row.recall_until - t) = row.recall_until - row.clear_until =>
             Clarity(row, t).m * 2 = Pow2[Clarity(row, t).e]
        /\ \A u \in 0..t : ~Less(Clarity(row, u), Clarity(row, t))
    BY Fading
  <2>5. \A n \in RecallCandidates(db, s, t, {}) :
             (row.recall_until - t)
                 * (db.memories[<<s, n>>].recall_until - db.memories[<<s, n>>].clear_until)
               > (db.memories[<<s, n>>].recall_until - t)
                   * (row.recall_until - row.clear_until) =>
               ~Less(Clarity(row, t), Clarity(db.memories[<<s, n>>], t))
    BY FadingCompared
  <2>6. QED
    BY <2>2, <2>3, <2>4, <2>5
<1>2. QED
  BY <1>1, TypeCorrect, Consistency, PTL

\* The lists a SELECT without ORDER BY may return.
LEMMA Listing ==
    ASSUME NEW S, IsFiniteSet(S), NEW f \in SetToSeqs(S),
           NEW n, n = Cardinality(S)
    PROVE  /\ n \in Nat
           /\ f \in [1..n -> S] /\ DOMAIN f = 1..n
           /\ \A i, j \in 1..n : i # j => f[i] # f[j]
           /\ Range(f) = S
<1>1. n \in Nat
  BY FS_CardinalityType
<1>2. f \in [1..n -> S] /\ DOMAIN f = 1..n /\ \A i, j \in 1..n : i # j => f[i] # f[j]
  BY DEF SetToSeqs
<1>3. f \in Injection(1..n, S)
  BY <1>2 DEF Injection, IsInjective
<1>4. IsFiniteSet(1..n) /\ Cardinality(1..n) = n
  BY <1>1, FS_Interval
<1>5. f \in Surjection(1..n, S)
  BY <1>3, <1>4, FS_Injection
<1>6. \A x \in S : \E i \in 1..n : f[i] = x
  BY <1>5 DEF Surjection
<1>7. Range(f) \subseteq S
  <2>1. \A x : x \in Range(f) <=> \E i \in 1..n : x = f[i]
    BY <1>2, InRange
  <2>2. QED
    BY <1>2, <2>1
<1>8. S \subseteq Range(f)
  BY <1>2, <1>6, InRange
<1>9. QED
  BY <1>1, <1>2, <1>7, <1>8

LEMMA CandidatesFinite ==
    ASSUME NEW d, Finite(d), NEW s, NEW t, NEW kinds
    PROVE  IsFiniteSet(RecallCandidates(d, s, t, kinds))
<1> DEFINE S == RecallCandidates(d, s, t, kinds)
           f == [m \in S |-> <<s, m>>]
<1>1. \A m \in S : <<s, m>> \in DOMAIN d.memories
  BY DEF RecallCandidates, MemoriesIn
<1> HIDE DEF S
<1>2. f \in Injection(S, DOMAIN d.memories)
  BY <1>1 DEF Injection, IsInjective
<1>3. QED
  BY <1>2, FS_Injection DEF Finite, S

RecallItem == [memory_id : Ids, created_at : Nat, clarity : Float]
DistinctIds(items, n) ==
    \A i, j \in 1..n : i # j => items[i].memory_id # items[j].memory_id

\* The items before they are sorted.
LEMMA ItemsListed ==
    ASSUME NEW d, DbType(d), DbConsistent(d), Finite(d),
           NEW query \in RecallQuery, NEW order \in CandidateOrders(d, query),
           NEW all, all = Items(d, query, order)
    PROVE  \E n \in Nat : all \in [1..n -> RecallItem] /\ DistinctIds(all, n)
<1> DEFINE S == RecallCandidates(d, query.scope, query.as_of, query.kinds)
           n == Cardinality(S)
           row(k) == d.memories[<<query.scope, order[k]>>]
<1>1. query.as_of \in 0..MaxTime
  BY DEF RecallQuery
<1>2. IsFiniteSet(S)
  BY CandidatesFinite
<1>3. order \in SetToSeqs(S)
  BY DEF CandidateOrders
<1>4. /\ n \in Nat /\ order \in [1..n -> S] /\ DOMAIN order = 1..n
      /\ \A i, j \in 1..n : i # j => order[i] # order[j]
  <2> HIDE DEF S
  <2> QED
    BY <1>2, <1>3, Listing
<1>5. all = [k \in 1..n |-> [memory_id |-> order[k], created_at |-> row(k).created_at,
                             clarity |-> Clarity(row(k), query.as_of)]]
  BY <1>4 DEF Items
<1>6. ASSUME NEW k \in 1..n
      PROVE  /\ order[k] \in Ids /\ row(k).created_at \in Nat
             /\ Clarity(row(k), query.as_of) \in Float
  <2>1. order[k] \in S
    BY <1>4
  <2>2. /\ order[k] \in Ids /\ row(k).created_at \in Nat
        /\ row(k).clear_until \in 0..MaxTime /\ row(k).recall_until \in 0..MaxTime
        /\ query.as_of < row(k).recall_until
    BY <1>1, <2>1, CandidateRow
  <2>3. QED
    BY <1>1, <2>2, ClarityBounds
<1> HIDE DEF n, row
<1>7. all \in [1..n -> RecallItem]
  BY <1>5, <1>6 DEF RecallItem
<1>8. DistinctIds(all, n)
  BY <1>4, <1>5 DEF DistinctIds
<1>9. QED
  BY <1>4, <1>7, <1>8

\* The three keys of recall.
LEMMA RecallKeys ==
    ASSUME NEW items, Range(items) \subseteq RecallItem
    PROVE  /\ WeakOrder(ById(items), Range(items))
           /\ WeakOrder(NewestFirst(items), Range(items))
           /\ WeakOrder(ClearestFirst(items), Range(items))
<1> DEFINE S == Range(items)
<1>0. \A x \in S : /\ x.memory_id \in Ids /\ x.created_at \in Nat /\ x.clarity \in Float
                   /\ IdRank[x.memory_id] \in Nat
  BY RankAssumption DEF RecallItem
<1>1. \A x, y \in S : <<x, y>> \in ById(items) <=> IdRank[x.memory_id] < IdRank[y.memory_id]
  BY DEF ById, Pairs
<1>2. \A x, y \in S : <<x, y>> \in NewestFirst(items) <=> x.created_at > y.created_at
  BY DEF NewestFirst, Pairs
<1>3. \A x, y \in S : <<x, y>> \in ClearestFirst(items) <=> Less(y.clarity, x.clarity)
  BY DEF ClearestFirst, Pairs
<1> HIDE DEF S
<1>4. WeakOrder(ById(items), S)
  BY <1>0, <1>1 DEF WeakOrder
<1>5. WeakOrder(NewestFirst(items), S)
  BY <1>0, <1>2 DEF WeakOrder
<1>6. WeakOrder(ClearestFirst(items), S)
  BY <1>0, <1>3, LessIsWeakOrder DEF WeakOrder
<1>7. QED
  BY <1>4, <1>5, <1>6 DEF S

\* Sorting by identifier, then by age, then by clarity gives the documented order.
LEMMA RecallOrder ==
    ASSUME NEW n \in Nat, NEW items \in [1..n -> RecallItem],
           DistinctIds(items, n),
           NEW sorted,
           sorted = StableSort(StableSort(StableSort(items, ById(items)),
                                          NewestFirst(items)), ClearestFirst(items))
    PROVE  \E P : /\ IsList(sorted, n, Range(items))
                  /\ Range(sorted) = Range(items)
                  /\ Ordered(sorted, n, P)
                  /\ \A x, y : <<x, y>> \in P => Precedes(x, y)
<1> DEFINE S == Range(items)
           byId == StableSort(items, ById(items))
           newest == StableSort(byId, NewestFirst(items))
           different == {p \in S \X S : p[1].memory_id # p[2].memory_id}
           smaller == Refine(ById(items), different, S)
           younger == Refine(NewestFirst(items), smaller, S)
           P == Refine(ClearestFirst(items), younger, S)
<1>1. items \in [1..n -> S] /\ S \subseteq RecallItem
  BY InRange
<1>2. /\ WeakOrder(ById(items), S) /\ WeakOrder(NewestFirst(items), S)
      /\ WeakOrder(ClearestFirst(items), S)
  BY <1>1, RecallKeys
<1>3. \A x, y \in S :
        /\ <<x, y>> \in ById(items) <=> IdRank[x.memory_id] < IdRank[y.memory_id]
        /\ <<x, y>> \in NewestFirst(items) <=> x.created_at > y.created_at
        /\ <<x, y>> \in ClearestFirst(items) <=> Less(y.clarity, x.clarity)
  BY DEF ById, NewestFirst, ClearestFirst, Pairs
<1> HIDE DEF S
<1>4. \A x \in S : /\ x.memory_id \in Ids /\ x.created_at \in Nat
                   /\ IdRank[x.memory_id] \in Nat
  BY <1>1, RankAssumption DEF RecallItem
<1>5. Ordered(items, n, different)
  BY <1>1 DEF Ordered, DistinctIds
<1>6. \A x, y : <<x, y>> \in P => Precedes(x, y)
  <2>1. SUFFICES ASSUME NEW x, NEW y, <<x, y>> \in P PROVE Precedes(x, y)
    OBVIOUS
  <2>2. /\ x \in S /\ y \in S
        /\ \/ <<x, y>> \in ClearestFirst(items)
           \/ <<y, x>> \notin ClearestFirst(items) /\ <<x, y>> \in younger
    <3> HIDE DEF younger
    <3> QED
      BY <2>1 DEF Refine
  <2>3. <<x, y>> \in younger =>
          \/ <<x, y>> \in NewestFirst(items)
          \/ <<y, x>> \notin NewestFirst(items) /\ <<x, y>> \in smaller
    <3> HIDE DEF smaller
    <3> QED
      BY DEF Refine
  <2>4. <<x, y>> \in smaller =>
          \/ <<x, y>> \in ById(items)
          \/ <<y, x>> \notin ById(items) /\ x.memory_id # y.memory_id
    BY DEF Refine
  <2> HIDE DEF different, smaller, younger, P
  <2>5. <<x, y>> \in smaller => IdRank[x.memory_id] < IdRank[y.memory_id]
    <3>1. IdRank[x.memory_id] = IdRank[y.memory_id] => x.memory_id = y.memory_id
      BY <1>4, <2>2, RankAssumption
    <3>2. QED
      BY <1>3, <1>4, <2>2, <2>4, <3>1
  <2>6. <<x, y>> \in younger =>
          \/ x.created_at > y.created_at
          \/ /\ x.created_at = y.created_at
             /\ IdRank[x.memory_id] < IdRank[y.memory_id]
    BY <1>3, <1>4, <2>2, <2>3, <2>5
  <2>7. QED
    BY <1>3, <2>2, <2>6 DEF Precedes
<1> HIDE DEF different
<1>7. /\ IsList(byId, n, S) /\ Range(byId) = Range(items)
      /\ Ordered(byId, n, smaller)
  <2>1. IsList(items, n, S)
    BY <1>1 DEF IsList
  <2>2. QED
    BY <1>2, <1>5, <2>1, Resorting
<1> HIDE DEF byId, smaller
<1>8. /\ IsList(newest, n, S) /\ Range(newest) = Range(byId)
      /\ Ordered(newest, n, younger)
  BY <1>2, <1>7, Resorting
<1>9. sorted = StableSort(newest, ClearestFirst(items))
  BY DEF byId
<1> HIDE DEF newest, younger
<1>10. /\ IsList(sorted, n, S) /\ Range(sorted) = Range(newest)
       /\ Ordered(sorted, n, P)
  BY <1>2, <1>8, <1>9, Resorting
<1> HIDE DEF P
<1>11. QED
  BY <1>6, <1>7, <1>8, <1>10 DEF S

\* Whatever order the rows come in, recall returns the first memories of the
\* documented order, in that order, for every limit and every scope.
THEOREM RecallIsDeterministic == Spec => []RecallDeterministic
<1>1. TypeOK /\ Consistent /\ Finite(db) => RecallDeterministic
  <2>0. SUFFICES ASSUME DbType(db), DbConsistent(db), Finite(db),
                        NEW query \in RecallQuery, NEW order \in CandidateOrders(db, query),
                        NEW page, page = Page(db, query, order),
                        NEW all, all = Items(db, query, order)
                 PROVE
        /\ Len(page) = IF query.limit < Len(all) THEN query.limit ELSE Len(all)
        /\ \A i, j \in DOMAIN page : i < j => Precedes(page[i], page[j])
        /\ \A x \in Range(page), y \in Range(all) \ Range(page) : Precedes(x, y)
    BY DEF TypeOK, Consistent, RecallDeterministic
  <2>1. PICK n \in Nat : all \in [1..n -> RecallItem] /\ DistinctIds(all, n)
    BY <2>0, ItemsListed
  <2> DEFINE sorted == StableSort(StableSort(StableSort(all, ById(all)),
                                             NewestFirst(all)), ClearestFirst(all))
  <2>2. PICK P : /\ IsList(sorted, n, Range(all)) /\ Range(sorted) = Range(all)
                 /\ Ordered(sorted, n, P)
                 /\ \A x, y : <<x, y>> \in P => Precedes(x, y)
    BY <2>1, RecallOrder
  <2>3. page = Take(sorted, query.limit)
    BY <2>0 DEF Page
  <2>4. query.limit \in Nat \ {0}
    BY LimitAssumption DEF RecallQuery
  <2>5. Len(all) = n
    BY <2>1
  <2> HIDE DEF sorted
  <2>6. /\ Len(page) = IF query.limit < n THEN query.limit ELSE n
        /\ \A i, j \in DOMAIN page : i < j => <<page[i], page[j]>> \in P
        /\ \A x \in Range(page), y \in Range(sorted) \ Range(page) : <<x, y>> \in P
    BY <2>2, <2>3, <2>4, Slice
  <2>7. QED
    BY <2>2, <2>5, <2>6
<1>2. QED
  BY <1>1, StaysFinite, PTL

-----------------------------------------------------------------------------
(* What govern and expire_raw_content return.                              *)

\* A set as a list of its elements.
LEMMA OneList ==
    ASSUME NEW S, IsFiniteSet(S),
           NEW n, n = Cardinality(S), NEW f, f = SetToSeq(S)
    PROVE  /\ n \in Nat /\ f \in [1..n -> S]
           /\ \A i, j \in 1..n : f[i] = f[j] => i = j
           /\ \A x \in S : \E i \in 1..n : f[i] = x
<1>1. n \in Nat /\ ExistsBijection(1..n, S)
  BY FS_CardinalityType
<1>2. PICK g : g \in Bijection(1..n, S)
  BY <1>1 DEF ExistsBijection
<1>3. g \in [1..n -> S] /\ IsInjective(g)
  BY <1>2 DEF Bijection, Injection
<1>4. f \in [1..n -> S] /\ IsInjective(f)
  BY <1>3 DEF SetToSeq
<1>5. f \in Injection(1..n, S)
  BY <1>4 DEF Injection
<1>6. IsFiniteSet(1..n) /\ Cardinality(1..n) = n
  BY <1>1, FS_Interval
<1>7. f \in Surjection(1..n, S)
  BY <1>5, <1>6, FS_Injection
<1>8. QED
  BY <1>1, <1>4, <1>7 DEF IsInjective, Surjection

\* ids is the entity followed by the set S as f lists it, arranged by p.
Reported(f, p, n, S, entity, ids) ==
    /\ n \in Nat \ {0} /\ f \in [1..(n - 1) -> S] /\ p \in [1..n -> 1..n]
    /\ \A i, j \in 1..(n - 1) : f[i] = f[j] => i = j
    /\ \A x \in S : \E i \in 1..(n - 1) : f[i] = x
    /\ \A i, j \in 1..n : p[i] = p[j] => i = j
    /\ \A i \in 1..n : \E k \in 1..n : p[k] = i
    /\ ids = [k \in 1..n |-> IF p[k] = 1 THEN entity ELSE f[p[k] - 1]]

\* The list of affected identifiers, up to its order.
LEMMA AffectedListed ==
    ASSUME NEW d, NEW c \in GovernanceCommand, NEW S \in SUBSET Ids, IsFiniteSet(S),
           S = IF c.entity_type = "memory" THEN {} ELSE Dependents(d, c.scope, c.entity_id),
           NEW n, n = 1 + Cardinality(S),
           NEW ids, ids = AffectedIds(d, c)
    PROVE  \E f, p : Reported(f, p, n, S, c.entity_id, ids)
<1> DEFINE f == SetToSeq(S)
           list == <<c.entity_id>> \o f
           B == {q \in Pairs(list) : IdRank[q[1]] < IdRank[q[2]]}
<1>1. Cardinality(S) \in Nat
  BY FS_CardinalityType
<1>2. n \in Nat \ {0} /\ Cardinality(S) = n - 1
  BY <1>1
<1>3. /\ f \in [1..(n - 1) -> S]
      /\ \A i, j \in 1..(n - 1) : f[i] = f[j] => i = j
      /\ \A x \in S : \E i \in 1..(n - 1) : f[i] = x
  BY <1>2, OneList
<1>4. ids = StableSort(list, B)
  BY DEF AffectedIds
<1> HIDE DEF f
<1>5. /\ list \in [1..n -> Ids]
      /\ \A i \in 1..n : list[i] = IF i = 1 THEN c.entity_id ELSE f[i - 1]
  <2>1. c.entity_id \in Ids
    BY DEF GovernanceCommand
  <2>2. f \in Seq(Ids) /\ Len(f) = n - 1
    BY <1>2, <1>3
  <2>3. <<c.entity_id>> \in Seq(Ids) /\ Len(<<c.entity_id>>) = 1
    BY <2>1
  <2>4. /\ list \in Seq(Ids) /\ Len(list) = n
        /\ \A i \in 1..n : list[i] = IF i <= 1 THEN <<c.entity_id>>[i] ELSE f[i - 1]
    BY <1>2, <2>2, <2>3
  <2> HIDE DEF list
  <2>5. list \in [1..n -> Ids]
    BY <2>4
  <2>6. QED
    BY <1>2, <2>4, <2>5
<1> HIDE DEF list
<1>6. WeakOrder(B, Range(list))
  <2>0. DOMAIN list = 1..n /\ \A i \in 1..n : list[i] \in Ids
    BY <1>5
  <2>1. ASSUME NEW x \in Range(list) PROVE x \in Ids
    <3>1. PICK i \in DOMAIN list : x = list[i]
      BY InRange
    <3>2. QED
      BY <2>0, <3>1
  <2>2. \A x \in Range(list) : IdRank[x] \in Nat
    BY <2>1, RankAssumption
  <2>3. \A x, y \in Range(list) : <<x, y>> \in B <=> IdRank[x] < IdRank[y]
    BY DEF Pairs
  <2> HIDE DEF B
  <2>4. QED
    BY <2>2, <2>3 DEF WeakOrder
<1> HIDE DEF B
<1>7. list \in [1..n -> Range(list)]
  <2>1. list \in [1..n -> Ids]
    BY <1>5
  <2>2. \A i \in 1..n : list[i] \in Range(list)
    BY <2>1, InRange
  <2>3. QED
    BY <2>1, <2>2
<1>8. PICK p : Arrangement(p, n, list, B)
  BY <1>2, <1>6, <1>7, Sorting
<1>9. /\ p \in [1..n -> 1..n]
      /\ \A i \in 1..n : \E k \in 1..n : p[k] = i
      /\ StableSort(list, B) = [k \in 1..n |-> list[p[k]]]
      /\ \A k, l \in 1..n : k < l => p[k] # p[l]
  BY <1>8 DEF Arrangement
<1>10. ASSUME NEW i \in 1..n, NEW j \in 1..n, p[i] = p[j] PROVE i = j
  <2>1. ~(i < j) /\ ~(j < i)
    BY <1>9, <1>10
  <2>2. QED
    BY <1>2, <2>1
<1>11. ids = [k \in 1..n |-> IF p[k] = 1 THEN c.entity_id ELSE f[p[k] - 1]]
  BY <1>4, <1>5, <1>9
<1>12. Reported(f, p, n, S, c.entity_id, ids)
  BY <1>2, <1>3, <1>9, <1>10, <1>11 DEF Reported
<1>13. QED
  BY <1>12

Times(list, i) == Cardinality({k \in DOMAIN list : list[k] = i})

\* Each affected identifier is reported as often as it stands for an entity.
LEMMA AffectedTimes ==
    ASSUME NEW d, NEW c \in GovernanceCommand, c.entity_type # "memory",
           NEW S, S = Dependents(d, c.scope, c.entity_id), IsFiniteSet(S),
           NEW ids, ids = AffectedIds(d, c), NEW i \in Ids
    PROVE  Times(ids, i) = (IF i = c.entity_id THEN 1 ELSE 0) + (IF i \in S THEN 1 ELSE 0)
<1> DEFINE n == 1 + Cardinality(S)
           places == {k \in DOMAIN ids : ids[k] = i}
<1>0. S \in SUBSET Ids
  BY DEF Dependents
<1>r. PICK f, p : Reported(f, p, n, S, c.entity_id, ids)
  BY <1>0, AffectedListed
<1> HIDE DEF n
<1>1. /\ n \in Nat \ {0}
      /\ \A k \in 1..(n - 1) : f[k] \in S
      /\ \A k, l \in 1..(n - 1) : f[k] = f[l] => k = l
      /\ \A x \in S : \E k \in 1..(n - 1) : f[k] = x
      /\ \A k, l \in 1..n : p[k] = p[l] => k = l
      /\ \A j \in 1..n : \E k \in 1..n : p[k] = j
      /\ ids = [k \in 1..n |-> IF p[k] = 1 THEN c.entity_id ELSE f[p[k] - 1]]
  BY <1>r DEF Reported
<1>p. p \in [1..n -> 1..n] /\ \A k, l \in 1..n : p[k] = p[l] => k = l
  BY <1>r DEF Reported
<1>n. n \in Nat
  BY <1>1
<1>2. PICK a \in 1..n : p[a] = 1
  BY <1>1
<1>3. places = {k \in 1..n : IF p[k] = 1 THEN c.entity_id = i ELSE f[p[k] - 1] = i}
  BY <1>1
<1> HIDE DEF places, Times
<1>4. \A k \in 1..n : p[k] = 1 <=> k = a
  BY <1>2, <1>p
<1>5. CASE i \in S
  <2>1. PICK q \in 1..(n - 1) : f[q] = i
    BY <1>1, <1>5
  <2>2. q + 1 \in 1..n /\ q + 1 # 1
    BY <1>1
  <2>3. PICK b \in 1..n : p[b] = q + 1
    BY <1>1, <2>2
  <2>4. b # a
    BY <1>2, <2>2, <2>3
  <2>5. \A k \in 1..n : p[k] # 1 => (f[p[k] - 1] = i <=> k = b)
    <3>1. SUFFICES ASSUME NEW k \in 1..n, p[k] # 1 PROVE f[p[k] - 1] = i <=> k = b
      OBVIOUS
    <3>2. p[k] \in 1..n /\ p[k] - 1 \in 1..(n - 1)
      <4>1. p[k] \in 1..n
        BY <1>p
      <4>2. QED
        BY <1>n, <3>1, <4>1
    <3>3. f[p[k] - 1] = i <=> p[k] - 1 = q
      BY <1>1, <2>1, <3>2
    <3>4. p[k] - 1 = q <=> p[k] = p[b]
      BY <2>2, <2>3, <3>2
    <3>5. QED
      BY <1>1, <3>3, <3>4
  <2>6. CASE i = c.entity_id
    <3>1. places = {a} \cup {b}
      BY <1>3, <1>4, <2>4, <2>5, <2>6
    <3>2. IsFiniteSet({a}) /\ Cardinality({a}) = 1
      BY FS_Singleton
    <3>3. Cardinality({a} \cup {b}) = 2
      <4>1. b \notin {a}
        BY <2>4
      <4>2. Cardinality({a} \cup {b}) = Cardinality({a}) + 1
        BY <3>2, <4>1, FS_AddElement
      <4>3. QED
        BY <3>2, <4>2
    <3>4. QED
      BY <1>5, <2>6, <3>1, <3>3 DEF places, Times
  <2>7. CASE i # c.entity_id
    <3>1. places = {b}
      BY <1>3, <1>4, <2>4, <2>5, <2>7
    <3>2. QED
      BY <1>5, <2>7, <3>1, FS_Singleton DEF places, Times
  <2>8. QED
    BY <2>6, <2>7
<1>6. CASE i \notin S
  <2>1. \A k \in 1..n : p[k] # 1 => f[p[k] - 1] # i
    <3>1. SUFFICES ASSUME NEW k \in 1..n, p[k] # 1 PROVE f[p[k] - 1] # i
      OBVIOUS
    <3>2. p[k] \in 1..n /\ p[k] - 1 \in 1..(n - 1)
      <4>1. p[k] \in 1..n
        BY <1>p
      <4>2. QED
        BY <1>n, <3>1, <4>1
    <3>3. f[p[k] - 1] \in S
      BY <1>1, <3>2
    <3>4. QED
      BY <1>6, <3>3
  <2>2. CASE i = c.entity_id
    <3>1. places = {a}
      BY <1>3, <1>4, <2>1, <2>2
    <3>2. Times(ids, i) = 1
      BY <3>1, FS_Singleton DEF places, Times
    <3>3. QED
      BY <1>6, <2>2, <3>2 DEF places, Times
  <2>3. CASE i # c.entity_id
    <3>1. places = {}
      BY <1>3, <1>4, <2>1, <2>3
    <3>2. QED
      BY <1>6, <2>3, <3>1, FS_EmptySet DEF places, Times
  <2>4. QED
    BY <2>2, <2>3
<1>7. QED
  BY <1>5, <1>6

\* A governed memory is the only identifier reported.
LEMMA AffectedMemory ==
    ASSUME NEW d, NEW c \in GovernanceCommand, c.entity_type = "memory"
    PROVE  AffectedIds(d, c) = <<c.entity_id>>
<1> DEFINE ids == AffectedIds(d, c)
           n == 1 + Cardinality({})
<1>1. IsFiniteSet({}) /\ n = 1
  BY FS_EmptySet
<1>2. PICK f, p : Reported(f, p, n, {}, c.entity_id, ids)
  BY <1>1, AffectedListed
<1>3. p[1] = 1
  BY <1>1, <1>2 DEF Reported
<1>4. ids = [k \in 1..1 |-> c.entity_id]
  BY <1>1, <1>2, <1>3 DEF Reported
<1>5. QED
  BY <1>4 DEF ids


\* What a sweep counts is what it removes.
LEMMA SweepCounts ==
    ASSUME NEW d, DbType(d), DbConsistent(d), Finite(d), NEW as_of
    PROVE  ExpiredCount(d, as_of) =
             Cardinality(DOMAIN d.raw_event_content)
               - Cardinality(DOMAIN ExpireEffect(d, as_of).raw_event_content)
<1> DEFINE bodies == DOMAIN d.raw_event_content
           due == Expirable(d, as_of)
           rest == DOMAIN ExpireEffect(d, as_of).raw_event_content
<1>1. IsDb(d) /\ IsTable(d.raw_event_content, Key, Contents)
  BY DEF DbType
<1>2. rest = bodies \ due
  <2>1. ExpireEffect(d, as_of).raw_event_content = Delete(d.raw_event_content, due)
    BY <1>1 DEF IsDb, ExpireEffect
  <2> HIDE DEF due
  <2>2. QED
    BY <2>1 DEF Delete, Restrict
<1>3. due \subseteq bodies
  BY DEF Expirable
<1>4. IsFiniteSet(bodies)
  <2>1. bodies \subseteq DOMAIN d.raw_events
    BY DEF DbConsistent
  <2>2. QED
    BY <2>1, FS_Subset DEF Finite
<1> HIDE DEF bodies, due, rest
<1>5. /\ IsFiniteSet(due) /\ Cardinality(due) \in Nat /\ Cardinality(bodies) \in Nat
      /\ bodies \cap due = due
  BY <1>3, <1>4, FS_Subset, FS_CardinalityType
<1>6. Cardinality(rest) = Cardinality(bodies) - Cardinality(bodies \cap due)
  BY <1>2, <1>4, FS_Difference
<1>7. QED
  BY <1>5, <1>6 DEF ExpiredCount, bodies, due, rest

\* What a deletion of an event takes along.
LEMMA CascadeGone ==
    ASSUME NEW d, DbType(d), DbConsistent(d), NEW c \in GovernanceCommand,
           GovernOutcome(d, c) = "done", c.entity_type # "memory",
           NEW after, after = GovernEffect(d, c),
           NEW gone, gone = {m \in Ids : /\ <<c.scope, m>> \in DOMAIN d.memories
                                         /\ <<c.scope, m>> \notin DOMAIN after.memories}
    PROVE  gone = Dependents(d, c.scope, c.entity_id)
<1> DEFINE S == Dependents(d, c.scope, c.entity_id)
           keys == {<<c.scope, m>> : m \in S}
<1>1. c.entity_type = "raw_event" /\ c.action = "delete"
  BY GovernDone DEF EntityType
<1>2. IsDb(d) /\ IsTable(d.memories, Key, MemoryRow)
  BY DEF DbType
<1>3. after.memories = Delete(d.memories, keys)
  BY <1>1, <1>2 DEF IsDb, GovernEffect, Erase, ErasedMemories
<1>4. S \subseteq Ids /\ \A m \in S : <<c.scope, m>> \in DOMAIN d.memories
  BY DEF Dependents, DbConsistent
<1> HIDE DEF S, keys
<1>5. DOMAIN after.memories = DOMAIN d.memories \ keys
  BY <1>3 DEF Delete, Restrict
<1>6. \A m : <<c.scope, m>> \in keys <=> m \in S
  BY DEF keys
<1>7. gone = S
  BY <1>4, <1>5, <1>6
<1>8. QED
  BY <1>7 DEF S

LEMMA DependentsFinite ==
    ASSUME NEW d, DbConsistent(d), Finite(d), NEW s, NEW x
    PROVE  IsFiniteSet(Dependents(d, s, x))
<1> DEFINE S == Dependents(d, s, x)
           f == [m \in S |-> <<s, m>>]
<1>1. \A m \in S : <<s, m>> \in DOMAIN d.memories
  BY DEF Dependents, DbConsistent
<1> HIDE DEF S
<1>2. f \in Injection(S, DOMAIN d.memories)
  BY <1>1 DEF Injection, IsInjective
<1>3. QED
  BY <1>2, FS_Injection DEF Finite, S

\* Governing a memory removes no other memory.
LEMMA MemoryGone ==
    ASSUME NEW d, DbType(d), DbConsistent(d), NEW c \in GovernanceCommand,
           GovernOutcome(d, c) = "done", c.entity_type = "memory",
           NEW m, <<c.scope, m>> \in DOMAIN d.memories,
           <<c.scope, m>> \notin DOMAIN GovernEffect(d, c).memories
    PROVE  m = c.entity_id
<1> DEFINE after == GovernEffect(d, c)
           keys == {<<c.scope, x>> : x \in {c.entity_id}}
<1>1. IsDb(d) /\ IsTable(d.memories, Key, MemoryRow)
  BY DEF DbType
<1>2. CASE c.action = "seal"
  <2>1. DOMAIN after.memories = DOMAIN d.memories
    BY <1>1, <1>2 DEF IsDb, GovernEffect, SetStatus
  <2>2. QED
    BY <2>1
<1>3. CASE c.action = "restore"
  <2>1. DOMAIN after.memories = DOMAIN d.memories
    BY <1>1, <1>3 DEF IsDb, GovernEffect, SetStatus
  <2>2. QED
    BY <2>1
<1>4. CASE c.action # "seal" /\ c.action # "restore"
  <2>1. after.memories = Delete(d.memories, keys)
    BY <1>1, <1>4 DEF IsDb, GovernEffect, Erase, ErasedMemories
  <2> HIDE DEF keys, after
  <2>2. DOMAIN after.memories = DOMAIN d.memories \ keys
    BY <2>1 DEF Delete, Restrict
  <2>3. <<c.scope, m>> \in keys
    BY <2>2 DEF after
  <2>4. QED
    BY <2>3 DEF keys
<1>5. QED
  BY <1>2, <1>3, <1>4

\* The host is told all that a call erased.
THEOREM AnswersComplete == Spec => []AnswersTellAll
<1>1. TypeOK /\ Consistent /\ Finite(db) => AnswersTellAll
  <2> SUFFICES ASSUME DbType(db), DbConsistent(db), Finite(db) PROVE AnswersTellAll
    BY DEF TypeOK, Consistent
  <2>1. ASSUME NEW c \in GovernanceCommand, GovernOutcome(db, c) = "done",
               NEW ids, ids = AffectedIds(db, c),
               NEW gone, gone = {m \in Ids :
                    /\ <<c.scope, m>> \in DOMAIN db.memories
                    /\ <<c.scope, m>> \notin DOMAIN GovernEffect(db, c).memories}
        PROVE  IF c.entity_type = "memory"
               THEN ids = <<c.entity_id>> /\ gone \subseteq {c.entity_id}
               ELSE \A i \in Ids :
                      Times(ids, i) = (IF i = c.entity_id THEN 1 ELSE 0)
                                        + (IF i \in gone THEN 1 ELSE 0)
    <3>1. CASE c.entity_type = "memory"
      <4>1. ids = <<c.entity_id>>
        BY <2>1, <3>1, AffectedMemory
      <4>2. \A m \in gone : m = c.entity_id
        <5>1. \A m \in gone : /\ <<c.scope, m>> \in DOMAIN db.memories
                              /\ <<c.scope, m>> \notin DOMAIN GovernEffect(db, c).memories
          BY <2>1
        <5>2. QED
          BY <2>1, <3>1, <5>1, MemoryGone
      <4>3. QED
        BY <3>1, <4>1, <4>2
    <3>2. CASE c.entity_type # "memory"
      <4>1. gone = Dependents(db, c.scope, c.entity_id)
        BY <2>1, <3>2, CascadeGone
      <4>2. IsFiniteSet(gone)
        BY <4>1, DependentsFinite
      <4>3. \A i \in Ids : Times(ids, i) = (IF i = c.entity_id THEN 1 ELSE 0)
                                             + (IF i \in gone THEN 1 ELSE 0)
        <5>1. ids = AffectedIds(db, c)
          BY <2>1
        <5>2. ASSUME NEW i \in Ids
              PROVE  Times(ids, i) = (IF i = c.entity_id THEN 1 ELSE 0)
                                       + (IF i \in gone THEN 1 ELSE 0)
          BY <3>2, <4>1, <4>2, <5>1, AffectedTimes
        <5>3. QED
          BY <5>2
      <4>4. QED
        BY <3>2, <4>3
    <3>3. QED
      BY <3>1, <3>2
  <2>2. \A as_of \in Sweeps : ExpiredCount(db, as_of) =
             Cardinality(DOMAIN db.raw_event_content)
               - Cardinality(DOMAIN ExpireEffect(db, as_of).raw_event_content)
    BY SweepCounts
  <2>3. ASSUME NEW c \in GovernanceCommand, GovernOutcome(db, c) = "done"
        PROVE  LET ids == AffectedIds(db, c)
                   after == GovernEffect(db, c)
                   gone == {m \in Ids : /\ <<c.scope, m>> \in DOMAIN db.memories
                                        /\ <<c.scope, m>> \notin DOMAIN after.memories}
                   times(i) == Cardinality({k \in DOMAIN ids : ids[k] = i})
               IN  IF c.entity_type = "memory"
                   THEN ids = <<c.entity_id>> /\ gone \subseteq {c.entity_id}
                   ELSE \A i \in Ids :
                          times(i) = (IF i = c.entity_id THEN 1 ELSE 0)
                                       + (IF i \in gone THEN 1 ELSE 0)
    <3> DEFINE ids == AffectedIds(db, c)
               gone == {m \in Ids :
                    /\ <<c.scope, m>> \in DOMAIN db.memories
                    /\ <<c.scope, m>> \notin DOMAIN GovernEffect(db, c).memories}
    <3> HIDE DEF ids, gone
    <3>1. IF c.entity_type = "memory"
          THEN ids = <<c.entity_id>> /\ gone \subseteq {c.entity_id}
          ELSE \A i \in Ids :
                 Times(ids, i) = (IF i = c.entity_id THEN 1 ELSE 0)
                                   + (IF i \in gone THEN 1 ELSE 0)
      BY <2>1, <2>3 DEF ids, gone
    <3>2. QED
      BY <3>1 DEF ids, gone, Times
  <2>4. QED
    BY <2>2, <2>3 DEF AnswersTellAll
<1>2. QED
  BY <1>1, StaysFinite, PTL

-----------------------------------------------------------------------------
(* The audit trail.                                                        *)

\* The trail only adds columns: what it does to the tables, Store does.
LEMMA TrailIsStore == TrailSpec => Spec
<1>1. TrailInit => Init
  BY DEF TrailInit
<1>2. [TrailNext]_trailVars => [Next]_vars
  <2>1. SUFFICES ASSUME [TrailNext]_trailVars PROVE [Next]_vars
    OBVIOUS
  <2>2. ASSUME NEW draft \in EventDrafts, NEW now \in Clocks, RecordIngest(draft, now)
        PROVE  Next
    BY <2>2 DEF RecordIngest, Next
  <2>3. ASSUME NEW draft \in MemoryDrafts, RecordMaterialize(draft)
        PROVE  Next
    BY <2>3 DEF RecordMaterialize, Next
  <2>4. ASSUME NEW c \in GovernanceCommand, NEW at \in Claims, RecordGovern(c, at)
        PROVE  Next
    BY <2>4 DEF RecordGovern, Next
  <2>5. ASSUME NEW as_of \in Sweeps, RecordExpire(as_of)
        PROVE  Next
    BY <2>5 DEF RecordExpire, Next
  <2>6. CASE UNCHANGED trailVars
    BY <2>6 DEF trailVars, vars
  <2>7. QED
    BY <2>1, <2>2, <2>3, <2>4, <2>5, <2>6 DEF TrailNext
<1>3. QED
  BY <1>1, <1>2, PTL DEF TrailSpec, Spec

TrailRow == [audit_id : AuditIds, occurred_at : Nat, record : AuditRow]
Unique(t) == \A r, q \in t : r.audit_id = q.audit_id => r = q
Same(t, x) == {r \in t : r.record = x}

\* The table is finite and its identifiers differ.
TrailGood(t) == t \subseteq TrailRow /\ IsFiniteSet(t) /\ Unique(t)

\* The rows of one transaction.
Added(records, id, at) == {Timed(r, id[r], at) : r \in records}
Unused(t) == AuditIds \ {r.audit_id : r \in t}

LEMMA AddedRows ==
    ASSUME NEW t \in SUBSET TrailRow, NEW records \in SUBSET AuditRow,
           IsFiniteSet(records), NEW at \in Nat,
           NEW id \in [records -> Unused(t)], IsInjective(id),
           NEW new, new = Added(records, id, at)
    PROVE  /\ new \subseteq TrailRow /\ IsFiniteSet(new) /\ Unique(new)
           /\ \A r \in new : r.audit_id \notin {q.audit_id : q \in t}
           /\ \A x \in AuditRow :
                Same(new, x) = IF x \in records THEN {Timed(x, id[x], at)} ELSE {}
<1>1. \A r \in records : /\ id[r] \in AuditIds
                         /\ id[r] \notin {q.audit_id : q \in t}
  BY DEF Unused
<1>2. \A r \in records : /\ Timed(r, id[r], at) \in TrailRow
                         /\ Timed(r, id[r], at).record = r
                         /\ Timed(r, id[r], at).audit_id = id[r]
  BY <1>1 DEF Timed, TrailRow
<1>3. \A x \in new : x.record \in records /\ x = Timed(x.record, id[x.record], at)
  BY <1>2 DEF Added
<1>4. \A r \in records : Timed(r, id[r], at) \in new
  BY DEF Added
<1>5. IsFiniteSet(new)
  <2> DEFINE f == [x \in new |-> x.record]
  <2>1. f \in Injection(new, records)
    BY <1>3 DEF Injection, IsInjective
  <2> HIDE DEF f
  <2>2. QED
    BY <2>1, FS_Injection
<1>6. Unique(new)
  <2>1. \A r, q \in records : id[r] = id[q] => r = q
    BY DEF IsInjective
  <2>2. \A x \in new : x.record \in records /\ x.audit_id = id[x.record]
    BY <1>2, <1>3
  <2>3. QED
    BY <1>3, <2>1, <2>2 DEF Unique
<1>7. \A x \in AuditRow : Same(new, x) = IF x \in records THEN {Timed(x, id[x], at)} ELSE {}
  BY <1>2, <1>3, <1>4 DEF Same
<1>8. \A r \in new : r \in TrailRow /\ r.audit_id \notin {q.audit_id : q \in t}
  BY <1>1, <1>2, <1>3
<1>9. QED
  BY <1>5, <1>6, <1>7, <1>8

\* The INSERTs of one transaction keep the table what it is.
LEMMA TrailGrows ==
    ASSUME NEW t, TrailGood(t), NEW records \in SUBSET AuditRow,
           IsFiniteSet(records), NEW at \in Nat,
           NEW id \in [records -> Unused(t)], IsInjective(id),
           NEW u, u = t \cup Added(records, id, at)
    PROVE  /\ TrailGood(u)
           /\ \A x \in AuditRow : Same(u, x) = Same(t, x) \cup
                (IF x \in records THEN {Timed(x, id[x], at)} ELSE {})
<1> DEFINE new == Added(records, id, at)
<1>1. t \subseteq TrailRow /\ IsFiniteSet(t) /\ Unique(t)
  BY DEF TrailGood
<1>2. /\ new \subseteq TrailRow /\ IsFiniteSet(new) /\ Unique(new)
      /\ \A r \in new : r.audit_id \notin {q.audit_id : q \in t}
      /\ \A x \in AuditRow :
           Same(new, x) = IF x \in records THEN {Timed(x, id[x], at)} ELSE {}
  BY <1>1, AddedRows
<1>3. u = t \cup new
  OBVIOUS
<1> HIDE DEF new
<1>4. u \subseteq TrailRow /\ IsFiniteSet(u)
  <2>1. IsFiniteSet(t \cup new)
    BY <1>1, <1>2, FS_Union
  <2>2. QED
    BY <1>1, <1>2, <1>3, <2>1
<1>5. Unique(u)
  BY <1>1, <1>2, <1>3 DEF Unique
<1>6. \A x : Same(u, x) = Same(t, x) \cup Same(new, x)
  BY <1>3 DEF Same
<1>7. QED
  BY <1>2, <1>4, <1>5, <1>6 DEF TrailGood


\* Two databases agree on everything but the audit log.
SameButLog(e, d) == [e EXCEPT !.audit_log = d.audit_log] = d

\* What an operation writes to the audit log, and that it writes something
\* exactly if it changes a row.
Records(e, d, records) ==
    /\ records \in SUBSET AuditRow /\ IsFiniteSet(records)
    /\ e.audit_log = LogAudit(d.audit_log, records)
    /\ records = {} <=> SameButLog(e, d)

LEMMA IngestRecords ==
    ASSUME NEW d, DbType(d), NEW draft \in EventDrafts, NEW now \in Clocks,
           IngestOutcome(d, draft) = "created"
    PROVE  Records(IngestEffect(d, draft, now), d,
                   {AuditRecord(draft.scope, "ingest", "raw_event", draft.event_id,
                                "event ingested")})
<1> DEFINE record == AuditRecord(draft.scope, "ingest", "raw_event", draft.event_id,
                                 "event ingested")
           e == IngestEffect(d, draft, now)
<1>1. draft.scope \in Scopes /\ draft.event_id \in Ids
  BY EventDraftAssumption DEF RawEventDraft
<1>2. record \in AuditRow
  BY <1>1 DEF AuditRecord, AuditRow, AuditAction, EntityType, AuditReason
<1> HIDE DEF record
<1>3. IsDb(d)
  BY DEF DbType
<1>4. /\ e.audit_log = LogAudit(d.audit_log, {record})
      /\ e.raw_events = Insert(d.raw_events, Row(EventKey(draft), NewEventRow(draft, now)))
  BY <1>3 DEF IsDb, IngestEffect, record
<1>5. EventKey(draft) \in DOMAIN e.raw_events
  BY <1>4 DEF Insert, Row
<1>6. EventKey(draft) \notin DOMAIN d.raw_events
  BY IngestCreated
<1>7. IsDb(e)
  BY IngestType DEF DbType
<1> HIDE DEF e
<1>8. SameButLog(e, d) => e.raw_events = d.raw_events
  BY <1>7 DEF SameButLog, IsDb
<1>9. IsFiniteSet({record})
  BY FS_Singleton
<1>10. Records(e, d, {record})
  BY <1>2, <1>4, <1>5, <1>6, <1>8, <1>9 DEF Records
<1>11. QED
  BY <1>10 DEF e, record

LEMMA MaterializeRecords ==
    ASSUME NEW d, DbType(d), NEW draft \in MemoryDrafts,
           MaterializeOutcome(d, draft) = "created"
    PROVE  Records(MaterializeEffect(d, draft), d,
                   {AuditRecord(draft.scope, "materialize", "memory", draft.memory_id,
                                "memory materialized")})
<1> DEFINE record == AuditRecord(draft.scope, "materialize", "memory",
                                 draft.memory_id, "memory materialized")
           e == MaterializeEffect(d, draft)
<1>1. draft.scope \in Scopes /\ draft.memory_id \in Ids
  BY DraftSources DEF MemoryDraft
<1>2. record \in AuditRow
  BY <1>1 DEF AuditRecord, AuditRow, AuditAction, EntityType, AuditReason
<1> HIDE DEF record
<1>3. IsDb(d)
  BY DEF DbType
<1>4. /\ e.audit_log = LogAudit(d.audit_log, {record})
      /\ e.memories = Insert(d.memories, Row(MemoryKey(draft), NewMemoryRow(d, draft)))
  BY <1>3 DEF IsDb, MaterializeEffect, record
<1>5. MemoryKey(draft) \in DOMAIN e.memories
  BY <1>4 DEF Insert, Row
<1>6. MemoryKey(draft) \notin DOMAIN d.memories
  BY MaterializeCreated
<1>7. IsDb(e)
  BY MaterializeType DEF DbType
<1> HIDE DEF e
<1>8. SameButLog(e, d) => e.memories = d.memories
  BY <1>7 DEF SameButLog, IsDb
<1>9. IsFiniteSet({record})
  BY FS_Singleton
<1>10. Records(e, d, {record})
  BY <1>2, <1>4, <1>5, <1>6, <1>8, <1>9 DEF Records
<1>11. QED
  BY <1>10 DEF e, record

LEMMA GovernRecords ==
    ASSUME NEW d, DbType(d), DbConsistent(d), NEW c \in GovernanceCommand,
           GovernOutcome(d, c) = "done"
    PROVE  Records(GovernEffect(d, c), d, {GovernanceAudit(c)})
<1> DEFINE record == GovernanceAudit(c)
           e == GovernEffect(d, c)
           key == <<c.scope, c.entity_id>>
<1>1. /\ c.scope \in Scopes /\ c.entity_id \in Ids /\ c.action \in GovernanceAction
      /\ c.entity_type \in EntityType
  BY DEF GovernanceCommand
<1>2. record \in AuditRow
  BY <1>1 DEF GovernanceAudit, AuditRecord, AuditRow, AuditAction, AuditReason
<1> HIDE DEF record
<1>3. IsDb(d) /\ IsTable(d.memories, Key, MemoryRow) /\ IsTable(d.raw_events, Key, EventRow)
  BY DEF DbType
<1>4. e.audit_log = LogAudit(d.audit_log, {record}) /\ IsDb(e)
  <2>1. IsDb(e)
    BY GovernOk DEF DbType
  <2>2. CASE c.action = "seal"
    BY <1>3, <2>1, <2>2 DEF IsDb, GovernEffect, SetStatus, record
  <2>3. CASE c.action = "restore"
    BY <1>3, <2>1, <2>3 DEF IsDb, GovernEffect, SetStatus, record
  <2>4. CASE c.action # "seal" /\ c.action # "restore"
    BY <1>3, <2>1, <2>4 DEF IsDb, GovernEffect, Erase, record
  <2>5. QED
    BY <2>2, <2>3, <2>4
<1>5. /\ c.entity_type = "memory" => key \in DOMAIN d.memories
      /\ c.entity_type = "raw_event" => c.action = "delete" /\ key \in DOMAIN d.raw_events
  BY GovernDone
<1>6. e.memories # d.memories \/ e.raw_events # d.raw_events
  <2>1. ASSUME c.action \in {"seal", "restore"} PROVE e.memories # d.memories
    <3>1. c.entity_type = "memory" /\ key \in DOMAIN d.memories
      BY <1>1, <1>5, <2>1 DEF EntityType
    <3>2. GovernMemoryOutcome(d, c) = "done"
      BY <3>1 DEF GovernOutcome
    <3>3. /\ c.action = "seal" => d.memories[key].status = "active"
          /\ c.action = "restore" => d.memories[key].status = "sealed"
      BY <3>1, <3>2 DEF GovernMemoryOutcome
    <3>4. d.memories[key] \in MemoryRow
      BY <1>3, <3>1 DEF IsTable
    <3>5. /\ c.action = "seal" => e.memories[key].status = "sealed"
          /\ c.action = "restore" => e.memories[key].status = "active"
      BY <1>3, <3>1, <3>4 DEF IsDb, GovernEffect, SetStatus, MemoryRow
    <3>6. QED
      BY <2>1, <3>3, <3>5
  <2>2. ASSUME c.action \notin {"seal", "restore"}, c.entity_type = "memory"
        PROVE  e.memories # d.memories
    <3>1. e.memories = Delete(d.memories, {<<c.scope, m>> : m \in {c.entity_id}})
      BY <1>3, <2>2 DEF IsDb, GovernEffect, Erase, ErasedMemories
    <3>2. key \notin DOMAIN e.memories
      BY <3>1 DEF Delete, Restrict
    <3>3. QED
      BY <1>5, <2>2, <3>2
  <2>3. ASSUME c.action \notin {"seal", "restore"}, c.entity_type = "raw_event"
        PROVE  e.raw_events # d.raw_events
    <3>1. e.raw_events = Delete(d.raw_events, {key})
      BY <1>3, <2>3 DEF IsDb, GovernEffect, Erase
    <3>2. key \notin DOMAIN e.raw_events
      BY <3>1 DEF Delete, Restrict
    <3>3. QED
      BY <1>5, <2>3, <3>2
  <2>4. QED
    BY <1>1, <1>5, <2>1, <2>2, <2>3 DEF EntityType
<1> HIDE DEF e
<1>7. SameButLog(e, d) => e.memories = d.memories /\ e.raw_events = d.raw_events
  BY <1>4 DEF SameButLog, IsDb
<1>8. IsFiniteSet({record})
  BY FS_Singleton
<1>9. Records(e, d, {record})
  BY <1>2, <1>4, <1>6, <1>7, <1>8 DEF Records
<1>10. QED
  BY <1>9 DEF e, record

LEMMA ExpireRecords ==
    ASSUME NEW d, DbType(d), DbConsistent(d), Finite(d), NEW as_of,
           NEW e, e = ExpireEffect(d, as_of)
    PROVE  Records(e, d,
                   {AuditRecord(key[1], "expire", "raw_event", key[2],
                                "raw content expired") : key \in Expirable(d, as_of)})
<1> DEFINE due == Expirable(d, as_of)
           records == {AuditRecord(key[1], "expire", "raw_event", key[2],
                                   "raw content expired") : key \in due}
<1>1. /\ IsDb(d) /\ IsTable(d.raw_events, Key, EventRow)
      /\ IsTable(d.raw_event_content, Key, Contents)
  BY DEF DbType
<1>2. /\ due \subseteq DOMAIN d.raw_events /\ due \subseteq DOMAIN d.raw_event_content
      /\ due \subseteq Key
  BY <1>1 DEF Expirable, IsTable
<1>3. /\ IsDb(e) /\ e.audit_log = LogAudit(d.audit_log, records)
      /\ e.memories = d.memories /\ e.memory_sources = d.memory_sources
      /\ e.tombstones = d.tombstones
      /\ e.raw_event_content = Delete(d.raw_event_content, due)
      /\ e.raw_events = [key \in DOMAIN d.raw_events |->
           IF key \in due THEN [d.raw_events[key] EXCEPT !.status = "expired"]
                          ELSE d.raw_events[key]]
  BY DEF DbType, IsDb, ExpireEffect
<1> HIDE DEF due
<1>4. records \subseteq AuditRow
  <2>1. \A k \in due : AuditRecord(k[1], "expire", "raw_event", k[2],
                                    "raw content expired") \in AuditRow
    BY <1>2 DEF AuditRecord, AuditRow, AuditAction, EntityType, AuditReason, Key
  <2>2. QED
    BY <2>1
<1>5. IsFiniteSet(records)
  <2> DEFINE f == [r \in records |-> <<r.scope, r.entity_id>>]
  <2>1. \A k \in due : <<k[1], k[2]>> = k
    BY <1>2 DEF Key
  <2>2. \A r \in records : \E k \in due :
          /\ r = AuditRecord(k[1], "expire", "raw_event", k[2], "raw content expired")
          /\ r.scope = k[1] /\ r.entity_id = k[2]
    <3>1. \A r \in records : \E k \in due :
            r = AuditRecord(k[1], "expire", "raw_event", k[2], "raw content expired")
      OBVIOUS
    <3>2. \A k : LET r == AuditRecord(k[1], "expire", "raw_event", k[2], "raw content expired")
                IN  r.scope = k[1] /\ r.entity_id = k[2]
      BY DEF AuditRecord
    <3> HIDE DEF records
    <3>3. QED
      BY <3>1, <3>2
  <2> HIDE DEF records
  <2>3. \A r \in records : f[r] \in due /\
          r = AuditRecord(f[r][1], "expire", "raw_event", f[r][2], "raw content expired")
    BY <2>1, <2>2
  <2>4. DOMAIN f = records
    OBVIOUS
  <2> HIDE DEF f
  <2>5. f \in Injection(records, DOMAIN d.raw_events)
    <3>1. f \in [records -> DOMAIN d.raw_events]
      <4>1. f = [r \in records |-> f[r]]
        BY DEF f
      <4>2. QED
        BY <1>2, <2>3, <4>1
    <3>2. IsInjective(f)
      BY <2>3, <2>4 DEF IsInjective
    <3>3. QED
      BY <3>1, <3>2 DEF Injection
  <2>6. QED
    BY <2>5, FS_Injection DEF Finite
<1>6. CASE due = {}
  <2>1. records = {}
    BY <1>6
  <2>2. e.raw_event_content = d.raw_event_content
    BY <1>1, <1>3, <1>6 DEF Delete, Restrict, IsTable
  <2>3. e.raw_events = d.raw_events
    BY <1>1, <1>3, <1>6 DEF IsTable
  <2>4. SameButLog(e, d)
    BY <1>1, <1>3, <2>2, <2>3 DEF SameButLog, IsDb
  <2>5. QED
    BY <1>3, <1>4, <1>5, <2>1, <2>4 DEF Records, due
<1>7. CASE due # {}
  <2>1. PICK k \in due : TRUE
    BY <1>7
  <2>2. records # {}
    BY <2>1
  <2>3. k \notin DOMAIN e.raw_event_content /\ k \in DOMAIN d.raw_event_content
    BY <1>2, <1>3, <2>1 DEF Delete, Restrict
  <2>4. SameButLog(e, d) => e.raw_event_content = d.raw_event_content
    BY <1>3 DEF SameButLog, IsDb
  <2>5. ~SameButLog(e, d)
    BY <2>3, <2>4
  <2> HIDE DEF records
  <2>6. Records(e, d, records)
    BY <1>3, <1>4, <1>5, <2>2, <2>5 DEF Records
  <2>7. QED
    BY <2>6 DEF due, records
<1>8. QED
  BY <1>6, <1>7



-----------------------------------------------------------------------------
(* The dates of the records.                                               *)

Ingested(key) == AuditRecord(key[1], "ingest", "raw_event", key[2], "event ingested")
Expired(key) == AuditRecord(key[1], "expire", "raw_event", key[2], "raw content expired")
Derived(key) == AuditRecord(key[1], "materialize", "memory", key[2], "memory materialized")

\* Records of different entities or actions differ.
LEMMA RecordsDiffer ==
    ASSUME NEW k \in Key, NEW key \in Key
    PROVE  /\ Ingested(k) \in AuditRow /\ Expired(k) \in AuditRow /\ Derived(k) \in AuditRow
           /\ Ingested(k) = Ingested(key) => k = key
           /\ Expired(k) = Expired(key) => k = key
           /\ Derived(k) = Derived(key) => k = key
           /\ Ingested(k) # Expired(key) /\ Ingested(k) # Derived(key)
           /\ Expired(k) # Derived(key)
<1>1. k[1] \in Scopes /\ k[2] \in Ids /\ k = <<k[1], k[2]>> /\ key = <<key[1], key[2]>>
  BY DEF Key
<1>2. Ingested(k) \in AuditRow /\ Expired(k) \in AuditRow /\ Derived(k) \in AuditRow
  BY <1>1 DEF Ingested, Expired, Derived, AuditRecord, AuditRow, AuditAction, EntityType,
              AuditReason
<1>3. /\ Ingested(k).action = "ingest" /\ Ingested(k).scope = k[1] /\ Ingested(k).entity_id = k[2]
      /\ Expired(k).action = "expire" /\ Expired(k).scope = k[1] /\ Expired(k).entity_id = k[2]
      /\ Derived(k).action = "materialize" /\ Derived(k).scope = k[1]
      /\ Derived(k).entity_id = k[2]
      /\ Ingested(key).scope = key[1] /\ Ingested(key).entity_id = key[2]
      /\ Expired(key).action = "expire" /\ Expired(key).scope = key[1]
      /\ Expired(key).entity_id = key[2]
      /\ Derived(key).action = "materialize" /\ Derived(key).scope = key[1]
      /\ Derived(key).entity_id = key[2]
  BY DEF Ingested, Expired, Derived, AuditRecord
<1>4. QED
  BY <1>1, <1>2, <1>3

\* What the records of an operation say of the rows it changes, and when.
Tells(e, d, records, at) ==
    \A key \in Key :
        /\ Ingested(key) \in records <=> key \in DOMAIN e.raw_events \ DOMAIN d.raw_events
        /\ Ingested(key) \in records =>
             /\ <<key[1], "raw_event", key[2]>> \notin DOMAIN d.tombstones
             /\ key \in DOMAIN e.raw_event_content
             /\ e.raw_events[key].ingested_at = at
        /\ key \in DOMAIN d.raw_events \cap DOMAIN e.raw_events =>
             (Expired(key) \in records <=>
                key \in DOMAIN d.raw_event_content \ DOMAIN e.raw_event_content)
        /\ Expired(key) \in records =>
             /\ key \in DOMAIN d.raw_events \cap DOMAIN e.raw_events
             /\ at >= d.raw_events[key].raw_expires_at
        /\ Derived(key) \in records <=> key \in DOMAIN e.memories \ DOMAIN d.memories
        /\ Derived(key) \in records =>
             /\ <<key[1], "memory", key[2]>> \notin DOMAIN d.tombstones
             /\ e.memories[key].created_at = at

LEMMA IngestTells ==
    ASSUME NEW d, DbType(d), NEW draft \in EventDrafts, NEW now,
           IngestOutcome(d, draft) = "created", NEW e, e = IngestEffect(d, draft, now)
    PROVE  Tells(e, d, {Ingested(EventKey(draft))}, now)
<1> DEFINE k == EventKey(draft)
           row == NewEventRow(draft, now)
<1>1. /\ e.raw_events = Insert(d.raw_events, Row(k, row))
      /\ e.raw_event_content = Insert(d.raw_event_content, Row(k, draft.content))
      /\ e.memories = d.memories
  BY DEF DbType, IsDb, IngestEffect
<1>2. /\ k \notin DOMAIN d.raw_events
      /\ \A t \in DOMAIN d.tombstones :
           t[1] = draft.scope /\ t[3] = draft.event_id => t[2] # "raw_event"
  BY IngestCreated
<1>3. k \in Key /\ k[1] = draft.scope /\ k[2] = draft.event_id
  BY EventDraftAssumption DEF EventKey, Key, RawEventDraft
<1>4. row.ingested_at = now
  BY DEF NewEventRow
<1> HIDE DEF k, row
<1>5. /\ DOMAIN e.raw_events = DOMAIN d.raw_events \cup {k}
      /\ DOMAIN e.raw_event_content = DOMAIN d.raw_event_content \cup {k}
      /\ e.raw_events[k] = row
  BY <1>1, <1>2 DEF Insert, Row
<1>6. <<k[1], "raw_event", k[2]>> \notin DOMAIN d.tombstones
  BY <1>2, <1>3
<1>7. \A key \in Key : /\ Ingested(key) \in {Ingested(k)} <=> key = k
                       /\ Expired(key) \notin {Ingested(k)}
                       /\ Derived(key) \notin {Ingested(k)}
  BY <1>3, RecordsDiffer
<1>8. Tells(e, d, {Ingested(k)}, now)
  BY <1>1, <1>2, <1>4, <1>5, <1>6, <1>7 DEF Tells
<1>9. QED
  BY <1>8 DEF k

LEMMA MaterializeTells ==
    ASSUME NEW d, DbType(d), NEW draft \in MemoryDrafts,
           MaterializeOutcome(d, draft) = "created", NEW e, e = MaterializeEffect(d, draft)
    PROVE  Tells(e, d, {Derived(MemoryKey(draft))}, draft.created_at)
<1> DEFINE k == MemoryKey(draft)
           row == NewMemoryRow(d, draft)
<1>1. /\ e.raw_events = d.raw_events /\ e.raw_event_content = d.raw_event_content
      /\ e.memories = Insert(d.memories, Row(k, row))
  BY DEF DbType, IsDb, MaterializeEffect
<1>2. /\ k \notin DOMAIN d.memories
      /\ \A t \in DOMAIN d.tombstones :
           t[1] = draft.scope /\ t[3] = draft.memory_id => t[2] # "memory"
  BY MaterializeCreated
<1>3. k \in Key /\ k[1] = draft.scope /\ k[2] = draft.memory_id
  BY DraftSources DEF MemoryKey, Key, MemoryDraft
<1>4. row.created_at = draft.created_at
  BY DEF NewMemoryRow
<1> HIDE DEF k, row
<1>5. DOMAIN e.memories = DOMAIN d.memories \cup {k} /\ e.memories[k] = row
  BY <1>1, <1>2 DEF Insert, Row
<1>6. <<k[1], "memory", k[2]>> \notin DOMAIN d.tombstones
  BY <1>2, <1>3
<1>7. \A key \in Key : /\ Derived(key) \in {Derived(k)} <=> key = k
                       /\ Expired(key) \notin {Derived(k)}
                       /\ Ingested(key) \notin {Derived(k)}
  BY <1>3, RecordsDiffer
<1>8. Tells(e, d, {Derived(k)}, draft.created_at)
  BY <1>1, <1>2, <1>4, <1>5, <1>6, <1>7 DEF Tells
<1>9. QED
  BY <1>8 DEF k

LEMMA GovernTells ==
    ASSUME NEW d, DbType(d), NEW c \in GovernanceCommand, GovernOutcome(d, c) = "done",
           NEW at, NEW e, e = GovernEffect(d, c)
    PROVE  Tells(e, d, {GovernanceAudit(c)}, at)
<1>1. \A key : /\ Ingested(key) # GovernanceAudit(c) /\ Expired(key) # GovernanceAudit(c)
               /\ Derived(key) # GovernanceAudit(c)
  <2>1. GovernanceAudit(c).reason = "governance requested"
    BY DEF GovernanceAudit, AuditRecord
  <2>2. \A key : /\ Ingested(key).reason = "event ingested"
                 /\ Expired(key).reason = "raw content expired"
                 /\ Derived(key).reason = "memory materialized"
    BY DEF Ingested, Expired, Derived, AuditRecord
  <2>3. QED
    BY <2>1, <2>2
<1>2. /\ DOMAIN e.raw_events \subseteq DOMAIN d.raw_events
      /\ DOMAIN e.memories \subseteq DOMAIN d.memories
      /\ \A k \in DOMAIN e.raw_events :
           k \in DOMAIN d.raw_event_content => k \in DOMAIN e.raw_event_content
  <2>0. IsDb(d)
    BY DEF DbType
  <2>1. CASE c.action \in {"seal", "restore"}
    BY <2>0, <2>1 DEF IsDb, GovernEffect, SetStatus
  <2>2. CASE c.action \notin {"seal", "restore"}
    <3> DEFINE events == IF c.entity_type = "raw_event"
                         THEN {<<c.scope, c.entity_id>>} ELSE {}
               gone == {<<c.scope, m>> : m \in ErasedMemories(d, c)}
    <3>1. /\ e.raw_events = Delete(d.raw_events, events)
          /\ e.raw_event_content = Delete(d.raw_event_content, events)
          /\ e.memories = Delete(d.memories, gone)
      BY <2>0, <2>2 DEF IsDb, GovernEffect, Erase
    <3> HIDE DEF events, gone
    <3>2. QED
      BY <3>1 DEF Delete, Restrict
  <2>3. QED
    BY <2>1, <2>2
<1>3. QED
  BY <1>1, <1>2 DEF Tells

LEMMA ExpireTells ==
    ASSUME NEW d, DbType(d), NEW as_of, NEW e, e = ExpireEffect(d, as_of)
    PROVE  Tells(e, d, {Expired(key) : key \in Expirable(d, as_of)}, as_of)
<1> DEFINE due == Expirable(d, as_of)
           records == {Expired(key) : key \in due}
<1>1. /\ DOMAIN e.raw_events = DOMAIN d.raw_events /\ e.memories = d.memories
      /\ e.raw_event_content = Delete(d.raw_event_content, due)
  BY DEF DbType, IsDb, ExpireEffect
<1>2. /\ \A k \in due : /\ k \in DOMAIN d.raw_events /\ k \in DOMAIN d.raw_event_content
                        /\ d.raw_events[k].raw_expires_at <= as_of /\ k \in Key
      /\ \A k \in DOMAIN d.raw_events : d.raw_events[k].raw_expires_at \in Nat
  BY DEF Expirable, DbType, IsTable, EventRow
<1> HIDE DEF due
<1>3. DOMAIN e.raw_event_content = DOMAIN d.raw_event_content \ due
  BY <1>1 DEF Delete, Restrict
<1>4. \A key \in Key : /\ Expired(key) \in records <=> key \in due
                       /\ Ingested(key) \notin records /\ Derived(key) \notin records
  BY <1>2, RecordsDiffer
<1> HIDE DEF records
<1>5. Tells(e, d, records, as_of)
  BY <1>1, <1>2, <1>3, <1>4 DEF Tells
<1>6. QED
  BY <1>5 DEF records, due

\* What the trail says of an event and of a memory; what was never on record
\* is not mentioned.
EventDated(t, d, key) ==
    IF key \in DOMAIN d.raw_events
    THEN /\ \E r \in t : /\ Same(t, Ingested(key)) = {r}
                         /\ r.occurred_at = d.raw_events[key].ingested_at
         /\ IF key \in DOMAIN d.raw_event_content THEN Same(t, Expired(key)) = {}
            ELSE \E r \in t : /\ Same(t, Expired(key)) = {r}
                              /\ r.occurred_at >= d.raw_events[key].raw_expires_at
    ELSE <<key[1], "raw_event", key[2]>> \notin DOMAIN d.tombstones =>
           Same(t, Ingested(key)) = {} /\ Same(t, Expired(key)) = {}

MemoryDated(t, d, key) ==
    IF key \in DOMAIN d.memories
    THEN \E r \in t : /\ Same(t, Derived(key)) = {r}
                      /\ r.occurred_at = d.memories[key].created_at
    ELSE <<key[1], "memory", key[2]>> \notin DOMAIN d.tombstones => Same(t, Derived(key)) = {}

Dated(t, d) == \A key \in Key : EventDated(t, d, key) /\ MemoryDated(t, d, key)

\* An operation that keeps the rows and tells of what it changes keeps the dates.
LEMMA DatesKept ==
    ASSUME NEW d, NEW e, DbType(d), Kept(d, e), Unwritten(d, e),
           NEW records, NEW at, NEW id, Tells(e, d, records, at),
           NEW t, Dated(t, d), NEW u, t \subseteq u,
           \A x \in AuditRow : Same(u, x) = Same(t, x) \cup
                (IF x \in records THEN {Timed(x, id[x], at)} ELSE {})
    PROVE  Dated(u, e)
<1> SUFFICES ASSUME NEW key \in Key PROVE EventDated(u, e, key) /\ MemoryDated(u, e, key)
  BY DEF Dated
<1>1. EventDated(t, d, key) /\ MemoryDated(t, d, key)
  BY DEF Dated
<1>2. \A x \in {Ingested(key), Expired(key), Derived(key)} :
        /\ x \in records => /\ Same(u, x) = Same(t, x) \cup {Timed(x, id[x], at)}
                            /\ Timed(x, id[x], at) \in u
                            /\ Timed(x, id[x], at).occurred_at = at
        /\ x \notin records => Same(u, x) = Same(t, x)
  <2>1. \A x \in {Ingested(key), Expired(key), Derived(key)} : x \in AuditRow
    BY RecordsDiffer
  <2>2. \A x : Same(u, x) \subseteq u
    BY DEF Same
  <2>3. \A x : Timed(x, id[x], at).occurred_at = at
    BY DEF Timed
  <2>4. QED
    BY <2>1, <2>2, <2>3
<1>3. EventDated(u, e, key)
  <2> DEFINE stone == <<key[1], "raw_event", key[2]>>
  <2>1. CASE key \notin DOMAIN d.raw_events /\ key \in DOMAIN e.raw_events
    <3>1. /\ Ingested(key) \in records /\ Expired(key) \notin records
          /\ stone \notin DOMAIN d.tombstones
          /\ key \in DOMAIN e.raw_event_content /\ e.raw_events[key].ingested_at = at
      BY <2>1 DEF Tells
    <3>2. Same(t, Ingested(key)) = {} /\ Same(t, Expired(key)) = {}
      BY <1>1, <2>1, <3>1 DEF EventDated
    <3>3. QED
      BY <1>2, <2>1, <3>1, <3>2 DEF EventDated
  <2>2. CASE key \notin DOMAIN d.raw_events /\ key \notin DOMAIN e.raw_events
    <3>1. Ingested(key) \notin records /\ Expired(key) \notin records
      BY <2>2 DEF Tells
    <3>2. stone \notin DOMAIN e.tombstones => stone \notin DOMAIN d.tombstones
      BY DEF Kept
    <3>3. QED
      BY <1>1, <1>2, <2>2, <3>1, <3>2 DEF EventDated
  <2>3. CASE key \in DOMAIN d.raw_events /\ key \in DOMAIN e.raw_events
    <3> DEFINE was == d.raw_events[key]
               is == e.raw_events[key]
    <3>1. was \in EventRow /\ was.raw_expires_at \in Nat
      BY <2>3 DEF DbType, IsTable, EventRow
    <3>2. is = was \/ is = [was EXCEPT !.status = "expired"]
      BY <2>3 DEF Unwritten
    <3>3. is.ingested_at = was.ingested_at /\ is.raw_expires_at = was.raw_expires_at
      BY <3>1, <3>2 DEF EventRow
    <3>4. /\ Ingested(key) \notin records
          /\ Expired(key) \in records <=>
               key \in DOMAIN d.raw_event_content \ DOMAIN e.raw_event_content
          /\ Expired(key) \in records => at >= was.raw_expires_at
      BY <2>3 DEF Tells
    <3>5. key \notin DOMAIN d.raw_event_content => key \notin DOMAIN e.raw_event_content
      BY <2>3 DEF Unwritten
    <3> HIDE DEF was, is
    <3>6. PICK r \in t : Same(t, Ingested(key)) = {r} /\ r.occurred_at = was.ingested_at
      BY <1>1, <2>3 DEF EventDated, was
    <3>7. Same(u, Ingested(key)) = {r} /\ r \in u /\ r.occurred_at = is.ingested_at
      BY <1>2, <3>3, <3>4, <3>6
    <3>8. IF key \in DOMAIN e.raw_event_content THEN Same(u, Expired(key)) = {}
          ELSE \E q \in u : Same(u, Expired(key)) = {q} /\ q.occurred_at >= is.raw_expires_at
      <4>1. CASE key \in DOMAIN e.raw_event_content
        <5>1. key \in DOMAIN d.raw_event_content /\ Expired(key) \notin records
          BY <3>4, <3>5, <4>1
        <5>2. Same(t, Expired(key)) = {}
          BY <1>1, <2>3, <5>1 DEF EventDated
        <5>3. QED
          BY <1>2, <4>1, <5>1, <5>2
      <4>2. CASE key \notin DOMAIN e.raw_event_content /\ key \in DOMAIN d.raw_event_content
        <5>1. Same(t, Expired(key)) = {} /\ Expired(key) \in records
          BY <1>1, <2>3, <3>4, <4>2 DEF EventDated
        <5>2. Same(u, Expired(key)) = {Timed(Expired(key), id[Expired(key)], at)}
          BY <1>2, <5>1
        <5>3. QED
          BY <1>2, <3>3, <3>4, <4>2, <5>1, <5>2
      <4>3. CASE key \notin DOMAIN e.raw_event_content /\ key \notin DOMAIN d.raw_event_content
        <5>1. PICK q \in t : Same(t, Expired(key)) = {q} /\ q.occurred_at >= was.raw_expires_at
          BY <1>1, <2>3, <4>3 DEF EventDated, was
        <5>2. Same(u, Expired(key)) = {q}
          BY <1>2, <3>4, <4>3, <5>1
        <5>3. QED
          BY <3>3, <4>3, <5>1, <5>2
      <4>4. QED
        BY <4>1, <4>2, <4>3
    <3>9. QED
      BY <2>3, <3>7, <3>8 DEF EventDated, is
  <2>4. CASE key \in DOMAIN d.raw_events /\ key \notin DOMAIN e.raw_events
    BY <2>4 DEF EventDated, Kept
  <2>5. QED
    BY <2>1, <2>2, <2>3, <2>4
<1>4. MemoryDated(u, e, key)
  <2> DEFINE stone == <<key[1], "memory", key[2]>>
  <2>1. CASE key \notin DOMAIN d.memories /\ key \in DOMAIN e.memories
    <3>1. /\ Derived(key) \in records /\ stone \notin DOMAIN d.tombstones
          /\ e.memories[key].created_at = at
      BY <2>1 DEF Tells
    <3>2. Same(t, Derived(key)) = {}
      BY <1>1, <2>1, <3>1 DEF MemoryDated
    <3>3. QED
      BY <1>2, <2>1, <3>1, <3>2 DEF MemoryDated
  <2>2. CASE key \notin DOMAIN d.memories /\ key \notin DOMAIN e.memories
    <3>1. Derived(key) \notin records
      BY <2>2 DEF Tells
    <3>2. stone \notin DOMAIN e.tombstones => stone \notin DOMAIN d.tombstones
      BY DEF Kept
    <3>3. QED
      BY <1>1, <1>2, <2>2, <3>1, <3>2 DEF MemoryDated
  <2>3. CASE key \in DOMAIN d.memories /\ key \in DOMAIN e.memories
    <3> DEFINE was == d.memories[key]
               is == e.memories[key]
    <3>1. was \in MemoryRow
      BY <2>3 DEF DbType, IsTable
    <3>2. \E status \in MemoryStatus : is = [was EXCEPT !.status = status]
      BY <2>3 DEF Unwritten
    <3>3. is.created_at = was.created_at
      BY <3>1, <3>2 DEF MemoryRow
    <3>4. Derived(key) \notin records
      BY <2>3 DEF Tells
    <3> HIDE DEF was, is
    <3>5. PICK r \in t : Same(t, Derived(key)) = {r} /\ r.occurred_at = was.created_at
      BY <1>1, <2>3 DEF MemoryDated, was
    <3>6. Same(u, Derived(key)) = {r} /\ r \in u /\ r.occurred_at = is.created_at
      BY <1>2, <3>3, <3>4, <3>5
    <3>7. QED
      BY <2>3, <3>6 DEF MemoryDated, is
  <2>4. CASE key \in DOMAIN d.memories /\ key \notin DOMAIN e.memories
    BY <2>4 DEF MemoryDated, Kept
  <2>5. QED
    BY <2>1, <2>2, <2>3, <2>4
<1>5. QED
  BY <1>3, <1>4

-----------------------------------------------------------------------------
(* The trail.                                                              *)

\* A step that adds the rows of one transaction.
Grow(records, at, id) ==
    /\ Records(db', db, records) /\ Tells(db', db, records, at) /\ at \in Nat
    /\ id \in [records -> Unused(trail)] /\ IsInjective(id)
    /\ trail' = trail \cup Added(records, id, at)

LEMMA InsertionsGrow ==
    ASSUME NEW changed, changed = TRUE, NEW records, NEW at \in Nat,
           Insertions(changed, records, at), Records(db', db, records),
           Tells(db', db, records, at)
    PROVE  \E n, id : Grow(records, n, id)
<1>1. \E id \in [records -> FreshIds] :
        IsInjective(id) /\ trail' = trail \cup {Timed(r, id[r], at) : r \in records}
  BY DEF Insertions
<1>2. PICK id \in [records -> FreshIds] :
        IsInjective(id) /\ trail' = trail \cup {Timed(r, id[r], at) : r \in records}
  BY <1>1
<1>3. FreshIds = Unused(trail)
  BY DEF FreshIds, Unused
<1>4. Grow(records, at, id)
  BY <1>2, <1>3 DEF Grow, Added
<1>5. QED
  BY <1>4

\* Every step changes rows and adds their records, or does neither.
LEMMA TrailStep ==
    ASSUME TypeOK, Consistent, Finite(db), [TrailNext]_trailVars
    PROVE  (db' = db /\ trail' = trail) \/ \E records, at, id : Grow(records, at, id)
<1> DEFINE Goal == (db' = db /\ trail' = trail) \/ \E records, at, id : Grow(records, at, id)
<1>0. DbType(db) /\ DbConsistent(db)
  BY DEF TypeOK, Consistent
<1>1. ASSUME NEW draft \in EventDrafts, NEW now \in Clocks, RecordIngest(draft, now)
      PROVE  Goal
  <2> DEFINE records == {AuditRecord(draft.scope, "ingest", "raw_event", draft.event_id,
                                     "event ingested")}
             changed == IngestOutcome(db, draft) = "created"
  <2>1. Insertions(changed, records, now)
    BY <1>1 DEF RecordIngest
  <2>2. now \in Nat
    BY InstantAssumption, BoundAssumption
  <2>3. CASE changed
    <3>1. Records(db', db, records)
      BY <1>0, <1>1, <2>3, IngestRecords DEF RecordIngest, IngestEvent
    <3>2. changed = TRUE /\ Tells(db', db, records, now)
      BY <1>0, <1>1, <2>3, IngestTells DEF RecordIngest, IngestEvent, Ingested, EventKey
    <3> HIDE DEF changed, records
    <3>3. \E n, id : Grow(records, n, id)
      BY <2>1, <2>2, <3>1, <3>2, InsertionsGrow
    <3>4. QED
      BY <3>3
  <2>4. CASE ~changed
    BY <1>1, <2>4 DEF RecordIngest, IngestEvent, Insertions
  <2>5. QED
    BY <2>3, <2>4
<1>2. ASSUME NEW draft \in MemoryDrafts, RecordMaterialize(draft)
      PROVE  Goal
  <2> DEFINE records == {AuditRecord(draft.scope, "materialize", "memory", draft.memory_id,
                                     "memory materialized")}
             changed == MaterializeOutcome(db, draft) = "created"
  <2>1. Insertions(changed, records, draft.created_at)
    BY <1>2 DEF RecordMaterialize
  <2>2. draft.created_at \in Nat
    BY DraftSources, BoundAssumption DEF MemoryDraft
  <2>3. CASE changed
    <3>1. Records(db', db, records)
      BY <1>0, <1>2, <2>3, MaterializeRecords DEF RecordMaterialize, MaterializeOnce
    <3>2. changed = TRUE /\ Tells(db', db, records, draft.created_at)
      BY <1>0, <1>2, <2>3, MaterializeTells
         DEF RecordMaterialize, MaterializeOnce, Derived, MemoryKey
    <3> HIDE DEF changed, records
    <3>3. \E n, id : Grow(records, n, id)
      BY <2>1, <2>2, <3>1, <3>2, InsertionsGrow
    <3>4. QED
      BY <3>3
  <2>4. CASE ~changed
    BY <1>2, <2>4 DEF RecordMaterialize, MaterializeOnce, Insertions
  <2>5. QED
    BY <2>3, <2>4
<1>3. ASSUME NEW c \in GovernanceCommand, NEW at \in Claims, RecordGovern(c, at)
      PROVE  Goal
  <2> DEFINE records == {GovernanceAudit(c)}
             changed == GovernOutcome(db, c) = "done"
  <2>1. Insertions(changed, records, at)
    BY <1>3 DEF RecordGovern
  <2>2. at \in Nat
    BY TrailAssumption, BoundAssumption
  <2>3. CASE changed
    <3>1. Records(db', db, records)
      BY <1>0, <1>3, <2>3, GovernRecords DEF RecordGovern, Govern
    <3>2. changed = TRUE /\ Tells(db', db, records, at)
      BY <1>0, <1>3, <2>3, GovernTells DEF RecordGovern, Govern
    <3> HIDE DEF changed, records
    <3>3. \E n, id : Grow(records, n, id)
      BY <2>1, <2>2, <3>1, <3>2, InsertionsGrow
    <3>4. QED
      BY <3>3
  <2>4. CASE ~changed
    BY <1>3, <2>4 DEF RecordGovern, Govern, Insertions
  <2>5. QED
    BY <2>3, <2>4
<1>4. ASSUME NEW as_of \in Sweeps, RecordExpire(as_of)
      PROVE  Goal
  <2> DEFINE records == {AuditRecord(key[1], "expire", "raw_event", key[2],
                                     "raw content expired") : key \in Expirable(db, as_of)}
             changed == ExpireOutcome(db) = "done"
  <2>1. Insertions(changed, records, as_of)
    BY <1>4 DEF RecordExpire
  <2>2. as_of \in Nat
    BY InstantAssumption
  <2>3. CASE changed
    <3>1. Records(db', db, records)
      <4>1. db' = ExpireEffect(db, as_of)
        BY <1>4, <2>3 DEF RecordExpire, ExpireRawContent
      <4>2. QED
        BY <1>0, <4>1, ExpireRecords
    <3>2. changed = TRUE /\ Tells(db', db, records, as_of)
      BY <1>0, <1>4, <2>3, ExpireTells DEF RecordExpire, ExpireRawContent, Expired
    <3> HIDE DEF changed, records
    <3>3. \E n, id : Grow(records, n, id)
      BY <2>1, <2>2, <3>1, <3>2, InsertionsGrow
    <3>4. QED
      BY <3>3
  <2>4. CASE ~changed
    BY <1>4, <2>4 DEF RecordExpire, ExpireRawContent, Insertions
  <2>5. QED
    BY <2>3, <2>4
<1>5. CASE UNCHANGED trailVars
  BY <1>5 DEF trailVars
<1>6. QED
  BY <1>1, <1>2, <1>3, <1>4, <1>5 DEF TrailNext

\* What holds of the store and its trail in every reachable state.
TrailOk == TrailGood(trail) /\ Dated(trail, db)

LEMMA TrailStays ==
    TrailSpec => [](TypeOK /\ Consistent /\ Finite(db) /\ TrailOk)
<1>1. TrailInit => TrailOk
  <2> SUFFICES ASSUME TrailInit PROVE TrailOk
    OBVIOUS
  <2>1. /\ trail = {} /\ DOMAIN db.raw_events = {} /\ DOMAIN db.memories = {}
    BY DEF TrailInit, Init, EmptyDb, EmptyTable
  <2>2. \A x : Same(trail, x) = {}
    BY <2>1 DEF Same
  <2>3. Dated(trail, db)
    BY <2>1, <2>2 DEF Dated, EventDated, MemoryDated
  <2>4. QED
    BY <2>1, <2>3, FS_EmptySet DEF TrailOk, TrailGood, Unique
<1>2. TypeOK /\ Consistent /\ Finite(db) /\ TrailOk /\ [Next]_vars /\ [TrailNext]_trailVars
        => TrailOk'
  <2> SUFFICES ASSUME TypeOK, Consistent, Finite(db), TrailOk, [Next]_vars,
                      [TrailNext]_trailVars
               PROVE  TrailGood(trail') /\ Dated(trail', db')
    BY DEF TrailOk
  <2>1. CASE db' = db /\ trail' = trail
    BY <2>1 DEF TrailOk
  <2>2. ASSUME NEW records, NEW at, NEW id, Grow(records, at, id)
        PROVE  TrailGood(trail') /\ Dated(trail', db')
    <3>1. /\ records \in SUBSET AuditRow /\ IsFiniteSet(records) /\ at \in Nat
          /\ id \in [records -> Unused(trail)] /\ IsInjective(id)
          /\ trail' = trail \cup Added(records, id, at)
          /\ Tells(db', db, records, at)
      BY <2>2 DEF Grow, Records
    <3>2. TrailGood(trail) /\ Dated(trail, db)
      BY DEF TrailOk
    <3>3. /\ TrailGood(trail')
          /\ \A x \in AuditRow : Same(trail', x) = Same(trail, x) \cup
               (IF x \in records THEN {Timed(x, id[x], at)} ELSE {})
      BY <3>1, <3>2, TrailGrows
    <3>4. Kept(db, db') /\ Unwritten(db, db') /\ DbType(db)
      BY OperationKeeps, OperationUnwritten DEF TypeOK
    <3>5. Dated(trail', db')
      <4>1. trail \subseteq trail'
        BY <3>1
      <4>2. Tells(db', db, records, at) /\ Dated(trail, db)
        BY <3>1, <3>2
      <4>3. \A x \in AuditRow : Same(trail', x) = Same(trail, x) \cup
               (IF x \in records THEN {Timed(x, id[x], at)} ELSE {})
        BY <3>3
      <4>4. QED
        BY <3>4, <4>1, <4>2, <4>3, DatesKept
    <3>6. QED
      BY <3>3, <3>5
  <2>3. QED
    BY <2>1, <2>2, TrailStep
<1>3. QED
  BY <1>1, <1>2, TrailIsStore, StaysFinite, PTL DEF TrailSpec, Spec

\* However often requests are retried and in whatever order sweeps claim their
\* instants, the records of what is on record say when it came and when its body
\* went, once each.
THEOREM TrailIsDated == TrailSpec => []RecordsDated
<1>1. TypeOK /\ TrailOk => RecordsDated
  <2> SUFFICES ASSUME TypeOK, TrailOk PROVE RecordsDated
    OBVIOUS
  <2>1. DOMAIN db.raw_events \subseteq Key /\ DOMAIN db.memories \subseteq Key
    BY DEF TypeOK, DbType, IsTable
  <2>2. \A key \in Key : EventDated(trail, db, key) /\ MemoryDated(trail, db, key)
    BY DEF TrailOk, Dated
  <2>3. \A x : Told(x) = Same(trail, x)
    BY DEF Told, Same
  <2>4. \A key \in DOMAIN db.raw_events :
          /\ \E r \in trail : /\ Told(Ingested(key)) = {r}
                              /\ r.occurred_at = db.raw_events[key].ingested_at
          /\ IF key \in DOMAIN db.raw_event_content THEN Told(Expired(key)) = {}
             ELSE \E r \in trail : /\ Told(Expired(key)) = {r}
                                   /\ r.occurred_at >= db.raw_events[key].raw_expires_at
    BY <2>1, <2>2, <2>3 DEF EventDated
  <2>5. \A key \in DOMAIN db.memories :
          \E r \in trail : /\ Told(Derived(key)) = {r}
                           /\ r.occurred_at = db.memories[key].created_at
    BY <2>1, <2>2, <2>3 DEF MemoryDated
  <2>6. QED
    BY <2>4, <2>5 DEF RecordsDated, Ingested, Expired, Derived
<1>2. QED
  BY <1>1, TrailStays, PTL

\* Every change of a row is recorded, nothing else is, and no record goes.
THEOREM ChangesRecorded == TrailSpec => EveryChangeRecorded
<1>1. TypeOK /\ Consistent /\ Finite(db) /\ TrailOk /\ [TrailNext]_trailVars
        => [Recorded]_trailVars
  <2> SUFFICES ASSUME TypeOK, Consistent, Finite(db), TrailOk, [TrailNext]_trailVars
               PROVE  [Recorded]_trailVars
    OBVIOUS
  <2>1. CASE db' = db /\ trail' = trail
    BY <2>1 DEF trailVars
  <2>2. ASSUME NEW records, NEW at, NEW id, Grow(records, at, id)
        PROVE  Recorded
    <3>1. /\ records \in SUBSET AuditRow /\ IsFiniteSet(records) /\ at \in Nat
          /\ id \in [records -> Unused(trail)] /\ IsInjective(id)
          /\ trail' = trail \cup Added(records, id, at)
          /\ records = {} <=> SameButLog(db', db)
      BY <2>2 DEF Grow, Records
    <3>2. \A r \in Added(records, id, at) : r \notin trail
      <4>1. trail \in SUBSET TrailRow
        BY DEF TrailOk, TrailGood
      <4>2. \A r \in Added(records, id, at) : r.audit_id \notin {q.audit_id : q \in trail}
        BY <3>1, <4>1, AddedRows
      <4>3. QED
        BY <4>2
    <3>3. Added(records, id, at) = {} <=> records = {}
      BY DEF Added
    <3>4. trail' = trail <=> records = {}
      <4> HIDE DEF Added
      <4> QED
        BY <3>1, <3>2, <3>3
    <3>5. QED
      BY <3>1, <3>4 DEF Recorded, SameButLog
  <2>3. QED
    BY <2>1, <2>2, TrailStep
<1>2. QED
  BY <1>1, TrailStays, PTL DEF TrailSpec, EveryChangeRecorded


\* The two keys of audit.
LEMMA AuditKeys ==
    ASSUME NEW rows, Range(rows) \subseteq TrailRow
    PROVE  /\ WeakOrder(Descending(rows, "audit_id"), Range(rows))
           /\ WeakOrder(Descending(rows, "occurred_at"), Range(rows))
           /\ \A x, y \in Range(rows) :
                /\ <<x, y>> \in Descending(rows, "audit_id") <=> x.audit_id > y.audit_id
                /\ <<x, y>> \in Descending(rows, "occurred_at")
                     <=> x.occurred_at > y.occurred_at
<1> DEFINE S == Range(rows)
<1>0. \A x \in S : x.audit_id \in Nat /\ x.occurred_at \in Nat
  BY TrailAssumption DEF TrailRow
<1>1. \A x, y \in S : <<x, y>> \in Descending(rows, "audit_id") <=> x.audit_id > y.audit_id
  BY DEF Descending, Pairs
<1>2. \A x, y \in S : <<x, y>> \in Descending(rows, "occurred_at")
                        <=> x.occurred_at > y.occurred_at
  BY DEF Descending, Pairs
<1> HIDE DEF S
<1>3. WeakOrder(Descending(rows, "audit_id"), S)
  BY <1>0, <1>1 DEF WeakOrder
<1>4. WeakOrder(Descending(rows, "occurred_at"), S)
  BY <1>0, <1>2 DEF WeakOrder
<1>5. QED
  BY <1>1, <1>2, <1>3, <1>4 DEF S

\* Sorting by identifier and then by time gives the newest records first.
LEMMA AuditOrder ==
    ASSUME NEW n \in Nat, NEW rows \in [1..n -> TrailRow],
           \A i, j \in 1..n : i # j => rows[i].audit_id # rows[j].audit_id,
           NEW sorted, sorted = Sorted(rows)
    PROVE  \E P : /\ IsList(sorted, n, Range(rows))
                  /\ Range(sorted) = Range(rows)
                  /\ Ordered(sorted, n, P)
                  /\ \A x, y : <<x, y>> \in P => Newer(x, y)
<1> DEFINE S == Range(rows)
           byId == StableSort(rows, Descending(rows, "audit_id"))
           different == {p \in S \X S : p[1].audit_id # p[2].audit_id}
           larger == Refine(Descending(rows, "audit_id"), different, S)
           P == Refine(Descending(rows, "occurred_at"), larger, S)
<1>1. rows \in [1..n -> S] /\ S \subseteq TrailRow
  BY InRange
<1>2. /\ WeakOrder(Descending(rows, "audit_id"), S)
      /\ WeakOrder(Descending(rows, "occurred_at"), S)
      /\ \A x, y \in S :
           /\ <<x, y>> \in Descending(rows, "audit_id") <=> x.audit_id > y.audit_id
           /\ <<x, y>> \in Descending(rows, "occurred_at") <=> x.occurred_at > y.occurred_at
  BY <1>1, AuditKeys
<1> HIDE DEF S
<1>3. \A x \in S : x.audit_id \in Nat /\ x.occurred_at \in Nat
  BY <1>1, TrailAssumption DEF TrailRow
<1>4. Ordered(rows, n, different)
  BY <1>1 DEF Ordered
<1>5. \A x, y : <<x, y>> \in P => Newer(x, y)
  <2>1. SUFFICES ASSUME NEW x, NEW y, <<x, y>> \in P PROVE Newer(x, y)
    OBVIOUS
  <2>2. /\ x \in S /\ y \in S
        /\ \/ <<x, y>> \in Descending(rows, "occurred_at")
           \/ /\ <<y, x>> \notin Descending(rows, "occurred_at")
              /\ <<x, y>> \in larger
    <3> HIDE DEF larger
    <3> QED
      BY <2>1 DEF Refine
  <2>3. <<x, y>> \in larger =>
          \/ <<x, y>> \in Descending(rows, "audit_id")
          \/ <<y, x>> \notin Descending(rows, "audit_id") /\ x.audit_id # y.audit_id
    BY DEF Refine
  <2> HIDE DEF different, larger, P
  <2>4. <<x, y>> \in larger => x.audit_id > y.audit_id
    BY <1>2, <1>3, <2>2, <2>3
  <2>5. QED
    BY <1>2, <1>3, <2>2, <2>4 DEF Newer
<1> HIDE DEF different
<1>6. IsList(byId, n, S) /\ Range(byId) = Range(rows) /\ Ordered(byId, n, larger)
  <2>1. IsList(rows, n, S)
    BY <1>1 DEF IsList
  <2>2. QED
    BY <1>2, <1>4, <2>1, Resorting
<1>7. sorted = StableSort(byId, Descending(rows, "occurred_at"))
  BY DEF Sorted
<1> HIDE DEF byId, larger
<1>8. IsList(sorted, n, S) /\ Range(sorted) = Range(byId) /\ Ordered(sorted, n, P)
  BY <1>2, <1>6, <1>7, Resorting
<1> HIDE DEF P
<1>9. QED
  BY <1>5, <1>6, <1>8 DEF S

\* Whatever order the rows come in, audit returns the newest records of the
\* scope, newest first, for every limit.
THEOREM AuditIsNewest == TrailSpec => []AuditPageNewest
<1>1. TrailOk => AuditPageNewest
  <2>0. SUFFICES ASSUME TrailOk, NEW s \in Scopes, NEW limit \in 1..MaxLimit,
                        NEW rows \in RowOrders(s),
                        NEW page, page = AuditPage(rows, limit),
                        NEW own, own = {r \in trail : r.record.scope = s}
               PROVE
        /\ Len(page) = IF limit < Cardinality(own) THEN limit ELSE Cardinality(own)
        /\ Range(page) \subseteq own
        /\ \A i, j \in DOMAIN page : i < j => Newer(page[i], page[j])
        /\ \A r \in Range(page), q \in own \ Range(page) : Newer(r, q)
    BY DEF AuditPageNewest
  <2> DEFINE n == Cardinality(own)
             sorted == Sorted(rows)
  <2>1. trail \subseteq TrailRow /\ IsFiniteSet(trail) /\ Unique(trail)
    BY <2>0 DEF TrailOk, TrailGood
  <2>2. own \subseteq trail /\ rows \in SetToSeqs(own)
    BY <2>0 DEF RowOrders
  <2>3. IsFiniteSet(own)
    BY <2>1, <2>2, FS_Subset
  <2>4. /\ n \in Nat /\ rows \in [1..n -> own] /\ Range(rows) = own
        /\ \A i, j \in 1..n : i # j => rows[i] # rows[j]
    <3>1. n = Cardinality(own)
      OBVIOUS
    <3> HIDE DEF n, sorted
    <3>2. QED
      BY <2>2, <2>3, <3>1, Listing
  <2> HIDE DEF n
  <2>5. rows \in [1..n -> TrailRow]
    BY <2>1, <2>2, <2>4
  <2>6. \A i, j \in 1..n : i # j => rows[i].audit_id # rows[j].audit_id
    BY <2>1, <2>2, <2>4 DEF Unique
  <2>7. PICK P : /\ IsList(sorted, n, Range(rows)) /\ Range(sorted) = Range(rows)
                 /\ Ordered(sorted, n, P)
                 /\ \A x, y : <<x, y>> \in P => Newer(x, y)
    BY <2>4, <2>5, <2>6, AuditOrder
  <2>8. page = Take(sorted, limit) /\ limit \in Nat \ {0}
    BY <2>0, LimitAssumption DEF AuditPage
  <2> HIDE DEF sorted
  <2>9. /\ Len(page) = IF limit < n THEN limit ELSE n
        /\ Range(page) \subseteq Range(sorted)
        /\ \A i, j \in DOMAIN page : i < j => <<page[i], page[j]>> \in P
        /\ \A x \in Range(page), y \in Range(sorted) \ Range(page) : <<x, y>> \in P
    BY <2>4, <2>7, <2>8, Slice
  <2>10. QED
    BY <2>4, <2>7, <2>9 DEF n
<1>2. QED
  BY <1>1, TrailStays, PTL
=============================================================================
