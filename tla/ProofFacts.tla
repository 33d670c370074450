------------------------------ MODULE ProofFacts ------------------------------
(***************************************************************************)
(* What the proofs about memory and about files share: facts about         *)
(* sequences, which model the linked lists; about division by a page size  *)
(* (PAGING_PGN, PAGING_OFFST and PAGING_PAGE_ALIGNSZ of include/mm.h);     *)
(* about the operations of FreeList; and about what they do to the bytes   *)
(* of an area.                                                             *)
(***************************************************************************)
EXTENDS FreeList, SequenceTheorems, WellFoundedInduction, TLAPS

-----------------------------------------------------------------------------
(* Sequences *)

\* What stays in a list without its head.
LEMMA TailElements ==
    ASSUME NEW S, NEW s \in Seq(S), s # <<>>
    PROVE  /\ Tail(s) \in Seq(S)
           /\ Len(s) \in Nat /\ Len(s) > 0
           /\ Len(Tail(s)) = Len(s) - 1
           /\ \A i \in 1..(Len(s) - 1) : Tail(s)[i] = s[i + 1]
           /\ Head(s) = s[1] /\ Head(s) \in S
  OBVIOUS

\* A new element before the elements of a list.
LEMMA ConsElements ==
    ASSUME NEW S, NEW s \in Seq(S), NEW x \in S
    PROVE  /\ <<x>> \o s \in Seq(S)
           /\ Len(s) \in Nat
           /\ Len(<<x>> \o s) = Len(s) + 1
           /\ (<<x>> \o s)[1] = x
           /\ \A i \in 2..(Len(s) + 1) : (<<x>> \o s)[i] = s[i - 1]
  OBVIOUS

\* Removing element k keeps the others, in order.
LEMMA RemoveElements ==
    ASSUME NEW S, NEW s \in Seq(S), NEW k \in 1..Len(s)
    PROVE  LET r == SubSeq(s, 1, k - 1) \o SubSeq(s, k + 1, Len(s)) IN
           /\ r \in Seq(S)
           /\ Len(r) = Len(s) - 1
           /\ \A i \in 1..(k - 1) : r[i] = s[i]
           /\ \A i \in k..(Len(s) - 1) : r[i] = s[i + 1]
<1> DEFINE a == SubSeq(s, 1, k - 1)
           b == SubSeq(s, k + 1, Len(s))
<1>1. /\ a \in Seq(S) /\ Len(a) = k - 1
      /\ \A i \in 1..(k - 1) : a[i] = s[i]
  OBVIOUS
<1>2. /\ b \in Seq(S) /\ Len(b) = Len(s) - k
      /\ \A i \in 1..(Len(s) - k) : b[i] = s[k + i]
  OBVIOUS
<1> HIDE DEF a, b
<1>0. k \in Nat /\ Len(s) \in Nat
  OBVIOUS
<1>3. /\ a \o b \in Seq(S)
      /\ Len(a \o b) = Len(a) + Len(b)
      /\ \A i \in 1..(Len(a) + Len(b)) : (a \o b)[i] = IF i <= Len(a) THEN a[i] ELSE b[i - Len(a)]
  BY <1>1, <1>2, ConcatProperties
<1>4. ASSUME NEW i \in k..(Len(s) - 1) PROVE (a \o b)[i] = s[i + 1]
  <2>1. (a \o b)[i] = b[i - (k - 1)]
    BY <1>0, <1>1, <1>2, <1>3
  <2>2. i - (k - 1) \in 1..(Len(s) - k) /\ k + (i - (k - 1)) = i + 1
    BY <1>0
  <2>3. b[i - (k - 1)] = s[k + (i - (k - 1))]
    BY <1>2, <2>2
  <2> QED
    BY <2>1, <2>2, <2>3
<1>5. ASSUME NEW i \in 1..(k - 1) PROVE (a \o b)[i] = s[i]
  BY <1>0, <1>1, <1>2, <1>3
<1>6. Len(a \o b) = Len(s) - 1
  BY <1>0, <1>1, <1>2, <1>3
<1> QED
  BY <1>3, <1>4, <1>5, <1>6 DEF a, b

-----------------------------------------------------------------------------
(* Sets of numbers *)

\* A set of natural numbers that is not empty has a least element,
LEMMA LeastElement ==
    ASSUME NEW T \in SUBSET Nat, T # {}
    PROVE  \E x \in T : \A y \in T : x <= y
<1> DEFINE R == OpToRel(<, Nat)
<1>1. IsWellFoundedOn(R, Nat)
  BY NatLessThanWellFounded
<1>2. \A x, y \in Nat : <<y, x>> \in R <=> y < x
  BY DEF OpToRel
<1> HIDE DEF R
<1>3. PICK x \in T : \A y \in T : ~(<<y, x>> \in R)
  BY <1>1, WFMin
<1>4. \A y \in T : ~(y < x)
  BY <1>2, <1>3
<1> QED
  BY <1>4

\* and, if it is bounded, a greatest one.
LEMMA GreatestElement ==
    ASSUME NEW n \in Nat, NEW T \in SUBSET 0..n, T # {}
    PROVE  \E x \in T : \A y \in T : y <= x
<1> DEFINE U == {n - y : y \in T}
<1>1. U \in SUBSET Nat /\ U # {}
  <2>1. \A y \in T : y \in Int /\ y >= 0 /\ y <= n
    OBVIOUS
  <2>2. \A y \in T : n - y \in Nat
    BY <2>1
  <2>3. PICK y \in T : TRUE
    OBVIOUS
  <2>4. n - y \in U
    BY <2>3
  <2> QED
    BY <2>2, <2>4
<1>2. PICK u \in U : \A z \in U : u <= z
  BY <1>1, LeastElement
<1>3. PICK x \in T : u = n - x
  BY <1>2
<1>4. ASSUME NEW y \in T PROVE y <= x
  <2>1. u <= n - y
    BY <1>2
  <2> QED
    BY <1>3, <2>1
<1> QED
  BY <1>4

-----------------------------------------------------------------------------
(* Pages *)

\* The pages of size d that n bytes take.
UpTo(n, d) == (n + d - 1) \div d

\* Quotient and remainder.
LEMMA DivMod ==
    ASSUME NEW a \in Int, NEW d \in Nat \ {0}
    PROVE  /\ a \div d \in Int /\ a % d \in 0..(d - 1)
           /\ a = d * (a \div d) + (a % d)
  OBVIOUS

\* Page numbers and offsets in a page are natural numbers.
LEMMA DivNat ==
    ASSUME NEW a \in Nat, NEW d \in Nat \ {0}
    PROVE  a \div d \in Nat /\ a % d \in 0..(d - 1)
  OBVIOUS

\* A multiple of a page size.
LEMMA TimesNat ==
    ASSUME NEW d \in Nat \ {0}, NEW k \in Nat
    PROVE  k * d \in Nat /\ k <= k * d
  OBVIOUS

\* Addresses grow with page numbers, by a page at least.
LEMMA TimesMonotone ==
    ASSUME NEW d \in Nat \ {0}, NEW k \in Int, NEW m \in Int
    PROVE  /\ k * d = d * k
           /\ k <= m => k * d <= m * d
           /\ k < m => k * d + d <= m * d
  OBVIOUS

\* Numbers of pages add up as their bytes do.
LEMMA TimesSum ==
    ASSUME NEW d \in Int, NEW k \in Int, NEW m \in Int
    PROVE  (k + m) * d = k * d + m * d /\ (k - m) * d = k * d - m * d
  OBVIOUS

\* An address is in page k if it is between its first byte and the next page.
LEMMA DivUnique ==
    ASSUME NEW a \in Int, NEW d \in Nat \ {0}, NEW k \in Int, k * d <= a, a < k * d + d
    PROVE  a \div d = k
<1>1. PICK q \in Int, r \in 0..(d - 1) : q = a \div d /\ a = d * q + r
  BY DivMod
<1>2. CASE q < k
  BY <1>1, <1>2, TimesMonotone
<1>3. CASE k < q
  BY <1>1, <1>3, TimesMonotone
<1> QED
  BY <1>1, <1>2, <1>3

\* The first address of page k is in page k.
LEMMA DivMultiple ==
    ASSUME NEW d \in Nat \ {0}, NEW k \in Int
    PROVE  (k * d) \div d = k
<1>1. k * d \in Int
  OBVIOUS
<1> QED
  BY <1>1, DivUnique

\* An address in front of page k is in a page with a smaller number.
LEMMA DivBelow ==
    ASSUME NEW a \in Nat, NEW d \in Nat \ {0}, NEW k \in Int
    PROVE  /\ a < k * d => a \div d < k
           /\ a <= k * d => a \div d <= k
           /\ k * d <= a => k <= a \div d
<1>1. PICK q \in Int, r \in 0..(d - 1) : q = a \div d /\ a = d * q + r
  BY DivMod
<1>2. CASE q < k
  BY <1>1, <1>2, TimesMonotone
<1>3. CASE q = k
  BY <1>1, <1>3, TimesMonotone
<1>4. CASE k < q
  BY <1>1, <1>4, TimesMonotone
<1> QED
  BY <1>1, <1>2, <1>3, <1>4

\* Two addresses with the same page and the same offset are the same.
LEMMA DivModInjective ==
    ASSUME NEW a \in Nat, NEW b \in Nat, NEW d \in Nat \ {0}, a \div d = b \div d, a % d = b % d
    PROVE  a = b
<1>1. a = d * (a \div d) + (a % d)
  BY DivMod
<1>2. b = d * (b \div d) + (b % d)
  BY DivMod
<1> QED
  BY <1>1, <1>2

-----------------------------------------------------------------------------
(* Rounding up *)

\* The pages have room for the bytes, and waste less than one page.
LEMMA UpToBounds ==
    ASSUME NEW n \in Nat, NEW d \in Nat \ {0}
    PROVE  /\ UpTo(n, d) \in Nat
           /\ UpTo(n, d) * d \in Nat
           /\ n <= UpTo(n, d) * d
           /\ UpTo(n, d) * d < n + d
<1>1. n + d - 1 \in Nat
  OBVIOUS
<1>2. UpTo(n, d) \in Nat
  BY <1>1, DivNat DEF UpTo
<1>3. PICK r \in 0..(d - 1) : n + d - 1 = d * UpTo(n, d) + r
  <2>1. PICK c \in Nat : c = n + d - 1
    BY <1>1
  <2>2. c = d * (c \div d) + (c % d) /\ c % d \in 0..(d - 1)
    BY DivMod
  <2> QED
    BY <2>1, <2>2 DEF UpTo
<1>4. d * UpTo(n, d) = UpTo(n, d) * d /\ UpTo(n, d) * d \in Nat
  BY <1>2
<1> QED
  BY <1>2, <1>3, <1>4

\* The number of pages is the least that has room.
LEMMA UpToLeast ==
    ASSUME NEW n \in Nat, NEW d \in Nat \ {0}, NEW k \in Nat
    PROVE  /\ n <= k * d => UpTo(n, d) <= k
           /\ n > k * d => UpTo(n, d) > k
<1>1. PICK u \in Nat : u = UpTo(n, d) /\ n <= u * d /\ u * d < n + d
  BY UpToBounds
<1>2. CASE u <= k
  BY <1>1, <1>2, TimesMonotone
<1>3. CASE u > k
  BY <1>1, <1>3, TimesMonotone
<1> QED
  BY <1>1, <1>2, <1>3

\* More bytes take no fewer pages.
LEMMA UpToMonotone ==
    ASSUME NEW m \in Nat, NEW n \in Nat, m <= n, NEW d \in Nat \ {0}
    PROVE  UpTo(m, d) <= UpTo(n, d)
<1>1. n <= UpTo(n, d) * d /\ UpTo(n, d) \in Nat /\ UpTo(n, d) * d \in Nat
  BY UpToBounds
<1>2. m <= UpTo(n, d) * d
  BY <1>1
<1> QED
  BY <1>1, <1>2, UpToLeast

\* More bytes in the last page take no new page.
LEMMA UpToInside ==
    ASSUME NEW m \in Nat, NEW n \in Nat, NEW d \in Nat \ {0}, m <= n, n <= UpTo(m, d) * d
    PROVE  UpTo(n, d) = UpTo(m, d)
<1>1. UpTo(m, d) <= UpTo(n, d)
  BY UpToMonotone
<1>2. UpTo(m, d) \in Nat /\ UpTo(n, d) \in Nat
  BY UpToBounds
<1>3. UpTo(n, d) <= UpTo(m, d)
  BY <1>2, UpToLeast
<1> QED
  BY <1>1, <1>2, <1>3

\* No bytes take no pages.
LEMMA UpToZero ==
    ASSUME NEW d \in Nat \ {0}
    PROVE  UpTo(0, d) = 0
<1>1. UpTo(0, d) \in Nat /\ UpTo(0, d) * d < d
  BY UpToBounds
<1>2. 0 <= 0 * d
  OBVIOUS
<1> QED
  BY <1>1, <1>2, UpToLeast

\* A byte below n lies in one of the pages of n bytes, and the byte behind them
\* in one of them or in the next.
LEMMA UpToPage ==
    ASSUME NEW n \in Nat, NEW b \in Nat, NEW d \in Nat \ {0}
    PROVE  /\ b < n => b \div d \in 0..(UpTo(n, d) - 1)
           /\ b <= n => b \div d \in 0..UpTo(n, d)
<1>1. UpTo(n, d) \in Nat /\ UpTo(n, d) * d \in Nat /\ n <= UpTo(n, d) * d
  BY UpToBounds
<1>2. b \div d \in Nat
  BY DivNat
<1>3. b < n => b \div d < UpTo(n, d)
  BY <1>1, DivBelow
<1>4. b <= n => b \div d <= UpTo(n, d)
  BY <1>1, DivBelow
<1> QED
  BY <1>1, <1>2, <1>3, <1>4

-----------------------------------------------------------------------------
(* The free list *)

NatRegion == [rg_start : Nat, rg_end : Nat]

\* The elements of list2 but number m are the elements of list but the ones in
\* gone, each of them once.
Rearranged(list, list2, m, gone) ==
    \E from \in [1..Len(list2) -> Int] :
        /\ \A j \in 1..Len(list2) : j # m =>
              from[j] \in 1..Len(list) /\ from[j] \notin gone /\ list2[j] = list[from[j]]
        /\ \A j, k \in 1..Len(list2) : j # m /\ k # m /\ from[j] = from[k] => j = k
        /\ \A i \in 1..Len(list) : i \notin gone => \E j \in 1..Len(list2) : j # m /\ from[j] = i

\* delete_vm_rg_node()
LEMMA DeleteElements ==
    ASSUME NEW S, NEW s \in Seq(S), NEW k \in 1..Len(s)
    PROVE  /\ Delete(s, k) \in Seq(S)
           /\ Len(Delete(s, k)) = Len(s) - 1
           /\ \A i \in 1..(k - 1) : Delete(s, k)[i] = s[i]
           /\ \A i \in k..(Len(s) - 1) : Delete(s, k)[i] = s[i + 1]
  BY RemoveElements DEF Delete

\* Deleting a node leaves the others.
LEMMA DeleteRearranges ==
    ASSUME NEW S, NEW s \in Seq(S), NEW k \in 1..Len(s)
    PROVE  Rearranged(s, Delete(s, k), 0, {k})
<1> DEFINE d == Delete(s, k)
           from == [j \in 1..Len(d) |-> IF j < k THEN j ELSE j + 1]
<1>1. PICK n \in Nat : n = Len(s) /\ k <= n /\ k >= 1
  OBVIOUS
<1>2. /\ Len(d) = n - 1
      /\ \A i \in 1..(k - 1) : d[i] = s[i]
      /\ \A i \in k..(n - 1) : d[i] = s[i + 1]
  BY <1>1, DeleteElements
<1> HIDE DEF d
<1>3. ASSUME NEW j \in 1..(n - 1)
      PROVE  LET f == IF j < k THEN j ELSE j + 1 IN f \in 1..n /\ f # k /\ d[j] = s[f]
  <2>1. CASE j < k
    BY <1>1, <1>2, <2>1
  <2>2. CASE ~(j < k)
    BY <1>1, <1>2, <2>2
  <2> QED
    BY <2>1, <2>2
<1>4. from \in [1..Len(d) -> Int] /\ \A j \in 1..Len(d) : from[j] = IF j < k THEN j ELSE j + 1
  BY <1>1, <1>2
<1>5. \A j \in 1..Len(d) : from[j] \in 1..Len(s) /\ from[j] \notin {k} /\ d[j] = s[from[j]]
  BY <1>1, <1>2, <1>3, <1>4
<1>6. \A j, i \in 1..Len(d) : from[j] = from[i] => j = i
  BY <1>1, <1>2, <1>4
<1>7. ASSUME NEW i \in 1..Len(s), i \notin {k} PROVE \E j \in 1..Len(d) : j # 0 /\ from[j] = i
  <2>1. CASE i < k
    <3>1. i \in 1..Len(d) /\ i # 0
      BY <1>1, <1>2, <2>1
    <3> QED
      BY <1>1, <1>4, <2>1, <3>1
  <2>2. CASE i > k
    <3>1. i - 1 \in 1..Len(d) /\ i - 1 # 0 /\ ~(i - 1 < k) /\ (i - 1) + 1 = i
      BY <1>1, <1>2, <2>2
    <3>2. from[i - 1] = i
      BY <1>4, <3>1
    <3> QED
      BY <3>1, <3>2
  <2> QED
    BY <1>1, <1>7, <2>1, <2>2
<1> HIDE DEF from
<1>8. Rearranged(s, d, 0, {k})
  <2>1. /\ \A j \in 1..Len(d) : j # 0 =>
              from[j] \in 1..Len(s) /\ from[j] \notin {k} /\ d[j] = s[from[j]]
        /\ \A j, i \in 1..Len(d) : j # 0 /\ i # 0 /\ from[j] = from[i] => j = i
        /\ \A i \in 1..Len(s) : i \notin {k} => \E j \in 1..Len(d) : j # 0 /\ from[j] = i
    BY <1>5, <1>6, <1>7
  <2> QED
    BY <1>4, <2>1, Zenon DEF Rearranged
<1> QED
  BY <1>8 DEF d

\* A node that is put before a list leaves its nodes.
LEMMA ConsRearranges ==
    ASSUME NEW S, NEW s \in Seq(S), NEW x \in S
    PROVE  Rearranged(s, <<x>> \o s, 1, {})
<1> DEFINE c == <<x>> \o s
           from == [j \in 1..Len(c) |-> j - 1]
<1>1. PICK n \in Nat : n = Len(s)
  OBVIOUS
<1>2. /\ Len(c) = n + 1
      /\ \A i \in 2..(n + 1) : c[i] = s[i - 1]
  BY <1>1, ConsElements
<1> HIDE DEF c
<1>3. from \in [1..Len(c) -> Int] /\ \A j \in 1..Len(c) : from[j] = j - 1
  BY <1>1, <1>2
<1>4. \A j \in 1..Len(c) : j # 1 => from[j] \in 1..Len(s) /\ from[j] \notin {} /\ c[j] = s[from[j]]
  BY <1>1, <1>2, <1>3
<1>5. \A j, k \in 1..Len(c) : from[j] = from[k] => j = k
  BY <1>1, <1>2, <1>3
<1>6. ASSUME NEW i \in 1..Len(s) PROVE \E j \in 1..Len(c) : j # 1 /\ from[j] = i
  <2>1. i + 1 \in 1..Len(c) /\ i + 1 # 1 /\ (i + 1) - 1 = i
    BY <1>1, <1>2
  <2>2. from[i + 1] = i
    BY <1>3, <2>1
  <2> QED
    BY <2>1, <2>2
<1> HIDE DEF from
<1>7. Rearranged(s, c, 1, {})
  <2>1. /\ \A j \in 1..Len(c) : j # 1 =>
              from[j] \in 1..Len(s) /\ from[j] \notin {} /\ c[j] = s[from[j]]
        /\ \A j, i \in 1..Len(c) : j # 1 /\ i # 1 /\ from[j] = from[i] => j = i
        /\ \A i \in 1..Len(s) : i \notin {} => \E j \in 1..Len(c) : j # 1 /\ from[j] = i
    BY <1>4, <1>5, <1>6
  <2> QED
    BY <1>3, <2>1, Zenon DEF Rearranged
<1> QED
  BY <1>7 DEF c

\* A node that is changed in place leaves the others.
LEMMA ChangeRearranges ==
    ASSUME NEW S, NEW s \in Seq(S), NEW k \in 1..Len(s), NEW x
    PROVE  Rearranged(s, [s EXCEPT ![k] = x], k, {k})
<1> DEFINE c == [s EXCEPT ![k] = x]
           from == [j \in 1..Len(c) |-> j]
<1>1. Len(c) = Len(s) /\ \A j \in 1..Len(s) : j # k => c[j] = s[j]
  OBVIOUS
<1>2. 1..Len(s) \subseteq Int
  OBVIOUS
<1> HIDE DEF c
<1>3. from \in [1..Len(c) -> Int] /\ \A j \in 1..Len(c) : from[j] = j
  BY <1>1, <1>2
<1> HIDE DEF from
<1>4. Rearranged(s, c, k, {k})
  BY <1>1, <1>3 DEF Rearranged
<1> QED
  BY <1>4 DEF c

\* Two nodes are deleted, at a and b in the old list, in either order.
TwoDeleted(list, list2, a, b) ==
    /\ Len(list2) = Len(list) - 2
    /\ \A j \in 1..(Len(list) - 2) :
          list2[j] = list[IF j < a THEN j ELSE IF j < b - 1 THEN j + 1 ELSE j + 2]

\* That is what two calls of delete_vm_rg_node() do.
LEMMA DeleteTwice ==
    ASSUME NEW S, NEW s \in Seq(S), NEW a \in 1..Len(s), NEW b \in 1..Len(s), a < b
    PROVE  /\ Delete(Delete(s, b), a) \in Seq(S) /\ TwoDeleted(s, Delete(Delete(s, b), a), a, b)
           /\ Delete(Delete(s, a), b - 1) \in Seq(S) /\ TwoDeleted(s, Delete(Delete(s, a), b - 1), a, b)
<1>0. PICK n \in Nat : n = Len(s) /\ a \in Nat /\ b \in Nat /\ 1 <= a /\ b <= n
  OBVIOUS
<1>1. Delete(Delete(s, b), a) \in Seq(S) /\ TwoDeleted(s, Delete(Delete(s, b), a), a, b)
  <2> DEFINE d == Delete(s, b)
             e == Delete(d, a)
  <2>1. /\ d \in Seq(S) /\ Len(d) = n - 1
        /\ \A i \in 1..(b - 1) : d[i] = s[i]
        /\ \A i \in b..(n - 1) : d[i] = s[i + 1]
    BY <1>0, DeleteElements
  <2> HIDE DEF d
  <2>2. a \in 1..Len(d)
    BY <1>0, <2>1
  <2>3. /\ e \in Seq(S) /\ Len(e) = n - 2
        /\ \A i \in 1..(a - 1) : e[i] = d[i]
        /\ \A i \in a..(n - 2) : e[i] = d[i + 1]
    <3>1. Len(d) - 1 = n - 2
      BY <1>0, <2>1
    <3>2. /\ e \in Seq(S) /\ Len(e) = Len(d) - 1
          /\ \A i \in 1..(a - 1) : e[i] = d[i]
          /\ \A i \in a..(Len(d) - 1) : e[i] = d[i + 1]
      BY <2>1, <2>2, DeleteElements
    <3> HIDE DEF e
    <3> QED
      BY <3>1, <3>2
  <2> HIDE DEF e
  <2>4. ASSUME NEW j \in 1..(n - 2)
        PROVE  e[j] = s[IF j < a THEN j ELSE IF j < b - 1 THEN j + 1 ELSE j + 2]
    <3>1. CASE j < a
      <4>1. j \in 1..(a - 1) /\ j \in 1..(b - 1)
        BY <1>0, <3>1
      <4> QED
        BY <2>1, <2>3, <3>1, <4>1
    <3>2. CASE ~(j < a) /\ j < b - 1
      <4>1. j \in a..(n - 2) /\ j + 1 \in 1..(b - 1)
        BY <1>0, <3>2
      <4> QED
        BY <2>1, <2>3, <3>2, <4>1
    <3>3. CASE ~(j < a) /\ ~(j < b - 1)
      <4>1. j \in a..(n - 2) /\ j + 1 \in b..(n - 1) /\ (j + 1) + 1 = j + 2
        BY <1>0, <3>3
      <4>2. e[j] = d[j + 1] /\ d[j + 1] = s[(j + 1) + 1]
        BY <2>1, <2>3, <4>1
      <4> QED
        BY <3>3, <4>1, <4>2
    <3> QED
      BY <3>1, <3>2, <3>3
  <2>5. e \in Seq(S) /\ TwoDeleted(s, e, a, b)
    BY <1>0, <2>3, <2>4 DEF TwoDeleted
  <2> QED
    BY <2>5 DEF d, e
<1>2. Delete(Delete(s, a), b - 1) \in Seq(S) /\ TwoDeleted(s, Delete(Delete(s, a), b - 1), a, b)
  <2> DEFINE d == Delete(s, a)
             e == Delete(d, b - 1)
  <2>1. /\ d \in Seq(S) /\ Len(d) = n - 1
        /\ \A i \in 1..(a - 1) : d[i] = s[i]
        /\ \A i \in a..(n - 1) : d[i] = s[i + 1]
    BY <1>0, DeleteElements
  <2> HIDE DEF d
  <2>2. b - 1 \in 1..Len(d)
    BY <1>0, <2>1
  <2>3. /\ e \in Seq(S) /\ Len(e) = n - 2
        /\ \A i \in 1..(b - 2) : e[i] = d[i]
        /\ \A i \in (b - 1)..(n - 2) : e[i] = d[i + 1]
    <3>1. Len(d) - 1 = n - 2 /\ (b - 1) - 1 = b - 2
      BY <1>0, <2>1
    <3>2. /\ e \in Seq(S) /\ Len(e) = Len(d) - 1
          /\ \A i \in 1..((b - 1) - 1) : e[i] = d[i]
          /\ \A i \in (b - 1)..(Len(d) - 1) : e[i] = d[i + 1]
      BY <2>1, <2>2, DeleteElements
    <3> HIDE DEF e
    <3> QED
      BY <3>1, <3>2
  <2> HIDE DEF e
  <2>4. ASSUME NEW j \in 1..(n - 2)
        PROVE  e[j] = s[IF j < a THEN j ELSE IF j < b - 1 THEN j + 1 ELSE j + 2]
    <3>1. CASE j < a
      <4>1. j \in 1..(a - 1) /\ j \in 1..(b - 2)
        BY <1>0, <3>1
      <4> QED
        BY <2>1, <2>3, <3>1, <4>1
    <3>2. CASE ~(j < a) /\ j < b - 1
      <4>1. j \in a..(n - 1) /\ j \in 1..(b - 2)
        BY <1>0, <3>2
      <4> QED
        BY <2>1, <2>3, <3>2, <4>1
    <3>3. CASE ~(j < a) /\ ~(j < b - 1)
      <4>1. j \in (b - 1)..(n - 2) /\ j + 1 \in a..(n - 1) /\ (j + 1) + 1 = j + 2
        BY <1>0, <3>3
      <4>2. e[j] = d[j + 1] /\ d[j + 1] = s[(j + 1) + 1]
        BY <2>1, <2>3, <4>1
      <4> QED
        BY <3>3, <4>1, <4>2
    <3> QED
      BY <3>1, <3>2, <3>3
  <2>5. e \in Seq(S) /\ TwoDeleted(s, e, a, b)
    BY <1>0, <2>3, <2>4 DEF TwoDeleted
  <2> QED
    BY <2>5 DEF d, e
<1> QED
  BY <1>1, <1>2

\* A node takes the place of two, at the head of the list.
LEMMA ReplaceTwoRearranges ==
    ASSUME NEW S, NEW s \in Seq(S), NEW a \in 1..Len(s), NEW b \in 1..Len(s), a < b,
           NEW e \in Seq(S), TwoDeleted(s, e, a, b), NEW x \in S
    PROVE  /\ <<x>> \o e \in Seq(S) /\ 1 \in 1..Len(<<x>> \o e) /\ (<<x>> \o e)[1] = x
           /\ Rearranged(s, <<x>> \o e, 1, {a, b})
<1> DEFINE c == <<x>> \o e
           At(j) == IF j < a THEN j ELSE IF j < b - 1 THEN j + 1 ELSE j + 2
           from == [j \in 1..Len(c) |-> At(j - 1)]
<1>0. PICK n \in Nat : n = Len(s) /\ a \in Nat /\ b \in Nat /\ 1 <= a /\ b <= n
  OBVIOUS
<1>1. Len(e) = n - 2 /\ \A j \in 1..(n - 2) : e[j] = s[At(j)]
  BY <1>0 DEF TwoDeleted
<1>2. /\ c \in Seq(S) /\ Len(c) = (n - 2) + 1 /\ c[1] = x
      /\ \A i \in 2..((n - 2) + 1) : c[i] = e[i - 1]
  BY <1>1, ConsElements
<1> HIDE DEF c
<1>3. Len(c) = n - 1 /\ 1 \in 1..Len(c)
  BY <1>0, <1>2
<1>4. ASSUME NEW j \in 1..(n - 1) PROVE At(j - 1) \in Int
  BY <1>0
<1>5. from \in [1..Len(c) -> Int] /\ \A j \in 1..Len(c) : from[j] = At(j - 1)
  BY <1>3, <1>4
<1> HIDE DEF from
<1>6. ASSUME NEW j \in 1..Len(c), j # 1
      PROVE  from[j] \in 1..Len(s) /\ from[j] \notin {a, b} /\ c[j] = s[from[j]]
  <2>1. j - 1 \in 1..(n - 2) /\ j \in 2..((n - 2) + 1)
    BY <1>0, <1>3, <1>6
  <2>2. At(j - 1) \in 1..n /\ At(j - 1) # a /\ At(j - 1) # b
    BY <1>0, <2>1
  <2> QED
    BY <1>0, <1>1, <1>2, <1>5, <2>1, <2>2
<1>7. ASSUME NEW j \in 1..Len(c), NEW k \in 1..Len(c), from[j] = from[k] PROVE j = k
  <2>1. At(j - 1) = At(k - 1)
    BY <1>5, <1>7
  <2> QED
    BY <1>0, <1>3, <2>1
<1>8. ASSUME NEW i \in 1..Len(s), i \notin {a, b} PROVE \E j \in 1..Len(c) : j # 1 /\ from[j] = i
  <2>1. CASE i < a
    <3>1. i + 1 \in 1..Len(c) /\ i + 1 # 1 /\ (i + 1) - 1 = i
      BY <1>0, <1>3, <2>1
    <3>2. from[i + 1] = i
      BY <1>5, <2>1, <3>1
    <3> QED
      BY <3>1, <3>2
  <2>2. CASE a < i /\ i < b
    <3>1. i \in 1..Len(c) /\ i # 1 /\ At(i - 1) = i
      BY <1>0, <1>3, <2>2
    <3>2. from[i] = i
      BY <1>5, <3>1
    <3> QED
      BY <3>1, <3>2
  <2>3. CASE b < i
    <3>1. i - 1 \in 1..Len(c) /\ i - 1 # 1 /\ At((i - 1) - 1) = i
      BY <1>0, <1>3, <2>3
    <3>2. from[i - 1] = i
      BY <1>5, <3>1
    <3> QED
      BY <3>1, <3>2
  <2> QED
    BY <1>0, <1>8, <2>1, <2>2, <2>3
<1>9. Rearranged(s, c, 1, {a, b})
  <2>1. /\ \A j \in 1..Len(c) : j # 1 =>
              from[j] \in 1..Len(s) /\ from[j] \notin {a, b} /\ c[j] = s[from[j]]
        /\ \A j, k \in 1..Len(c) : j # 1 /\ k # 1 /\ from[j] = from[k] => j = k
        /\ \A i \in 1..Len(s) : i \notin {a, b} => \E j \in 1..Len(c) : j # 1 /\ from[j] = i
    BY <1>6, <1>7, <1>8
  <2> QED
    BY <1>5, <2>1, Zenon DEF Rearranged
<1> QED
  BY <1>2, <1>3, <1>9 DEF c

\* get_free_vmrg_area() finds a region with room.
LEMMA FirstFits ==
    ASSUME NEW list \in Seq(NatRegion), NEW size, Fits(list, size) # {}
    PROVE  First(Fits(list, size)) \in Fits(list, size)
<1>1. Fits(list, size) \in SUBSET Nat
  BY DEF Fits
<1>2. \E i \in Fits(list, size) : \A j \in Fits(list, size) : i <= j
  BY <1>1, LeastElement
<1> QED
  BY <1>2 DEF First

\* The loop of enlist_vm_freerg_list() finds a neighbour if there is one.
LEMMA LastMatches ==
    ASSUME NEW list \in Seq(NatRegion), NEW S \in SUBSET (1..Len(list)), S # {}
    PROVE  Last(S) \in S
<1>1. PICK n \in Nat : n = Len(list)
  OBVIOUS
<1>2. S \in SUBSET (0..n)
  BY <1>1
<1>3. \E i \in S : \A j \in S : j <= i
  BY <1>2, GreatestElement
<1> QED
  BY <1>3 DEF Last

\* The free list after the front of region i is given away: what is left of i is
\* at m, or nothing is left and m is 0.
TakenAt(list, list2, i, size, m) ==
    /\ list2 \in Seq(NatRegion)
    /\ Rearranged(list, list2, m, {i})
    /\ \/ m = 0 /\ list[i].rg_start + size = list[i].rg_end
       \/ /\ m \in 1..Len(list2)
          /\ list2[m] = [rg_start |-> list[i].rg_start + size, rg_end |-> list[i].rg_end]
          /\ list[i].rg_start + size < list[i].rg_end

\* get_free_vmrg_area() takes the front of a free region.
LEMMA TakenRearranges ==
    ASSUME NEW list \in Seq(NatRegion), NEW size \in Nat, NEW i \in Fits(list, size)
    PROVE  \E m \in Nat : TakenAt(list, Taken(list, i, size), i, size, m)
<1>1. /\ i \in 1..Len(list) /\ list[i] \in NatRegion
      /\ list[i].rg_start + size <= list[i].rg_end
  BY DEF Fits
<1>2. PICK a \in Nat, b \in Nat : list[i] = [rg_start |-> a, rg_end |-> b]
  BY <1>1 DEF NatRegion
<1>3. a + size <= b
  BY <1>1, <1>2
<1>4. CASE a + size < b
  <2> DEFINE x == [rg_start |-> a + size, rg_end |-> b]
  <2>1. x \in NatRegion
    BY <1>4 DEF NatRegion
  <2>2. Taken(list, i, size) = [list EXCEPT ![i] = x]
    <3>1. [list[i] EXCEPT !.rg_start = @ + size] = x
      BY <1>2
    <3>2. [list EXCEPT ![i].rg_start = @ + size] = [list EXCEPT ![i] = [list[i] EXCEPT !.rg_start = @ + size]]
      BY <1>1
    <3>3. Taken(list, i, size) = [list EXCEPT ![i].rg_start = @ + size]
      BY <1>2, <1>4 DEF Taken
    <3> QED
      BY <3>1, <3>2, <3>3
  <2> HIDE DEF x
  <2>3. [list EXCEPT ![i] = x] \in Seq(NatRegion) /\ Len([list EXCEPT ![i] = x]) = Len(list)
        /\ [list EXCEPT ![i] = x][i] = x
    BY <1>1, <2>1
  <2>4. Rearranged(list, [list EXCEPT ![i] = x], i, {i})
    BY <1>1, ChangeRearranges
  <2>5. TakenAt(list, Taken(list, i, size), i, size, i)
    BY <1>1, <1>2, <1>4, <2>2, <2>3, <2>4 DEF TakenAt, x
  <2> QED
    BY <1>1, <2>5
<1>5. CASE a + size = b
  <2>1. Taken(list, i, size) = Delete(list, i)
    BY <1>2, <1>5 DEF Taken
  <2>2. Delete(list, i) \in Seq(NatRegion) /\ Rearranged(list, Delete(list, i), 0, {i})
    BY <1>1, DeleteElements, DeleteRearranges
  <2>3. TakenAt(list, Taken(list, i, size), i, size, 0)
    BY <1>2, <1>5, <2>1, <2>2 DEF TakenAt
  <2> QED
    BY <2>3
<1> QED
  BY <1>2, <1>3, <1>4, <1>5

\* The free list after region rg was freed: it is at m, merged with the regions in
\* gone, and nothing is left that it could be merged with.
MergedAt(list, list2, rg, m, gone) ==
    /\ list2 \in Seq(NatRegion)
    /\ m \in 1..Len(list2)
    /\ gone \subseteq 1..Len(list)
    /\ Rearranged(list, list2, m, gone)
    /\ list2[m].rg_start < list2[m].rg_end
    /\ \A b : b \in Bytes(list2[m]) <=> b \in Bytes(rg) \/ \E i \in gone : b \in Bytes(list[i])
    /\ \/ list2[m].rg_start = rg.rg_start /\ MergeDown(list, rg) = {}
       \/ \E i \in gone : list2[m].rg_start = list[i].rg_start
    /\ \/ list2[m].rg_end = rg.rg_end /\ MergeUp(list, rg) = {}
       \/ \E i \in gone : list2[m].rg_end = list[i].rg_end

\* enlist_vm_freerg_list() merges the region with the neighbours that it finds.
LEMMA EnlistedMerges ==
    ASSUME NEW list \in Seq(NatRegion), NEW rg \in NatRegion, rg.rg_start < rg.rg_end,
           \A i \in 1..Len(list) : list[i].rg_start < list[i].rg_end
    PROVE  \E m, gone : MergedAt(list, Enlisted(list, rg), rg, m, gone)
<1> DEFINE up == MergeUp(list, rg)
           down == MergeDown(list, rg)
<1>0. up \in SUBSET (1..Len(list)) /\ down \in SUBSET (1..Len(list))
  BY DEF MergeUp, MergeDown
<1>1. PICK s \in Nat, e \in Nat : rg = [rg_start |-> s, rg_end |-> e] /\ s < e
  BY DEF NatRegion
<1>2. CASE up # {} /\ down = {}
  <2>1. PICK u \in 1..Len(list) : u = Last(up) /\ list[u].rg_start = e
    BY <1>0, <1>1, <1>2, LastMatches DEF MergeUp
  <2>2. PICK f \in Nat : list[u] = [rg_start |-> e, rg_end |-> f] /\ e < f
    <3>1. list[u] \in NatRegion /\ list[u].rg_start < list[u].rg_end
      OBVIOUS
    <3> QED
      BY <2>1, <3>1 DEF NatRegion
  <2> DEFINE x == [rg_start |-> s, rg_end |-> f]
             l2 == [list EXCEPT ![u] = x]
  <2>3. Enlisted(list, rg) = l2
    <3>1. Enlisted(list, rg) = [list EXCEPT ![u].rg_start = s]
      BY <1>1, <1>2, <2>1 DEF Enlisted
    <3>2. [list EXCEPT ![u].rg_start = s] = [list EXCEPT ![u] = [list[u] EXCEPT !.rg_start = s]]
      OBVIOUS
    <3>3. [list[u] EXCEPT !.rg_start = s] = x
      BY <2>2
    <3> QED
      BY <3>1, <3>2, <3>3
  <2>4. x \in NatRegion /\ s < f
    BY <1>1, <2>2 DEF NatRegion
  <2>5. l2 \in Seq(NatRegion) /\ Len(l2) = Len(list) /\ l2[u] = x
    BY <2>4
  <2>6. Rearranged(list, l2, u, {u})
    BY ChangeRearranges
  <2>7. \A b : b \in Bytes(x) <=> b \in Bytes(rg) \/ \E i \in {u} : b \in Bytes(list[i])
    <3>1. Bytes(x) = s..(f - 1) /\ Bytes(rg) = s..(e - 1) /\ Bytes(list[u]) = e..(f - 1)
      BY <1>1, <2>2 DEF Bytes
    <3>2. s..(f - 1) = (s..(e - 1)) \cup (e..(f - 1))
      BY <1>1, <2>2
    <3> QED
      BY <3>1, <3>2
  <2>8. x.rg_start = rg.rg_start /\ x.rg_end = list[u].rg_end /\ x.rg_start < x.rg_end
    BY <1>1, <2>2, <2>4
  <2> HIDE DEF x, l2
  <2>9. MergedAt(list, l2, rg, u, {u})
    BY <1>2, <2>5, <2>6, <2>7, <2>8 DEF MergedAt
  <2> QED
    BY <2>3, <2>9
<1>3. CASE up = {} /\ down # {}
  <2>1. PICK d \in 1..Len(list) : d = Last(down) /\ list[d].rg_end = s
    BY <1>0, <1>1, <1>3, LastMatches DEF MergeDown
  <2>2. PICK f \in Nat : list[d] = [rg_start |-> f, rg_end |-> s] /\ f < s
    <3>1. list[d] \in NatRegion /\ list[d].rg_start < list[d].rg_end
      OBVIOUS
    <3> QED
      BY <2>1, <3>1 DEF NatRegion
  <2> DEFINE x == [rg_start |-> f, rg_end |-> e]
             l2 == [list EXCEPT ![d] = x]
  <2>3. Enlisted(list, rg) = l2
    <3>1. Enlisted(list, rg) = [list EXCEPT ![d].rg_end = e]
      BY <1>1, <1>3, <2>1 DEF Enlisted
    <3>2. [list EXCEPT ![d].rg_end = e] = [list EXCEPT ![d] = [list[d] EXCEPT !.rg_end = e]]
      OBVIOUS
    <3>3. [list[d] EXCEPT !.rg_end = e] = x
      BY <2>2
    <3> QED
      BY <3>1, <3>2, <3>3
  <2>4. x \in NatRegion /\ f < e
    BY <1>1, <2>2 DEF NatRegion
  <2>5. l2 \in Seq(NatRegion) /\ Len(l2) = Len(list) /\ l2[d] = x
    BY <2>4
  <2>6. Rearranged(list, l2, d, {d})
    BY ChangeRearranges
  <2>7. \A b : b \in Bytes(x) <=> b \in Bytes(rg) \/ \E i \in {d} : b \in Bytes(list[i])
    <3>1. Bytes(x) = f..(e - 1) /\ Bytes(rg) = s..(e - 1) /\ Bytes(list[d]) = f..(s - 1)
      BY <1>1, <2>2 DEF Bytes
    <3>2. f..(e - 1) = (f..(s - 1)) \cup (s..(e - 1))
      BY <1>1, <2>2
    <3> QED
      BY <3>1, <3>2
  <2>8. x.rg_start = list[d].rg_start /\ x.rg_end = rg.rg_end /\ x.rg_start < x.rg_end
    BY <1>1, <2>2, <2>4
  <2> HIDE DEF x, l2
  <2>9. MergedAt(list, l2, rg, d, {d})
    BY <1>3, <2>5, <2>6, <2>7, <2>8 DEF MergedAt
  <2> QED
    BY <2>3, <2>9
<1>4. CASE up # {} /\ down # {}
  <2>1. PICK u \in 1..Len(list) : u = Last(up) /\ list[u].rg_start = e
    BY <1>0, <1>1, <1>4, LastMatches DEF MergeUp
  <2>2. PICK d \in 1..Len(list) : d = Last(down) /\ list[d].rg_end = s
    BY <1>0, <1>1, <1>4, LastMatches DEF MergeDown
  <2>3. PICK f \in Nat, g \in Nat :
             /\ list[d] = [rg_start |-> f, rg_end |-> s] /\ f < s
             /\ list[u] = [rg_start |-> e, rg_end |-> g] /\ e < g
    <3>1. list[d] \in NatRegion /\ list[d].rg_start < list[d].rg_end
      OBVIOUS
    <3>2. list[u] \in NatRegion /\ list[u].rg_start < list[u].rg_end
      OBVIOUS
    <3>3. PICK f \in Nat : list[d] = [rg_start |-> f, rg_end |-> s] /\ f < s
      BY <2>2, <3>1 DEF NatRegion
    <3>4. PICK g \in Nat : list[u] = [rg_start |-> e, rg_end |-> g] /\ e < g
      BY <2>1, <3>2 DEF NatRegion
    <3> QED
      BY <3>3, <3>4
  <2> DEFINE x == [rg_start |-> f, rg_end |-> g]
  <2>4. x \in NatRegion /\ f < g /\ u # d
    BY <1>1, <2>3 DEF NatRegion
  <2>5. Enlisted(list, rg) = <<x>> \o Delete(Delete(list, u), IF d < u THEN d ELSE d - 1)
    <3>1. Enlisted(list, rg) = MergeBoth(list, u, d)
      BY <1>1, <1>4, <2>1, <2>2 DEF Enlisted
    <3> QED
      BY <2>3, <3>1 DEF MergeBoth
  <2>6. \A b : b \in Bytes(x) <=> b \in Bytes(rg) \/ \E i \in {u, d} : b \in Bytes(list[i])
    <3>1. /\ Bytes(x) = f..(g - 1) /\ Bytes(rg) = s..(e - 1)
          /\ Bytes(list[d]) = f..(s - 1) /\ Bytes(list[u]) = e..(g - 1)
      BY <1>1, <2>3 DEF Bytes
    <3>2. f..(g - 1) = (f..(s - 1)) \cup (s..(e - 1)) \cup (e..(g - 1))
      BY <1>1, <2>3
    <3> QED
      BY <3>1, <3>2
  <2>7. x.rg_start = list[d].rg_start /\ x.rg_end = list[u].rg_end /\ x.rg_start < x.rg_end
    BY <2>3, <2>4
  <2> HIDE DEF x
  <2> DEFINE l2 == Enlisted(list, rg)
  <2>8. /\ l2 \in Seq(NatRegion) /\ 1 \in 1..Len(l2) /\ l2[1] = x
        /\ Rearranged(list, l2, 1, {u, d})
    <3>1. CASE d < u
      <4> DEFINE t == Delete(Delete(list, u), d)
      <4>1. l2 = <<x>> \o t
        BY <2>5, <3>1
      <4>2. t \in Seq(NatRegion) /\ TwoDeleted(list, t, d, u)
        BY <3>1, DeleteTwice
      <4> HIDE DEF t, l2
      <4>3. /\ <<x>> \o t \in Seq(NatRegion) /\ 1 \in 1..Len(<<x>> \o t) /\ (<<x>> \o t)[1] = x
            /\ Rearranged(list, <<x>> \o t, 1, {d, u})
        BY <2>4, <3>1, <4>2, ReplaceTwoRearranges
      <4>4. {u, d} = {d, u}
        OBVIOUS
      <4> QED
        BY <4>1, <4>3, <4>4
    <3>2. CASE u < d
      <4> DEFINE t == Delete(Delete(list, u), d - 1)
      <4>1. l2 = <<x>> \o t
        BY <2>5, <3>2
      <4>2. t \in Seq(NatRegion) /\ TwoDeleted(list, t, u, d)
        BY <3>2, DeleteTwice
      <4> HIDE DEF t, l2
      <4>3. /\ <<x>> \o t \in Seq(NatRegion) /\ 1 \in 1..Len(<<x>> \o t) /\ (<<x>> \o t)[1] = x
            /\ Rearranged(list, <<x>> \o t, 1, {u, d})
        BY <2>4, <3>2, <4>2, ReplaceTwoRearranges
      <4> QED
        BY <4>1, <4>3
    <3> QED
      BY <2>4, <3>1, <3>2
  <2> HIDE DEF l2
  <2>9. MergedAt(list, l2, rg, 1, {u, d})
    BY <2>6, <2>7, <2>8 DEF MergedAt
  <2> QED
    BY <2>9 DEF l2
<1>5. CASE up = {} /\ down = {}
  <2>1. Enlisted(list, rg) = <<rg>> \o list
    BY <1>1, <1>5 DEF Enlisted
  <2>2. <<rg>> \o list \in Seq(NatRegion) /\ 1 \in 1..Len(<<rg>> \o list) /\ (<<rg>> \o list)[1] = rg
    BY ConsElements
  <2>3. Rearranged(list, <<rg>> \o list, 1, {})
    BY ConsRearranges
  <2>4. MergedAt(list, <<rg>> \o list, rg, 1, {})
    BY <1>5, <2>2, <2>3 DEF MergedAt
  <2> QED
    BY <2>1, <2>4
<1> QED
  BY <1>2, <1>3, <1>4, <1>5

-----------------------------------------------------------------------------
(* Areas: the symbol table sym of the indices R, the free list, the bytes    *)
(* that were lost, and the break brk                                         *)

\* No region ends before it begins or beyond the break; a free one is not empty.
AreaShape(R, sym, list, brk) ==
    /\ sym \in [R -> NatRegion]
    /\ list \in Seq(NatRegion)
    /\ brk \in Nat
    /\ \A r \in R : sym[r].rg_start <= sym[r].rg_end /\ sym[r].rg_end <= brk
    /\ \A i \in 1..Len(list) : list[i].rg_start < list[i].rg_end /\ list[i].rg_end <= brk

\* No byte is in two regions in use,
UsedApart(R, sym) == \A r, s \in R : r # s => Bytes(sym[r]) \cap Bytes(sym[s]) = {}

\* in two free ones,
FreeApart(list) == \A i, j \in 1..Len(list) : i # j => Bytes(list[i]) \cap Bytes(list[j]) = {}

\* in one of each,
UsedNotFree(R, sym, list) ==
    \A r \in R, i \in 1..Len(list) : Bytes(sym[r]) \cap Bytes(list[i]) = {}

\* or in one of them and lost;
UsedNotLost(R, sym, lost) == \A r \in R : Bytes(sym[r]) \cap lost = {}

FreeNotLost(list, lost) == \A i \in 1..Len(list) : Bytes(list[i]) \cap lost = {}

\* and every byte below the break is in one.
InUse(R, sym, b) == \E r \in R : b \in Bytes(sym[r])

IsFree(list, b) == \E i \in 1..Len(list) : b \in Bytes(list[i])

Covered(R, sym, list, lost, brk) ==
    \A b \in 0..(brk - 1) : InUse(R, sym, b) \/ IsFree(list, b) \/ b \in lost

AreaApart(R, sym, list, lost, brk) ==
    /\ UsedApart(R, sym) /\ FreeApart(list) /\ UsedNotFree(R, sym, list)
    /\ UsedNotLost(R, sym, lost) /\ FreeNotLost(list, lost)
    /\ Covered(R, sym, list, lost, brk) /\ lost \subseteq 0..(brk - 1)

\* No two free regions touch.
NoneTouch(list) == \A i, j \in 1..Len(list) : list[i].rg_end # list[j].rg_start

AreaInv(R, sym, list, lost, brk) ==
    AreaShape(R, sym, list, brk) /\ AreaApart(R, sym, list, lost, brk) /\ NoneTouch(list)

\* The shape, in the forms that the provers take.
LEMMA ShapeFacts ==
    ASSUME NEW R, NEW sym, NEW list, NEW brk, AreaShape(R, sym, list, brk)
    PROVE  /\ sym \in [R -> NatRegion] /\ list \in Seq(NatRegion) /\ brk \in Nat
           /\ \A r \in R :
                 /\ sym[r] \in NatRegion /\ sym[r].rg_start \in Nat /\ sym[r].rg_end \in Nat
                 /\ sym[r].rg_start <= sym[r].rg_end /\ sym[r].rg_end <= brk
                 /\ Bytes(sym[r]) \subseteq 0..(brk - 1)
           /\ \A i \in 1..Len(list) :
                 /\ list[i] \in NatRegion /\ list[i].rg_start \in Nat /\ list[i].rg_end \in Nat
                 /\ list[i].rg_start < list[i].rg_end /\ list[i].rg_end <= brk
                 /\ Bytes(list[i]) \subseteq 0..(brk - 1)
<1>1. sym \in [R -> NatRegion] /\ list \in Seq(NatRegion) /\ brk \in Nat
  BY DEF AreaShape
<1>2. ASSUME NEW x \in NatRegion PROVE x.rg_start \in Nat /\ x.rg_end \in Nat
  BY DEF NatRegion
<1>3. ASSUME NEW x \in NatRegion, x.rg_end <= brk PROVE Bytes(x) \subseteq 0..(brk - 1)
  BY <1>1, <1>2, <1>3 DEF Bytes
<1>4. ASSUME NEW r \in R
      PROVE  sym[r] \in NatRegion /\ sym[r].rg_start <= sym[r].rg_end /\ sym[r].rg_end <= brk
  BY <1>1 DEF AreaShape
<1>5. ASSUME NEW i \in 1..Len(list)
      PROVE  list[i] \in NatRegion /\ list[i].rg_start < list[i].rg_end /\ list[i].rg_end <= brk
  BY <1>1 DEF AreaShape
<1> QED
  BY <1>1, <1>2, <1>3, <1>4, <1>5

\* The region of index r becomes [a, b].
RegionSet(R, sym, sym2, r, a, b) ==
    /\ sym2 \in [R -> NatRegion]
    /\ sym2[r].rg_start = a /\ sym2[r].rg_end = b
    /\ Bytes(sym2[r]) = a..(b - 1)
    /\ \A s \in R : s # r => sym2[s] = sym[s]

\* An entry of the symbol table is replaced.
LEMMA RegionSetFacts ==
    ASSUME NEW R, NEW sym \in [R -> NatRegion], NEW r \in R, NEW a \in Nat, NEW b \in Nat,
           NEW sym2, sym2 = [sym EXCEPT ![r] = [rg_start |-> a, rg_end |-> b]]
    PROVE  RegionSet(R, sym, sym2, r, a, b)
<1> DEFINE x == [rg_start |-> a, rg_end |-> b]
<1>1. x \in NatRegion /\ x.rg_start = a /\ x.rg_end = b /\ Bytes(x) = a..(b - 1)
  BY DEF NatRegion, Bytes
<1>2. sym2 = [sym EXCEPT ![r] = x]
  OBVIOUS
<1> HIDE DEF x
<1> QED
  BY <1>1, <1>2 DEF RegionSet

\* FREE sets it to [0, 0].
LEMMA RegionCleared ==
    ASSUME NEW R, NEW sym, NEW list, NEW brk, AreaShape(R, sym, list, brk),
           NEW r \in R, NEW sym2, sym2 = [sym EXCEPT ![r] = NoRegion]
    PROVE  RegionSet(R, sym, sym2, r, 0, 0) /\ Bytes(sym2[r]) = {} /\ AreaShape(R, sym2, list, brk)
<1>1. RegionSet(R, sym, sym2, r, 0, 0)
  BY ShapeFacts, RegionSetFacts DEF NoRegion
<1>2. 0..(0 - 1) = {}
  OBVIOUS
<1>3. Bytes(sym2[r]) = {}
  BY <1>1, <1>2 DEF RegionSet
<1>4. brk \in Nat
  BY ShapeFacts
<1>5. ASSUME NEW s \in R PROVE sym2[s].rg_start <= sym2[s].rg_end /\ sym2[s].rg_end <= brk
  <2>1. CASE s = r
    BY <1>1, <1>4, <2>1 DEF RegionSet
  <2>2. CASE s # r
    BY <1>1, <2>2, ShapeFacts DEF RegionSet
  <2> QED
    BY <2>1, <2>2
<1> QED
  BY <1>1, <1>3, <1>5 DEF RegionSet, AreaShape

\* pgalloc() in the first free region that fits cuts its bytes out of that region.
LEMMA AreaTaken ==
    ASSUME NEW R, NEW sym, NEW list, NEW lost, NEW brk, AreaInv(R, sym, list, lost, brk),
           NEW r \in R, NEW size \in Nat \ {0}, Fits(list, size) # {},
           NEW i, i = First(Fits(list, size)), NEW sym2, NEW list2, NEW lost2,
           sym2 = [sym EXCEPT ![r] = [rg_start |-> list[i].rg_start, rg_end |-> list[i].rg_start + size]],
           list2 = Taken(list, i, size), lost2 = lost \cup Bytes(sym[r])
    PROVE  AreaInv(R, sym2, list2, lost2, brk)
<1>0. AreaShape(R, sym, list, brk) /\ AreaApart(R, sym, list, lost, brk) /\ NoneTouch(list)
  BY DEF AreaInv
<1>1. list \in Seq(NatRegion) /\ size \in Nat /\ size > 0 /\ sym \in [R -> NatRegion]
  BY <1>0, ShapeFacts
<1>2. i \in Fits(list, size)
  BY <1>1, FirstFits
<1>3. i \in 1..Len(list) /\ list[i].rg_start + size <= list[i].rg_end
  BY <1>2 DEF Fits
<1>4. PICK a \in Nat, e \in Nat : /\ a = list[i].rg_start /\ e = list[i].rg_end
                                  /\ a + size <= e /\ e <= brk
  BY <1>0, <1>3, ShapeFacts
<1> DEFINE c == a + size
<1>5. a \in Nat /\ e \in Nat /\ c \in Nat /\ a < c /\ c <= e /\ c <= brk
  <2>1. brk \in Nat
    BY <1>0, ShapeFacts
  <2> QED
    BY <1>1, <1>4, <2>1
<1>6. sym2 = [sym EXCEPT ![r] = [rg_start |-> a, rg_end |-> c]]
  BY <1>4
<1> HIDE DEF c
<1>7. /\ sym2 \in [R -> NatRegion]
      /\ sym2[r].rg_start = a /\ sym2[r].rg_end = c
      /\ Bytes(sym2[r]) = a..(c - 1)
      /\ \A s \in R : s # r => sym2[s] = sym[s]
  <2>1. RegionSet(R, sym, sym2, r, a, c)
    BY <1>1, <1>5, <1>6, RegionSetFacts
  <2> QED
    BY <2>1 DEF RegionSet
<1>8. PICK m \in Nat : TakenAt(list, list2, i, size, m)
  BY <1>1, <1>2, TakenRearranges
<1>9. PICK from \in [1..Len(list2) -> Int] :
           /\ \A j \in 1..Len(list2) : j # m =>
                 from[j] \in 1..Len(list) /\ from[j] \notin {i} /\ list2[j] = list[from[j]]
           /\ \A j, k \in 1..Len(list2) : j # m /\ k # m /\ from[j] = from[k] => j = k
           /\ \A k \in 1..Len(list) : k \notin {i} => \E j \in 1..Len(list2) : j # m /\ from[j] = k
  BY <1>8 DEF TakenAt, Rearranged
<1>10. /\ list2 \in Seq(NatRegion)
       /\ \/ m = 0 /\ c = e
          \/ /\ m \in 1..Len(list2) /\ m # 0 /\ list2[m].rg_start = c /\ list2[m].rg_end = e /\ c < e
  BY <1>4, <1>8 DEF TakenAt, c
<1>11. /\ Bytes(list[i]) = a..(e - 1)
       /\ m # 0 => Bytes(list2[m]) = c..(e - 1)
  BY <1>4, <1>10 DEF Bytes
<1>12. /\ Bytes(sym2[r]) \subseteq Bytes(list[i])
       /\ m # 0 => /\ Bytes(list2[m]) \subseteq Bytes(list[i])
                   /\ Bytes(list2[m]) \cap Bytes(sym2[r]) = {}
       /\ \A b \in Bytes(list[i]) : b \in Bytes(sym2[r]) \/ (m # 0 /\ b \in Bytes(list2[m]))
  <2>1. /\ a..(c - 1) \subseteq a..(e - 1) /\ c..(e - 1) \subseteq a..(e - 1)
        /\ (c..(e - 1)) \cap (a..(c - 1)) = {}
        /\ \A b \in a..(e - 1) : b \in a..(c - 1) \/ (b \in c..(e - 1) /\ c # e)
    BY <1>5
  <2> QED
    BY <1>7, <1>10, <1>11, <2>1
<1> DEFINE Src(j) == IF j = m THEN i ELSE from[j]
<1>13. \A j \in 1..Len(list2) :
          Src(j) \in 1..Len(list) /\ Bytes(list2[j]) \subseteq Bytes(list[Src(j)]) /\ (Src(j) = i => j = m)
  <2> SUFFICES ASSUME NEW j \in 1..Len(list2)
               PROVE  /\ Src(j) \in 1..Len(list) /\ Bytes(list2[j]) \subseteq Bytes(list[Src(j)])
                      /\ Src(j) = i => j = m
    OBVIOUS
  <2>1. CASE j = m
    <3>1. m # 0
      BY <2>1
    <3> QED
      BY <1>3, <1>12, <2>1, <3>1
  <2>2. CASE j # m
    BY <1>9, <2>2
  <2> QED
    BY <2>1, <2>2
<1>14. \A j, k \in 1..Len(list2) : j # k => Src(j) # Src(k)
  BY <1>9
<1> HIDE DEF Src
<1>15. AreaShape(R, sym2, list2, brk)
  <2>1. ASSUME NEW s \in R PROVE sym2[s].rg_start <= sym2[s].rg_end /\ sym2[s].rg_end <= brk
    <3>1. CASE s = r
      BY <1>5, <1>7, <3>1
    <3>2. CASE s # r
      BY <1>0, <1>7, <3>2, ShapeFacts
    <3> QED
      BY <3>1, <3>2
  <2>2. ASSUME NEW j \in 1..Len(list2) PROVE list2[j].rg_start < list2[j].rg_end /\ list2[j].rg_end <= brk
    <3>1. CASE j = m
      BY <1>4, <1>10, <3>1
    <3>2. CASE j # m
      <4>1. PICK f \in 1..Len(list) : f # i /\ list2[j] = list[f]
        BY <1>9, <3>2
      <4> QED
        BY <1>0, <4>1, ShapeFacts
    <3> QED
      BY <3>1, <3>2
  <2> QED
    BY <1>0, <1>7, <1>10, <2>1, <2>2 DEF AreaShape
<1>16. AreaApart(R, sym2, list2, lost2, brk)
  <2>1. UsedApart(R, sym2)
    BY <1>0, <1>3, <1>7, <1>12 DEF AreaApart, UsedApart, UsedNotFree
  <2>2. FreeApart(list2)
    <3> SUFFICES ASSUME NEW j \in 1..Len(list2), NEW k \in 1..Len(list2), j # k
                 PROVE  Bytes(list2[j]) \cap Bytes(list2[k]) = {}
      BY DEF FreeApart
    <3>1. Src(j) \in 1..Len(list) /\ Src(k) \in 1..Len(list) /\ Src(j) # Src(k)
      BY <1>13, <1>14
    <3>2. Bytes(list[Src(j)]) \cap Bytes(list[Src(k)]) = {}
      BY <1>0, <3>1 DEF AreaApart, FreeApart
    <3> QED
      BY <1>13, <3>2
  <2>3. UsedNotFree(R, sym2, list2)
    <3> SUFFICES ASSUME NEW s \in R, NEW j \in 1..Len(list2) PROVE Bytes(sym2[s]) \cap Bytes(list2[j]) = {}
      BY DEF UsedNotFree
    <3>1. CASE s # r
      BY <1>0, <1>7, <1>13, <3>1 DEF AreaApart, UsedNotFree
    <3>2. CASE s = r /\ j = m
      BY <1>10, <1>12, <3>2
    <3>3. CASE s = r /\ j # m
      <4>1. Bytes(list[i]) \cap Bytes(list[Src(j)]) = {}
        BY <1>0, <1>3, <1>13, <3>3 DEF AreaApart, FreeApart
      <4> QED
        BY <1>12, <1>13, <3>3, <4>1
    <3> QED
      BY <3>1, <3>2, <3>3
  <2>4. UsedNotLost(R, sym2, lost2)
    BY <1>0, <1>3, <1>7, <1>12 DEF AreaApart, UsedApart, UsedNotFree, UsedNotLost, FreeNotLost
  <2>5. FreeNotLost(list2, lost2)
    BY <1>0, <1>13 DEF AreaApart, UsedNotFree, FreeNotLost
  <2>6. Covered(R, sym2, list2, lost2, brk)
    <3> SUFFICES ASSUME NEW b \in 0..(brk - 1)
                 PROVE  InUse(R, sym2, b) \/ IsFree(list2, b) \/ b \in lost2
      BY DEF Covered
    <3>1. InUse(R, sym, b) \/ IsFree(list, b) \/ b \in lost
      BY <1>0 DEF AreaApart, Covered
    <3>2. CASE InUse(R, sym, b) \/ b \in lost
      BY <1>7, <3>2 DEF InUse
    <3>3. CASE IsFree(list, b)
      <4>1. PICK k \in 1..Len(list) : b \in Bytes(list[k])
        BY <3>3 DEF IsFree
      <4>2. CASE k = i
        BY <1>10, <1>12, <4>1, <4>2 DEF InUse, IsFree
      <4>3. CASE k # i
        <5>1. PICK j \in 1..Len(list2) : j # m /\ from[j] = k
          BY <1>9, <4>3
        <5> QED
          BY <1>9, <4>1, <5>1 DEF IsFree
      <4> QED
        BY <4>2, <4>3
    <3> QED
      BY <3>1, <3>2, <3>3
  <2>7. lost2 \subseteq 0..(brk - 1)
    BY <1>0, ShapeFacts DEF AreaApart
  <2> QED
    BY <2>1, <2>2, <2>3, <2>4, <2>5, <2>6, <2>7 DEF AreaApart
<1>17. NoneTouch(list2)
  <2> SUFFICES ASSUME NEW j \in 1..Len(list2), NEW k \in 1..Len(list2)
               PROVE  list2[j].rg_end # list2[k].rg_start
    BY DEF NoneTouch
  <2>1. CASE j # m /\ k # m
    BY <1>0, <1>9, <2>1 DEF NoneTouch
  <2>2. CASE j = m /\ k = m
    BY <1>4, <1>10, <2>2
  <2>3. CASE j = m /\ k # m
    <3>1. PICK f \in 1..Len(list) : f # i /\ list2[k] = list[f]
      BY <1>9, <2>3
    <3>2. list2[j].rg_end = list[i].rg_end
      BY <1>3, <1>4, <1>10, <2>3
    <3>3. list[i].rg_end # list[f].rg_start
      BY <1>0, <1>3, <3>1 DEF NoneTouch
    <3> QED
      BY <3>1, <3>2, <3>3
  <2>4. CASE j # m /\ k = m
    <3>1. PICK f \in 1..Len(list) : f # i /\ list2[j] = list[f]
      BY <1>9, <2>4
    <3>2. PICK g \in Nat, d \in Nat : g = list[f].rg_start /\ d = list[f].rg_end /\ g < d
      BY <1>0, <3>1, ShapeFacts
    <3>3. Bytes(list[f]) \cap Bytes(list[i]) = {} /\ Bytes(list[f]) = g..(d - 1)
      BY <1>0, <1>3, <3>1, <3>2 DEF AreaApart, FreeApart, Bytes
    <3>4. ASSUME d = c PROVE FALSE
      <4>1. g \in Nat /\ d \in Nat /\ g < d
        BY <3>2
      <4>2. d - 1 \in g..(d - 1) /\ d - 1 \in a..(e - 1)
        BY <1>5, <3>4, <4>1
      <4> QED
        BY <1>11, <3>3, <4>2
    <3> QED
      BY <1>10, <2>4, <3>1, <3>2, <3>4
  <2> QED
    BY <2>1, <2>2, <2>3, <2>4
<1> QED
  BY <1>15, <1>16, <1>17 DEF AreaInv

\* pgalloc() at the break takes bytes that no piece had.
LEMMA AreaGrown ==
    ASSUME NEW R, NEW sym, NEW list, NEW lost, NEW brk, AreaInv(R, sym, list, lost, brk),
           NEW r \in R, NEW sym2, NEW lost2, NEW brk2 \in Nat, brk < brk2,
           sym2 = [sym EXCEPT ![r] = [rg_start |-> brk, rg_end |-> brk2]],
           lost2 = lost \cup Bytes(sym[r])
    PROVE  AreaInv(R, sym2, list, lost2, brk2)
<1>0. AreaShape(R, sym, list, brk) /\ AreaApart(R, sym, list, lost, brk) /\ NoneTouch(list)
  BY DEF AreaInv
<1>1. brk \in Nat /\ sym \in [R -> NatRegion]
  BY <1>0, ShapeFacts
<1>2. /\ sym2 \in [R -> NatRegion]
      /\ sym2[r].rg_start = brk /\ sym2[r].rg_end = brk2
      /\ Bytes(sym2[r]) = brk..(brk2 - 1)
      /\ \A s \in R : s # r => sym2[s] = sym[s]
  <2>1. RegionSet(R, sym, sym2, r, brk, brk2)
    BY <1>1, RegionSetFacts
  <2> QED
    BY <2>1 DEF RegionSet
<1>3. AreaShape(R, sym2, list, brk2)
  <2>1. ASSUME NEW s \in R PROVE sym2[s].rg_start <= sym2[s].rg_end /\ sym2[s].rg_end <= brk2
    <3>1. CASE s = r
      BY <1>1, <1>2, <3>1
    <3>2. CASE s # r
      BY <1>0, <1>1, <1>2, <3>2, ShapeFacts
    <3> QED
      BY <3>1, <3>2
  <2>2. ASSUME NEW j \in 1..Len(list) PROVE list[j].rg_start < list[j].rg_end /\ list[j].rg_end <= brk2
    BY <1>0, <1>1, ShapeFacts
  <2> QED
    BY <1>0, <1>2, <2>1, <2>2 DEF AreaShape
<1>4. /\ \A s \in R : Bytes(sym[s]) \subseteq 0..(brk - 1)
      /\ \A j \in 1..Len(list) : Bytes(list[j]) \subseteq 0..(brk - 1)
      /\ lost \subseteq 0..(brk - 1)
  BY <1>0, ShapeFacts DEF AreaApart
<1>5. /\ \A s \in R : Bytes(sym[s]) \cap Bytes(sym2[r]) = {}
      /\ \A j \in 1..Len(list) : Bytes(list[j]) \cap Bytes(sym2[r]) = {}
      /\ lost \cap Bytes(sym2[r]) = {}
  <2>1. \A b \in brk..(brk2 - 1) : b \notin 0..(brk - 1)
    BY <1>1
  <2> QED
    BY <1>2, <1>4, <2>1
<1>6. UsedApart(R, sym2) /\ UsedNotFree(R, sym2, list)
  BY <1>0, <1>2, <1>5 DEF AreaApart, UsedApart, UsedNotFree
<1>7. UsedNotLost(R, sym2, lost2)
  BY <1>0, <1>2, <1>5 DEF AreaApart, UsedApart, UsedNotLost
<1>8. FreeNotLost(list, lost2)
  BY <1>0 DEF AreaApart, UsedNotFree, FreeNotLost
<1>9. Covered(R, sym2, list, lost2, brk2)
  <2> SUFFICES ASSUME NEW b \in 0..(brk2 - 1)
               PROVE  InUse(R, sym2, b) \/ IsFree(list, b) \/ b \in lost2
    BY DEF Covered
  <2>1. b \in 0..(brk - 1) \/ b \in brk..(brk2 - 1)
    BY <1>1
  <2>2. CASE b \in 0..(brk - 1)
    <3>1. InUse(R, sym, b) \/ IsFree(list, b) \/ b \in lost
      BY <1>0, <2>2 DEF AreaApart, Covered
    <3> QED
      BY <1>2, <3>1 DEF InUse
  <2>3. CASE b \in brk..(brk2 - 1)
    BY <1>2, <2>3 DEF InUse
  <2> QED
    BY <2>1, <2>2, <2>3
<1>10. lost2 \subseteq 0..(brk2 - 1)
  <2>1. 0..(brk - 1) \subseteq 0..(brk2 - 1)
    BY <1>1
  <2> QED
    BY <1>4, <2>1
<1> QED
  BY <1>0, <1>3, <1>6, <1>7, <1>8, <1>9, <1>10 DEF AreaInv, AreaApart

\* FREE of a region with bytes: they go to one free region, together with the
\* free neighbours.
LEMMA AreaMerged ==
    ASSUME NEW R, NEW sym, NEW list, NEW lost, NEW brk, AreaInv(R, sym, list, lost, brk),
           NEW r \in R, sym[r].rg_start < sym[r].rg_end, NEW sym2, NEW list2,
           sym2 = [sym EXCEPT ![r] = NoRegion], list2 = Enlisted(list, sym[r])
    PROVE  AreaInv(R, sym2, list2, lost, brk)
<1> DEFINE rg == sym[r]
<1>0. AreaShape(R, sym, list, brk) /\ AreaApart(R, sym, list, lost, brk) /\ NoneTouch(list)
  BY DEF AreaInv
<1>1. /\ AreaShape(R, sym2, list, brk)
      /\ Bytes(sym2[r]) = {}
      /\ \A s \in R : s # r => sym2[s] = sym[s]
  <2>1. RegionSet(R, sym, sym2, r, 0, 0) /\ Bytes(sym2[r]) = {} /\ AreaShape(R, sym2, list, brk)
    BY <1>0, RegionCleared
  <2> QED
    BY <2>1 DEF RegionSet
<1>2. PICK m, gone : MergedAt(list, list2, rg, m, gone)
  <2>1. list \in Seq(NatRegion) /\ rg \in NatRegion /\ \A i \in 1..Len(list) : list[i].rg_start < list[i].rg_end
    BY <1>0, ShapeFacts
  <2> QED
    BY <2>1, EnlistedMerges
<1>3. PICK from \in [1..Len(list2) -> Int] :
           /\ \A j \in 1..Len(list2) : j # m =>
                 from[j] \in 1..Len(list) /\ from[j] \notin gone /\ list2[j] = list[from[j]]
           /\ \A j, k \in 1..Len(list2) : j # m /\ k # m /\ from[j] = from[k] => j = k
           /\ \A k \in 1..Len(list) : k \notin gone => \E j \in 1..Len(list2) : j # m /\ from[j] = k
  BY <1>2 DEF MergedAt, Rearranged
<1>4. /\ list2 \in Seq(NatRegion) /\ m \in 1..Len(list2) /\ gone \subseteq 1..Len(list)
      /\ list2[m].rg_start < list2[m].rg_end
      /\ \A b : b \in Bytes(list2[m]) <=> b \in Bytes(rg) \/ \E i \in gone : b \in Bytes(list[i])
  BY <1>2 DEF MergedAt
<1>5. /\ \/ list2[m].rg_start = rg.rg_start /\ MergeDown(list, rg) = {}
         \/ \E i \in gone : list2[m].rg_start = list[i].rg_start
      /\ \/ list2[m].rg_end = rg.rg_end /\ MergeUp(list, rg) = {}
         \/ \E i \in gone : list2[m].rg_end = list[i].rg_end
  BY <1>2 DEF MergedAt
<1>6. AreaShape(R, sym2, list2, brk)
  <2>1. ASSUME NEW j \in 1..Len(list2)
        PROVE  list2[j].rg_start < list2[j].rg_end /\ list2[j].rg_end <= brk
    <3>1. CASE j = m
      <4>1. rg.rg_end <= brk /\ \A i \in gone : list[i].rg_end <= brk
        BY <1>0, <1>4, ShapeFacts
      <4> QED
        BY <1>4, <1>5, <3>1, <4>1
    <3>2. CASE j # m
      BY <1>0, <1>3, <3>2, ShapeFacts
    <3> QED
      BY <3>1, <3>2
  <2> QED
    BY <1>0, <1>1, <1>4, <2>1 DEF AreaShape
<1>7. AreaApart(R, sym2, list2, lost, brk)
  <2>1. UsedApart(R, sym2)
    BY <1>0, <1>1 DEF AreaApart, UsedApart
  <2>2. ASSUME NEW k \in 1..Len(list), k \notin gone PROVE Bytes(list[k]) \cap Bytes(list2[m]) = {}
    <3>1. SUFFICES ASSUME NEW b, b \in Bytes(list[k]), b \in Bytes(list2[m]) PROVE FALSE
      OBVIOUS
    <3>2. CASE b \in Bytes(rg)
      <4>1. Bytes(rg) \cap Bytes(list[k]) = {}
        BY <1>0 DEF AreaApart, UsedNotFree
      <4> QED
        BY <3>1, <3>2, <4>1
    <3>3. CASE \E i \in gone : b \in Bytes(list[i])
      <4>1. PICK i \in gone : b \in Bytes(list[i])
        BY <3>3
      <4>2. i \in 1..Len(list) /\ i # k
        BY <1>4, <2>2, <4>1
      <4>3. Bytes(list[i]) \cap Bytes(list[k]) = {}
        BY <1>0, <4>2 DEF AreaApart, FreeApart
      <4> QED
        BY <3>1, <4>1, <4>3
    <3> QED
      BY <1>4, <3>1, <3>2, <3>3
  <2>3. FreeApart(list2)
    <3> SUFFICES ASSUME NEW j \in 1..Len(list2), NEW k \in 1..Len(list2), j # k
                 PROVE  Bytes(list2[j]) \cap Bytes(list2[k]) = {}
      BY DEF FreeApart
    <3>1. CASE j = m
      BY <1>3, <2>2, <3>1
    <3>2. CASE k = m
      BY <1>3, <2>2, <3>2
    <3>3. CASE j # m /\ k # m
      <4>1. /\ from[j] \in 1..Len(list) /\ from[k] \in 1..Len(list) /\ from[j] # from[k]
            /\ list2[j] = list[from[j]] /\ list2[k] = list[from[k]]
        BY <1>3, <3>3
      <4>2. Bytes(list[from[j]]) \cap Bytes(list[from[k]]) = {}
        BY <1>0, <4>1 DEF AreaApart, FreeApart
      <4> QED
        BY <4>1, <4>2
    <3> QED
      BY <3>1, <3>2, <3>3
  <2>4. UsedNotFree(R, sym2, list2)
    <3> SUFFICES ASSUME NEW s \in R, NEW j \in 1..Len(list2) PROVE Bytes(sym2[s]) \cap Bytes(list2[j]) = {}
      BY DEF UsedNotFree
    <3>1. CASE s = r
      BY <1>1, <3>1
    <3>2. CASE s # r /\ j = m
      BY <1>0, <1>1, <1>4, <3>2 DEF AreaApart, UsedApart, UsedNotFree
    <3>3. CASE s # r /\ j # m
      <4>1. from[j] \in 1..Len(list) /\ list2[j] = list[from[j]]
        BY <1>3, <3>3
      <4>2. Bytes(sym[s]) \cap Bytes(list[from[j]]) = {}
        BY <1>0, <4>1 DEF AreaApart, UsedNotFree
      <4> QED
        BY <1>1, <3>3, <4>1, <4>2
    <3> QED
      BY <3>1, <3>2, <3>3
  <2>5. UsedNotLost(R, sym2, lost)
    BY <1>0, <1>1 DEF AreaApart, UsedNotLost
  <2>6. FreeNotLost(list2, lost)
    <3> SUFFICES ASSUME NEW j \in 1..Len(list2) PROVE Bytes(list2[j]) \cap lost = {}
      BY DEF FreeNotLost
    <3>1. CASE j = m
      BY <1>0, <1>4, <3>1 DEF AreaApart, UsedNotLost, FreeNotLost
    <3>2. CASE j # m
      BY <1>0, <1>3, <3>2 DEF AreaApart, FreeNotLost
    <3> QED
      BY <3>1, <3>2
  <2>7. Covered(R, sym2, list2, lost, brk)
    <3> SUFFICES ASSUME NEW b \in 0..(brk - 1)
                 PROVE  InUse(R, sym2, b) \/ IsFree(list2, b) \/ b \in lost
      BY DEF Covered
    <3>1. InUse(R, sym, b) \/ IsFree(list, b) \/ b \in lost
      BY <1>0 DEF AreaApart, Covered
    <3>2. CASE InUse(R, sym, b)
      <4>1. PICK s \in R : b \in Bytes(sym[s])
        BY <3>2 DEF InUse
      <4>2. CASE s = r
        BY <1>4, <4>1, <4>2 DEF IsFree
      <4>3. CASE s # r
        BY <1>1, <4>1, <4>3 DEF InUse
      <4> QED
        BY <4>2, <4>3
    <3>3. CASE IsFree(list, b)
      <4>1. PICK k \in 1..Len(list) : b \in Bytes(list[k])
        BY <3>3 DEF IsFree
      <4>2. CASE k \in gone
        BY <1>4, <4>1, <4>2 DEF IsFree
      <4>3. CASE k \notin gone
        <5>1. PICK j \in 1..Len(list2) : j # m /\ from[j] = k
          BY <1>3, <4>3
        <5> QED
          BY <1>3, <4>1, <5>1 DEF IsFree
      <4> QED
        BY <4>2, <4>3
    <3> QED
      BY <3>1, <3>2, <3>3
  <2> QED
    BY <1>0, <2>1, <2>3, <2>4, <2>5, <2>6, <2>7 DEF AreaApart
<1>8. NoneTouch(list2)
  <2> SUFFICES ASSUME NEW j \in 1..Len(list2), NEW k \in 1..Len(list2) PROVE list2[j].rg_end # list2[k].rg_start
    BY DEF NoneTouch
  <2>0. \A f, g \in 1..Len(list) : list[f].rg_end # list[g].rg_start
    BY <1>0 DEF NoneTouch
  <2>1. CASE j # m /\ k # m
    BY <1>3, <2>0, <2>1
  <2>2. CASE j = m /\ k = m
    <3>1. list2[m] \in NatRegion /\ list2[m].rg_start < list2[m].rg_end
      BY <1>4
    <3>2. list2[m].rg_start \in Nat /\ list2[m].rg_end \in Nat
      BY <3>1 DEF NatRegion
    <3> QED
      BY <2>2, <3>1, <3>2
  <2>3. CASE j = m /\ k # m
    <3>1. PICK f \in 1..Len(list) : list2[k] = list[f]
      BY <1>3, <2>3
    <3>2. CASE list2[m].rg_end = rg.rg_end /\ MergeUp(list, rg) = {}
      BY <2>3, <3>1, <3>2 DEF MergeUp
    <3>3. CASE \E i \in gone : list2[m].rg_end = list[i].rg_end
      BY <1>4, <2>0, <2>3, <3>1, <3>3
    <3> QED
      BY <1>5, <3>2, <3>3
  <2>4. CASE j # m /\ k = m
    <3>1. PICK f \in 1..Len(list) : list2[j] = list[f]
      BY <1>3, <2>4
    <3>2. CASE list2[m].rg_start = rg.rg_start /\ MergeDown(list, rg) = {}
      BY <2>4, <3>1, <3>2 DEF MergeDown
    <3>3. CASE \E i \in gone : list2[m].rg_start = list[i].rg_start
      BY <1>4, <2>0, <2>4, <3>1, <3>3
    <3> QED
      BY <1>5, <3>2, <3>3
  <2> QED
    BY <2>1, <2>2, <2>3, <2>4
<1> QED
  BY <1>6, <1>7, <1>8 DEF AreaInv

\* pgfree_data(), where the list does not dangle afterwards.
LEMMA AreaFreed ==
    ASSUME NEW R, NEW sym, NEW list, NEW lost, NEW brk, AreaInv(R, sym, list, lost, brk),
           NEW r \in R, NEW sym2, NEW list2,
           sym2 = [sym EXCEPT ![r] = NoRegion], list2 = Enlisted(list, sym[r])
    PROVE  AreaInv(R, sym2, list2, lost, brk)
<1>0. AreaShape(R, sym, list, brk) /\ AreaApart(R, sym, list, lost, brk) /\ NoneTouch(list)
  BY DEF AreaInv
<1>1. CASE sym[r].rg_start < sym[r].rg_end
  BY <1>1, AreaMerged
<1>2. CASE ~(sym[r].rg_start < sym[r].rg_end)
  <2>1. sym[r].rg_start \in Nat /\ sym[r].rg_end \in Nat /\ sym[r].rg_start >= sym[r].rg_end
    BY <1>0, <1>2, ShapeFacts
  <2>2. Bytes(sym[r]) = {}
    BY <2>1 DEF Bytes
  <2>3. list2 = list
    BY <2>1 DEF Enlisted
  <2>4. /\ AreaShape(R, sym2, list, brk)
        /\ Bytes(sym2[r]) = {}
        /\ \A s \in R : s # r => sym2[s] = sym[s]
    <3>1. RegionSet(R, sym, sym2, r, 0, 0) /\ Bytes(sym2[r]) = {} /\ AreaShape(R, sym2, list, brk)
      BY <1>0, RegionCleared
    <3> QED
      BY <3>1 DEF RegionSet
  <2>5. UsedApart(R, sym2) /\ UsedNotFree(R, sym2, list) /\ UsedNotLost(R, sym2, lost)
    BY <1>0, <2>4 DEF AreaApart, UsedApart, UsedNotFree, UsedNotLost
  <2>6. Covered(R, sym2, list, lost, brk)
    BY <1>0, <2>2, <2>4 DEF AreaApart, Covered, InUse
  <2>7. AreaShape(R, sym2, list, brk)
    BY <1>0, <2>4 DEF AreaShape
  <2> QED
    BY <1>0, <2>3, <2>5, <2>6, <2>7 DEF AreaInv, AreaApart
<1> QED
  BY <1>1, <1>2

\* A freed region of a list that dangles afterwards.
LEMMA AreaCleared ==
    ASSUME NEW R, NEW sym, NEW list, NEW brk, AreaShape(R, sym, list, brk), UsedApart(R, sym),
           NEW r \in R, NEW sym2, sym2 = [sym EXCEPT ![r] = NoRegion]
    PROVE  AreaShape(R, sym2, list, brk) /\ UsedApart(R, sym2)
<1>1. /\ AreaShape(R, sym2, list, brk)
      /\ Bytes(sym2[r]) = {}
      /\ \A s \in R : s # r => sym2[s] = sym[s]
  <2>1. RegionSet(R, sym, sym2, r, 0, 0) /\ Bytes(sym2[r]) = {} /\ AreaShape(R, sym2, list, brk)
    BY RegionCleared
  <2> QED
    BY <2>1 DEF RegionSet
<1>2. UsedApart(R, sym2)
  BY <1>1 DEF UsedApart
<1> QED
  BY <1>1, <1>2 DEF AreaShape

\* The area of a new process: init_mm().
LEMMA AreaNew ==
    ASSUME NEW R
    PROVE  AreaInv(R, [r \in R |-> NoRegion], <<>>, {}, 0)
<1>1. NoRegion \in NatRegion /\ NoRegion.rg_start = 0 /\ NoRegion.rg_end = 0
  BY DEF NoRegion, NatRegion
<1>2. Bytes(NoRegion) = {}
  BY <1>1 DEF Bytes
<1> DEFINE sym == [r \in R |-> NoRegion]
<1>3. sym \in [R -> NatRegion] /\ \A r \in R : sym[r] = NoRegion
  BY <1>1
<1>4. <<>> \in Seq(NatRegion) /\ Len(<<>>) = 0 /\ 1..0 = {} /\ 0..(0 - 1) = {}
  OBVIOUS
<1> HIDE DEF sym
<1>5. AreaShape(R, sym, <<>>, 0)
  BY <1>1, <1>3, <1>4 DEF AreaShape
<1>6. AreaApart(R, sym, <<>>, {}, 0)
  BY <1>2, <1>3, <1>4 DEF AreaApart, UsedApart, FreeApart, UsedNotFree, UsedNotLost, FreeNotLost, Covered
<1>7. NoneTouch(<<>>)
  BY <1>4 DEF NoneTouch
<1> QED
  BY <1>5, <1>6, <1>7 DEF AreaInv, sym

=============================================================================
