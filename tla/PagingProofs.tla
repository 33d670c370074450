----------------------------- MODULE PagingProofs -----------------------------
(***************************************************************************)
(* Proofs about module Paging, for every set of processes, every size of   *)
(* RAM, of swap and of a page, and every bound on the pages of a process.  *)
(***************************************************************************)
EXTENDS Paging, ProofFacts, FiniteSetTheorems

-----------------------------------------------------------------------------
(* The inductive invariant *)

\* The locals of alloc_pages_range() are in use during an allocation only, and
\* never hold more frames than it asks for.
AllocShape ==
    \A p \in Proc :
        /\ want[p] <= npages[p]
        /\ Got(p) <= want[p]
        /\ mpc[p] = "alloc" => want[p] > 0
        /\ mpc[p] # "alloc" => want[p] = 0

\* The page of an access that faults is not present until the exchange is over,
\* its victim is.
FaultShape ==
    \A p \in Proc :
        /\ mpc[p] \in {"out", "in"} =>
              pgd[p][fault[p].vicpgn].present /\ ~pgd[p][fault[p].pgn].present
        /\ mpc[p] = "access" => pgd[p][fault[p].pgn].present

\* A page is in one place.
PteShape == \A p \in Proc, n \in Page : ~(pgd[p][n].present /\ pgd[p][n].swapped)

Shape == PagingTypeOK /\ AllocShape /\ FaultShape /\ PteShape

\* RamExclusive, place by place: no frame is twice in the free list,
RamFreeOnce == \A i, j \in 1..Len(ram_free) : ram_free[i] = ram_free[j] => i = j

\* in the lists of the processes that are allocating,
RamListOnce ==
    \A p, q \in Proc : \A i \in 1..Len(frm_lst[p]), j \in 1..Len(frm_lst[q]) :
        frm_lst[p][i] = frm_lst[q][j] => p = q /\ i = j

\* or in the page tables,
RamPageOnce ==
    \A p, q \in Proc, n, m \in Page :
        pgd[p][n].present /\ pgd[q][m].present /\ pgd[p][n].val = pgd[q][m].val => p = q /\ n = m

\* and none is in two of these places.
RamFreeNotListed ==
    \A i \in 1..Len(ram_free), p \in Proc : \A j \in 1..Len(frm_lst[p]) : ram_free[i] # frm_lst[p][j]

RamFreeNotMapped ==
    \A i \in 1..Len(ram_free), p \in Proc, n \in Page :
        pgd[p][n].present => ram_free[i] # pgd[p][n].val

RamListNotMapped ==
    \A p, q \in Proc : \A i \in 1..Len(frm_lst[p]), n \in Page :
        pgd[q][n].present => frm_lst[p][i] # pgd[q][n].val

RamApart ==
    /\ RamFreeOnce /\ RamListOnce /\ RamPageOnce
    /\ RamFreeNotListed /\ RamFreeNotMapped /\ RamListNotMapped

\* A page fault that holds a frame of swap.
Holds(p) == mpc[p] \in {"out", "in"}

\* SwpExclusive, place by place in the same way.
SwpFreeOnce == \A i, j \in 1..Len(swp_free) : swp_free[i] = swp_free[j] => i = j

SwpListOnce ==
    \A p, q \in Proc : \A i \in 1..Len(frm_lst_swap[p]), j \in 1..Len(frm_lst_swap[q]) :
        frm_lst_swap[p][i] = frm_lst_swap[q][j] => p = q /\ i = j

SwpPageOnce ==
    \A p, q \in Proc, n, m \in Page :
        pgd[p][n].swapped /\ pgd[q][m].swapped /\ pgd[p][n].val = pgd[q][m].val => p = q /\ n = m

SwpHeldOnce == \A p, q \in Proc : Holds(p) /\ Holds(q) /\ fault[p].swpfpn = fault[q].swpfpn => p = q

SwpFreeNotListed ==
    \A i \in 1..Len(swp_free), p \in Proc : \A j \in 1..Len(frm_lst_swap[p]) :
        swp_free[i] # frm_lst_swap[p][j]

SwpFreeNotMapped ==
    \A i \in 1..Len(swp_free), p \in Proc, n \in Page :
        pgd[p][n].swapped => swp_free[i] # pgd[p][n].val

SwpFreeNotHeld ==
    \A i \in 1..Len(swp_free), p \in Proc : Holds(p) => swp_free[i] # fault[p].swpfpn

SwpListNotMapped ==
    \A p, q \in Proc : \A i \in 1..Len(frm_lst_swap[p]), n \in Page :
        pgd[q][n].swapped => frm_lst_swap[p][i] # pgd[q][n].val

SwpListNotHeld ==
    \A p, q \in Proc : \A i \in 1..Len(frm_lst_swap[p]) :
        Holds(q) => frm_lst_swap[p][i] # fault[q].swpfpn

SwpHeldNotMapped ==
    \A p, q \in Proc, n \in Page :
        pgd[q][n].swapped /\ Holds(p) => fault[p].swpfpn # pgd[q][n].val

SwpApart ==
    /\ SwpFreeOnce /\ SwpListOnce /\ SwpPageOnce /\ SwpHeldOnce
    /\ SwpFreeNotListed /\ SwpFreeNotMapped /\ SwpFreeNotHeld
    /\ SwpListNotMapped /\ SwpListNotHeld /\ SwpHeldNotMapped

\* No frame is free or will be, and p has none left to map.
Exhausted(p) == ram_free = <<>> /\ swp_free = <<>> /\ Got(p) = 0

InFifo(p, n) == \E i \in 1..Len(fifo_pgn[p]) : fifo_pgn[p][i] = n

\* The first page of the range that p maps next.
NextPage(p) == npages[p] - want[p]

\* It was enlisted with the range before it.
NextEnlisted == \A p \in Proc : NextPage(p) = 0 \/ InFifo(p, NextPage(p)) \/ Exhausted(p)

\* PagesPlaced for the pages in front of an allocation that is under way.
PlacedBefore ==
    \A p \in Proc : \A n \in 0..(NextPage(p) - 1) :
        pgd[p][n].present \/ pgd[p][n].swapped \/ (ram_free = <<>> /\ swp_free = <<>>)

\* A page without a place was not written.
BlankUnwritten ==
    \A p \in Proc, n \in Page, o \in Offset :
        ~pgd[p][n].present /\ ~pgd[p][n].swapped => written[p][n][o] = None

\* Between the two copies of an exchange the victim is in both places.
VictimCopied ==
    ~stray /\ ~wild =>
        \A p \in Proc : mpc[p] = "in" =>
            swp[fault[p].swpfpn] = ram[pgd[p][fault[p].vicpgn].val]

PagingInv ==
    /\ Shape
    /\ RamApart
    /\ ~wild => SwpApart
    /\ VictimsTracked /\ NextEnlisted
    /\ PlacedBefore
    /\ BlankUnwritten /\ DataKept /\ VictimCopied

-----------------------------------------------------------------------------
(* Sequences *)

\* alloc_pages_range() moves the first frame of a free list to the head of the
\* list of process p: where the elements of both lists were before.
Moved(free, lst, free2, lst2, p) ==
    /\ 1 \in 1..Len(free)
    /\ \A i \in 1..Len(free2) : i + 1 \in 1..Len(free) /\ free2[i] = free[i + 1] /\ i \in Nat /\ i # 0
    /\ \A q \in Proc : \A i \in 1..Len(lst2[q]) :
          \/ q = p /\ i = 1 /\ lst2[q][i] = free[1]
          \/ \E j \in 1..Len(lst[q]) : lst2[q][i] = lst[q][j] /\ i = IF q = p THEN j + 1 ELSE j

\* That is what its assignments do.
LEMMA TakeElements ==
    ASSUME NEW S, NEW free \in Seq(S), free # <<>>, NEW lst \in [Proc -> Seq(S)], NEW p \in Proc
    PROVE  Moved(free, lst, Tail(free), [lst EXCEPT ![p] = <<Head(free)>> \o @], p)
<1> DEFINE free2 == Tail(free)
           lst2 == [lst EXCEPT ![p] = <<Head(free)>> \o @]
<1>1. PICK k \in Nat : k = Len(free) /\ k > 0
  BY TailElements
<1>2. PICK m \in Nat : m = Len(lst[p])
  OBVIOUS
<1>3. /\ Len(free2) = k - 1
      /\ \A i \in 1..(k - 1) : i + 1 \in 1..k /\ free2[i] = free[i + 1] /\ i \in Nat /\ i # 0
      /\ Head(free) = free[1] /\ Head(free) \in S
  BY <1>1, TailElements
<1>4. /\ Len(lst2[p]) = m + 1
      /\ lst2[p][1] = free[1]
      /\ \A i \in 2..(m + 1) : i - 1 \in 1..m /\ lst2[p][i] = lst[p][i - 1]
      /\ \A q \in Proc : q # p => lst2[q] = lst[q]
  <2>1. lst2[p] = <<Head(free)>> \o lst[p] /\ \A q \in Proc : q # p => lst2[q] = lst[q]
    OBVIOUS
  <2> QED
    BY <1>2, <1>3, <2>1, ConsElements
<1>5. ASSUME NEW q \in Proc, NEW i \in 1..Len(lst2[q])
      PROVE  \/ q = p /\ i = 1 /\ lst2[q][i] = free[1]
             \/ \E j \in 1..Len(lst[q]) :
                   lst2[q][i] = lst[q][j] /\ i = IF q = p THEN j + 1 ELSE j
  <2>1. CASE q # p
    <3>1. lst2[q] = lst[q]
      BY <1>4, <2>1
    <3>2. i \in 1..Len(lst[q]) /\ lst2[q][i] = lst[q][i]
      BY <3>1
    <3> QED
      BY <2>1, <3>2
  <2>2. CASE q = p
    <3>1. i \in 1..(m + 1)
      BY <1>4, <2>2
    <3>2. CASE i = 1
      BY <1>4, <2>2, <3>2
    <3>3. CASE i # 1
      <4>1. i \in 2..(m + 1) /\ i = (i - 1) + 1
        BY <3>1, <3>3
      <4>2. i - 1 \in 1..Len(lst[q]) /\ lst2[q][i] = lst[q][i - 1]
        BY <1>2, <1>4, <2>2, <4>1
      <4> QED
        BY <2>2, <4>1, <4>2
    <3> QED
      BY <3>2, <3>3
  <2> QED
    BY <2>1, <2>2
<1>6. \A i \in 1..Len(free2) : i + 1 \in 1..Len(free) /\ free2[i] = free[i + 1] /\ i \in Nat /\ i # 0
  BY <1>1, <1>3
<1>7. 1 \in 1..Len(free)
  BY <1>1
<1> HIDE DEF free2, lst2
<1>8. Moved(free, lst, free2, lst2, p)
  BY <1>5, <1>6, <1>7 DEF Moved
<1> QED
  BY <1>8 DEF free2, lst2

\* A page that is enlisted again is in the list, and so is every page that was.
LEMMA EnlistElements ==
    ASSUME NEW list \in Seq(Page), NEW n \in Page
    PROVE  /\ Enlist(list, n) \in Seq(Page)
           /\ \E j \in 1..Len(Enlist(list, n)) : Enlist(list, n)[j] = n
           /\ \A i \in 1..Len(list) :
                 \E j \in 1..Len(Enlist(list, n)) : Enlist(list, n)[j] = list[i]
<1> DEFINE w == Without(list, n)
<1>1. w \in Seq(Page) /\ \A i \in 1..Len(list) :
          list[i] # n => \E j \in 1..Len(w) : w[j] = list[i]
  <2>1. CASE ~\E i \in 1..Len(list) : list[i] = n
    BY <2>1 DEF Without
  <2>2. CASE \E i \in 1..Len(list) : list[i] = n
    <3> DEFINE k == CHOOSE i \in 1..Len(list) : list[i] = n
    <3>1. k \in 1..Len(list) /\ list[k] = n
      BY <2>2
    <3>2. w = SubSeq(list, 1, k - 1) \o SubSeq(list, k + 1, Len(list))
      BY <2>2 DEF Without
    <3> HIDE DEF k, w
    <3>3. /\ w \in Seq(Page)
          /\ Len(w) = Len(list) - 1
          /\ \A i \in 1..(k - 1) : w[i] = list[i]
          /\ \A i \in k..(Len(list) - 1) : w[i] = list[i + 1]
      BY <3>1, <3>2, RemoveElements
    <3>4. ASSUME NEW i \in 1..Len(list), list[i] # n PROVE \E j \in 1..Len(w) : w[j] = list[i]
      <4>1. CASE i < k
        <5>1. i \in 1..Len(w) /\ w[i] = list[i]
          BY <3>1, <3>3, <4>1
        <5> QED
          BY <5>1
      <4>2. CASE i > k
        <5>1. i - 1 \in 1..Len(w) /\ w[i - 1] = list[i]
          BY <3>1, <3>3, <4>2
        <5> QED
          BY <5>1
      <4> QED
        BY <3>1, <3>4, <4>1, <4>2
    <3> QED
      BY <3>3, <3>4
  <2> QED
    BY <2>1, <2>2
<1>2. Enlist(list, n) = <<n>> \o w
  BY DEF Enlist
<1> HIDE DEF w
<1>3. /\ Enlist(list, n) \in Seq(Page)
      /\ Len(w) \in Nat
      /\ Len(Enlist(list, n)) = Len(w) + 1
      /\ Enlist(list, n)[1] = n
      /\ \A i \in 2..(Len(w) + 1) : Enlist(list, n)[i] = w[i - 1]
  BY <1>1, <1>2, ConsElements
<1>4. ASSUME NEW i \in 1..Len(list)
      PROVE  \E j \in 1..Len(Enlist(list, n)) : Enlist(list, n)[j] = list[i]
  <2>1. CASE list[i] = n
    BY <1>3, <2>1
  <2>2. CASE list[i] # n
    <3>1. PICK j \in 1..Len(w) : w[j] = list[i]
      BY <1>1, <2>2
    <3>2. j + 1 \in 1..Len(Enlist(list, n)) /\ Enlist(list, n)[j + 1] = list[i]
      BY <1>3, <3>1
    <3> QED
      BY <3>2
  <2> QED
    BY <2>1, <2>2
<1> QED
  BY <1>3, <1>4

\* The pages of a range that is enlisted are in the list, and so is every page
\* that was.
LEMMA EnlistRangeElements ==
    ASSUME NEW list \in Seq(Page), NEW a \in Page, NEW b \in Page, a <= b
    PROVE  /\ EnlistRange(list, a, b) \in Seq(Page)
           /\ \A n \in a..b : \E j \in 1..Len(EnlistRange(list, a, b)) : EnlistRange(list, a, b)[j] = n
           /\ \A i \in 1..Len(list) :
                 \E j \in 1..Len(EnlistRange(list, a, b)) : EnlistRange(list, a, b)[j] = list[i]
<1> DEFINE r == [i \in 1..(b - a + 1) |-> b + 1 - i]
           e == EnlistRange(list, a, b)
<1>1. r \in Seq(Page) /\ Len(r) = b - a + 1
  BY PagingAssumption DEF Page
<1>2. e = r \o list
  BY DEF EnlistRange
<1>3. \A i \in 1..(b - a + 1) : r[i] = b + 1 - i
  OBVIOUS
<1> HIDE DEF r, e
<1>4. /\ e \in Seq(Page)
      /\ Len(e) = b - a + 1 + Len(list)
      /\ \A i \in 1..(b - a + 1) : e[i] = b + 1 - i
      /\ \A i \in 1..Len(list) : e[b - a + 1 + i] = list[i]
  <2>1. b - a + 1 \in Nat /\ Len(list) \in Nat
    BY PagingAssumption DEF Page
  <2>2. /\ e \in Seq(Page) /\ Len(e) = Len(r) + Len(list)
        /\ \A i \in 1..(Len(r) + Len(list)) : e[i] = IF i <= Len(r) THEN r[i] ELSE list[i - Len(r)]
    BY <1>1, <1>2, ConcatProperties
  <2>3. \A i \in 1..(b - a + 1) : e[i] = r[i]
    BY <1>1, <2>1, <2>2
  <2>4. ASSUME NEW i \in 1..Len(list) PROVE e[b - a + 1 + i] = list[i]
    BY <1>1, <2>1, <2>2
  <2> QED
    BY <1>1, <1>3, <2>2, <2>3, <2>4
<1>5. a \in Nat /\ b \in Nat /\ Len(list) \in Nat
  BY PagingAssumption DEF Page
<1>6. ASSUME NEW n \in a..b PROVE \E j \in 1..Len(e) : e[j] = n
  <2>1. b + 1 - n \in 1..Len(e) /\ e[b + 1 - n] = n
    BY <1>4, <1>5
  <2> QED
    BY <2>1
<1>7. ASSUME NEW i \in 1..Len(list) PROVE \E j \in 1..Len(e) : e[j] = list[i]
  <2>1. b - a + 1 + i \in 1..Len(e)
    BY <1>4, <1>5
  <2> QED
    BY <1>4, <2>1
<1> QED
  BY <1>4, <1>6, <1>7 DEF e

-----------------------------------------------------------------------------
(* Types, and the shape of what is under way *)

\* What a process finds at the end of an access has the right type.
LEMMA TouchType ==
    ASSUME PagingTypeOK, NEW p \in Proc, NEW n \in Page, NEW o \in Offset, NEW fpn,
           NEW v \in Value \cup {None}, Touch(p, n, o, fpn, v)
    PROVE  /\ ram' \in [RamFrame -> [Offset -> Data \cup {None}]]
           /\ written' \in [Proc -> [Page -> [Offset -> Value \cup {None}]]]
           /\ stray' \in BOOLEAN /\ undefined' \in BOOLEAN
<1>1. CASE v = None
  BY <1>1 DEF PagingTypeOK, Touch
<1>2. CASE v # None
  <2>1. v \in Value
    BY <1>2
  <2>2. Datum(p, n, v) \in Data
    BY <2>1 DEF Datum, Data
  <2>3. written' \in [Proc -> [Page -> [Offset -> Value \cup {None}]]]
    <3>1. [written[p][n] EXCEPT ![o] = v] \in [Offset -> Value \cup {None}]
      BY DEF PagingTypeOK
    <3>2. [written[p] EXCEPT ![n] = [written[p][n] EXCEPT ![o] = v]]
            \in [Page -> [Offset -> Value \cup {None}]]
      BY <3>1 DEF PagingTypeOK
    <3>3. written' = [written EXCEPT ![p] = [written[p] EXCEPT ![n] = [written[p][n] EXCEPT ![o] = v]]]
      BY <1>2 DEF Touch
    <3> QED
      BY <3>2, <3>3 DEF PagingTypeOK
  <2>4. ram' \in [RamFrame -> [Offset -> Data \cup {None}]]
    <3>1. CASE fpn \in RamFrame
      <4>1. [ram[fpn] EXCEPT ![o] = Datum(p, n, v)] \in [Offset -> Data \cup {None}]
        BY <2>2, <3>1 DEF PagingTypeOK
      <4>2. ram' = [ram EXCEPT ![fpn] = [ram[fpn] EXCEPT ![o] = Datum(p, n, v)]]
        BY <1>2, <3>1 DEF Touch
      <4> QED
        BY <3>1, <4>1, <4>2 DEF PagingTypeOK
    <3>2. CASE fpn \notin RamFrame
      BY <1>2, <3>2 DEF PagingTypeOK, Touch
    <3> QED
      BY <3>1, <3>2
  <2>5. stray' \in BOOLEAN
    BY <1>2 DEF PagingTypeOK, Touch
  <2>6. undefined' \in BOOLEAN
    BY <1>2 DEF PagingTypeOK, Touch
  <2> QED
    BY <2>3, <2>4, <2>5, <2>6
<1> QED
  BY <1>1, <1>2

\* The frame number that PAGING_FPN reads from an entry fits into thirteen bits.
LEMMA FpnType ==
    ASSUME NEW pte \in Pte, pte.present => pte.val \in RamFrame
    PROVE  Fpn(pte) \in 0..(FpnMod - 1)
<1>1. CASE pte.present
  BY <1>1, PagingAssumption DEF Fpn, RamFrame
<1>2. CASE ~pte.present
  <2>1. pte.val * SwpUnit \in Nat
    BY PagingAssumption DEF Pte
  <2> QED
    BY <1>2, <2>1, PagingAssumption DEF Fpn
<1> QED
  BY <1>1, <1>2

\* Nothing is under way when the program starts.
LEMMA ShapeInit == Init => Shape
<1> SUFFICES ASSUME Init PROVE Shape
  OBVIOUS
<1> USE PagingAssumption
<1>0. 0 \in Page /\ 0 \in Offset /\ 0 \in SwpFrame /\ 0 \in 0..(FpnMod - 1)
  BY DEF Page, Offset, SwpFrame
<1>1. ram_free \in Seq(RamFrame)
  BY DEF Init, RamFrame
<1>2. swp_free \in Seq(SwpFrame)
  BY DEF Init, SwpFrame
<1>3. Unwritten \in [Offset -> Data \cup {None}] /\ Unwritten \in [Offset -> Value \cup {None}]
  BY DEF Unwritten
<1>4. ram \in [RamFrame -> [Offset -> Data \cup {None}]] /\ swp \in [SwpFrame -> [Offset -> Data \cup {None}]]
  BY <1>3 DEF Init
<1>5. /\ pgd \in [Proc -> [Page -> Pte]]
      /\ \A p \in Proc, n \in Page :
            ~pgd[p][n].present /\ ~pgd[p][n].swapped /\ pgd[p][n].val = 0
  BY DEF Init, Pte, Blank
<1>6. fault \in [Proc -> [pgn : Page, off : Offset, vicpgn : Page, swpfpn : SwpFrame,
                          fpn : 0..(FpnMod - 1), data : Value \cup {None}]]
  BY <1>0 DEF Init, NoFault
<1>7. written \in [Proc -> [Page -> [Offset -> Value \cup {None}]]]
  BY <1>3 DEF Init
<1>8. PagingTypeOK
  <2>1. \A p \in Proc, n \in Page : pgd[p][n].val \in IF pgd[p][n].present THEN RamFrame ELSE SwpFrame
    BY <1>0, <1>5
  <2>2. /\ fifo_pgn \in [Proc -> Seq(Page)]
        /\ frm_lst \in [Proc -> Seq(RamFrame)]
        /\ frm_lst_swap \in [Proc -> Seq(SwpFrame)]
    <3>1. <<>> \in Seq(Page) /\ <<>> \in Seq(RamFrame) /\ <<>> \in Seq(SwpFrame)
      OBVIOUS
    <3> QED
      BY <3>1 DEF Init
  <2>3. /\ npages \in [Proc -> 0..MaxPages] /\ want \in [Proc -> 0..MaxPages]
        /\ mpc \in [Proc -> {"idle", "alloc", "out", "in", "access"}]
    BY DEF Init
  <2>4. stray \in BOOLEAN /\ wild \in BOOLEAN /\ undefined \in BOOLEAN
    BY DEF Init
  <2> QED
    BY <1>1, <1>2, <1>4, <1>5, <1>6, <1>7, <2>1, <2>2, <2>3, <2>4 DEF PagingTypeOK
<1>9. AllocShape /\ FaultShape
  BY DEF Init, AllocShape, FaultShape, Got
<1> QED
  BY <1>5, <1>8, <1>9 DEF Shape, PteShape

\* The fields of the entries that pte_set_fpn() and pte_set_swap() make: the
\* number of a frame loses nothing when it is cut to its field.
LEMMA PteFields ==
    ASSUME NEW x
    PROVE  /\ SetFpn(x).present /\ ~SetFpn(x).swapped
           /\ x \in 0..(FpnMod - 1) => SetFpn(x).val = x
           /\ x \in RamFrame => SetFpn(x).val = x
           /\ ~SetSwap(x).present /\ SetSwap(x).swapped
           /\ x \in SwpFrame => SetSwap(x).val = x
<1>1. FpnMod \in Nat \ {0} /\ RamFrame \subseteq 0..(FpnMod - 1)
  BY PagingAssumption DEF RamFrame
<1>2. SwpMod \in Nat \ {0} /\ SwpFrame \subseteq 0..(SwpMod - 1)
  BY PagingAssumption DEF SwpFrame
<1>3. x \in 0..(FpnMod - 1) => x % FpnMod = x
  BY <1>1
<1>4. x \in 0..(SwpMod - 1) => x % SwpMod = x
  BY <1>2
<1> QED
  BY <1>1, <1>2, <1>3, <1>4 DEF SetFpn, SetSwap

\* The entries after vmap_page_range(): a frame of the lists for each page of
\* the range.
RangeMapped(p, first, inram, inswp) ==
    /\ first = npages[p] - want[p]
    /\ inram = Len(frm_lst[p]) /\ inswp = Len(frm_lst_swap[p])
    /\ inram + inswp > 0
    /\ first + inram + inswp = npages[p]
    /\ npages[p] <= MaxPages
    /\ pgd' \in [Proc -> [Page -> Pte]]
    /\ \A q \in Proc, n \in Page : q # p \/ n < first \/ n >= npages[p] => pgd'[q][n] = pgd[q][n]
    /\ \A n \in Page : first <= n /\ n < first + inram =>
          /\ n - first + 1 \in 1..inram
          /\ pgd'[p][n] = SetFpn(frm_lst[p][n - first + 1])
    /\ \A n \in Page : first + inram <= n /\ n < npages[p] =>
          /\ n - first - inram + 1 \in 1..inswp
          /\ pgd'[p][n] = SetSwap(frm_lst_swap[p][n - first - inram + 1])

\* That is what its loops leave in the page table.
LEMMA MapRangeEntries ==
    ASSUME Shape, NEW p \in Proc, MapRange(p)
    PROVE  \E first, inram, inswp \in Nat : RangeMapped(p, first, inram, inswp)
<1>0. /\ MaxPages \in Nat
      /\ npages[p] \in Nat /\ npages[p] <= MaxPages
      /\ want[p] \in Nat /\ want[p] > 0 /\ want[p] <= npages[p]
      /\ frm_lst[p] \in Seq(RamFrame) /\ frm_lst_swap[p] \in Seq(SwpFrame)
      /\ Len(frm_lst[p]) \in Nat /\ Len(frm_lst_swap[p]) \in Nat
      /\ Len(frm_lst[p]) + Len(frm_lst_swap[p]) = want[p]
  BY PagingAssumption DEF Shape, PagingTypeOK, AllocShape, MapRange, Got
<1>1. PICK first \in Nat, inram \in Nat, inswp \in Nat :
           /\ first = npages[p] - want[p]
           /\ inram = Len(frm_lst[p]) /\ inswp = Len(frm_lst_swap[p])
           /\ inram + inswp = want[p]
           /\ first + inram + inswp = npages[p]
  <2>1. PICK inram \in Nat, inswp \in Nat : inram = Len(frm_lst[p]) /\ inswp = Len(frm_lst_swap[p])
    BY <1>0
  <2>2. inram + inswp = want[p]
    BY <1>0, <2>1
  <2>3. PICK first \in Nat : first = npages[p] - want[p]
    BY <1>0
  <2>4. first + inram + inswp = npages[p]
    <3>1. PICK k \in Nat, w \in Nat : k = npages[p] /\ w = want[p]
      BY <1>0
    <3>2. first = k - w /\ inram + inswp = w
      BY <2>2, <2>3, <3>1
    <3>3. first + inram + inswp = k
      BY <3>2
    <3> QED
      BY <3>1, <3>3
  <2> QED
    BY <2>1, <2>2, <2>3, <2>4, Zenon
<1>2. npages[p] \in Nat /\ npages[p] = first + inram + inswp
  BY <1>0, <1>1
<1>11. \A n \in Page : n \in Nat
  BY <1>0 DEF Page
<1> DEFINE e == [n \in Page |->
          IF n \in first..(first + inram - 1) THEN SetFpn(frm_lst[p][n - first + 1])
          ELSE IF n \in (first + inram)..(npages[p] - 1)
                 THEN SetSwap(frm_lst_swap[p][n - first - inram + 1])
          ELSE pgd[p][n]]
<1>3. pgd' = [pgd EXCEPT ![p] = e]
  BY <1>1 DEF MapRange
<1>4. ASSUME NEW n \in Page, first <= n, n < first + inram
      PROVE  /\ n - first + 1 \in 1..inram
             /\ e[n] = SetFpn(frm_lst[p][n - first + 1])
  <2>1. n \in first..(first + inram - 1) /\ n - first + 1 \in 1..inram
    BY <1>4 DEF Page
  <2> QED
    BY <2>1
<1>5. ASSUME NEW n \in Page, first + inram <= n, n < npages[p]
      PROVE  /\ n - first - inram + 1 \in 1..inswp
             /\ e[n] = SetSwap(frm_lst_swap[p][n - first - inram + 1])
  <2>1. n - first - inram + 1 \in 1..inswp
    BY <1>2, <1>5, <1>11
  <2>2. n \in (first + inram)..(npages[p] - 1) /\ n \notin first..(first + inram - 1)
    BY <1>0, <1>5 DEF Page
  <2> QED
    BY <2>1, <2>2
<1>6. ASSUME NEW n \in Page, n < first \/ n >= npages[p] PROVE e[n] = pgd[p][n]
  <2>1. n \notin first..(first + inram - 1) /\ n \notin (first + inram)..(npages[p] - 1)
    BY <1>2, <1>6, <1>11
  <2> QED
    BY <2>1
<1> HIDE DEF e
<1>7. ASSUME NEW n \in Page PROVE e[n] \in Pte
  <2>1. CASE first <= n /\ n < first + inram
    <3>1. frm_lst[p][n - first + 1] \in RamFrame
      BY <1>0, <1>1, <1>4, <2>1, ElementOfSeq
    <3>2. SetFpn(frm_lst[p][n - first + 1]) \in Pte
      BY <3>1, PagingAssumption DEF SetFpn, Pte, RamFrame
    <3> QED
      BY <1>4, <2>1, <3>2
  <2>2. CASE first + inram <= n /\ n < npages[p]
    <3>1. frm_lst_swap[p][n - first - inram + 1] \in SwpFrame
      BY <1>0, <1>1, <1>5, <2>2, ElementOfSeq
    <3>2. SetSwap(frm_lst_swap[p][n - first - inram + 1]) \in Pte
      BY <3>1, PagingAssumption DEF SetSwap, Pte, SwpFrame
    <3> QED
      BY <1>5, <2>2, <3>2
  <2>3. CASE n < first \/ n >= npages[p]
    BY <1>6, <2>3 DEF Shape, PagingTypeOK
  <2> QED
    BY <1>0, <2>1, <2>2, <2>3 DEF Page
<1>8. e \in [Page -> Pte]
  <2>1. e = [n \in Page |-> e[n]]
    BY DEF e
  <2> QED
    BY <1>7, <2>1
<1>9. pgd' \in [Proc -> [Page -> Pte]] /\ pgd'[p] = e /\ \A q \in Proc : q # p => pgd'[q] = pgd[q]
  BY <1>3, <1>8 DEF Shape, PagingTypeOK
<1>10. \A q \in Proc, n \in Page : q # p \/ n < first \/ n >= npages[p] => pgd'[q][n] = pgd[q][n]
  BY <1>6, <1>9
<1>12. inram + inswp > 0 /\ npages[p] <= MaxPages
  BY <1>0, <1>1
<1>13. /\ \A n \in Page : first <= n /\ n < first + inram =>
             /\ n - first + 1 \in 1..inram
             /\ pgd'[p][n] = SetFpn(frm_lst[p][n - first + 1])
       /\ \A n \in Page : first + inram <= n /\ n < npages[p] =>
             /\ n - first - inram + 1 \in 1..inswp
             /\ pgd'[p][n] = SetSwap(frm_lst_swap[p][n - first - inram + 1])
  BY <1>4, <1>5, <1>9
<1> QED
  BY <1>1, <1>9, <1>10, <1>12, <1>13 DEF RangeMapped

\* The entries after an exchange: the victim and the page that was missed change
\* places, every other entry stays.
LEMMA SwapInEntries ==
    ASSUME Shape, NEW p \in Proc, SwapIn(p)
    PROVE  /\ fault[p].vicpgn \in Page /\ fault[p].pgn \in Page /\ fault[p].swpfpn \in SwpFrame
           /\ fault[p].vicpgn # fault[p].pgn
           /\ pgd[p][fault[p].vicpgn].present /\ ~pgd[p][fault[p].pgn].present
           /\ VicFpn(p) = pgd[p][fault[p].vicpgn].val /\ VicFpn(p) \in RamFrame
           /\ pgd' \in [Proc -> [Page -> Pte]]
           /\ pgd'[p][fault[p].vicpgn] = SetSwap(fault[p].swpfpn)
           /\ pgd'[p][fault[p].pgn] = SetFpn(VicFpn(p))
           /\ \A q \in Proc, n \in Page :
                 q # p \/ n \notin {fault[p].vicpgn, fault[p].pgn} => pgd'[q][n] = pgd[q][n]
<1> DEFINE vic == fault[p].vicpgn
           tgt == fault[p].pgn
<1>1. mpc[p] = "in"
  BY DEF SwapIn
<1>2. vic \in Page /\ tgt \in Page /\ fault[p].swpfpn \in SwpFrame
  BY DEF Shape, PagingTypeOK
<1>3. pgd[p][vic].present /\ ~pgd[p][tgt].present
  BY <1>1 DEF Shape, FaultShape
<1>4. VicFpn(p) = pgd[p][vic].val /\ VicFpn(p) \in RamFrame
  BY <1>2, <1>3 DEF VicFpn, Fpn, Shape, PagingTypeOK
<1>5. SetSwap(fault[p].swpfpn) \in Pte /\ SetFpn(VicFpn(p)) \in Pte
  BY <1>2, <1>4, PagingAssumption DEF SetSwap, SetFpn, Pte, RamFrame, SwpFrame
<1> DEFINE e == [[pgd[p] EXCEPT ![vic] = SetSwap(fault[p].swpfpn)] EXCEPT ![tgt] = SetFpn(VicFpn(p))]
<1>6. /\ e \in [Page -> Pte] /\ e[tgt] = SetFpn(VicFpn(p)) /\ e[vic] = SetSwap(fault[p].swpfpn)
      /\ \A n \in Page : n \notin {vic, tgt} => e[n] = pgd[p][n]
  BY <1>2, <1>3, <1>5 DEF Shape, PagingTypeOK
<1>7. pgd' = [pgd EXCEPT ![p] = e]
  BY <1>2 DEF SwapIn, Shape, PagingTypeOK
<1> HIDE DEF e
<1>8. pgd' \in [Proc -> [Page -> Pte]] /\ pgd'[p] = e /\ \A q \in Proc : q # p => pgd'[q] = pgd[q]
  BY <1>6, <1>7 DEF Shape, PagingTypeOK
<1> QED
  BY <1>2, <1>3, <1>4, <1>6, <1>8

\* The number of frames that an allocation got.
LEMMA GotType ==
    ASSUME PagingTypeOK, NEW p \in Proc
    PROVE  Got(p) \in Nat /\ (Got(p) = 0 <=> frm_lst[p] = <<>> /\ frm_lst_swap[p] = <<>>)
<1>1. frm_lst[p] \in Seq(RamFrame) /\ frm_lst_swap[p] \in Seq(SwpFrame)
  BY DEF PagingTypeOK
<1>2. PICK a \in Nat, b \in Nat : a = Len(frm_lst[p]) /\ b = Len(frm_lst_swap[p])
  BY <1>1
<1>3. (a = 0 <=> frm_lst[p] = <<>>) /\ (b = 0 <=> frm_lst_swap[p] = <<>>)
  BY <1>1, <1>2
<1>4. Got(p) = a + b
  BY <1>2 DEF Got
<1>5. a + b \in Nat /\ (a + b = 0 <=> a = 0 /\ b = 0)
  OBVIOUS
<1> QED
  BY <1>3, <1>4, <1>5

\* A step of an allocation keeps the shape.
LEMMA AllocShapeStep ==
    ASSUME Shape, NEW p \in Proc, Alloc(p)
    PROVE  Shape'
<1> USE PagingAssumption
<1>0. PagingTypeOK /\ AllocShape /\ FaultShape /\ PteShape
  BY DEF Shape
<1>1. ASSUME NEW k \in 1..MaxPages, IncLimit(p, k) PROVE Shape'
  <2>1. npages[p] + k \in 0..MaxPages /\ k \in 0..MaxPages
    BY <1>0, <1>1 DEF PagingTypeOK, IncLimit
  <2>2. PagingTypeOK'
    BY <1>0, <1>1, <2>1 DEF PagingTypeOK, IncLimit, Goto, memory
  <2>3. AllocShape'
    <3>1. want'[p] = k /\ npages'[p] = npages[p] + k /\ want[p] = 0 /\ npages[p] \in Nat /\ want[p] >= Got(p)
      BY <1>0, <1>1 DEF PagingTypeOK, IncLimit, AllocShape
    <3>3. Got(p) \in Nat /\ Got(p)' = Got(p)
      <4>1. Got(p) \in Nat
        BY <1>0, GotType
      <4>2. Got(p)' = Got(p)
        BY <1>1 DEF IncLimit, Got
      <4> QED
        BY <4>1, <4>2
    <3>4. k <= npages[p] + k /\ Got(p) <= k /\ k > 0
      BY <3>1, <3>3
    <3>5. mpc'[p] = "alloc" /\ \A q \in Proc : q # p =>
              mpc'[q] = mpc[q] /\ want'[q] = want[q] /\ npages'[q] = npages[q] /\ Got(q)' = Got(q)
      BY <1>0, <1>1 DEF PagingTypeOK, IncLimit, Goto, Got
    <3> QED
      BY <1>0, <3>1, <3>3, <3>4, <3>5 DEF AllocShape
  <2>4. FaultShape' /\ PteShape'
    BY <1>0, <1>1 DEF PagingTypeOK, IncLimit, Goto, FaultShape, PteShape
  <2> QED
    BY <2>2, <2>3, <2>4 DEF Shape
<1>2. ASSUME GetRamFrame(p) PROVE Shape'
  <2>1. /\ Tail(ram_free) \in Seq(RamFrame)
        /\ <<Head(ram_free)>> \o frm_lst[p] \in Seq(RamFrame)
        /\ Len(<<Head(ram_free)>> \o frm_lst[p]) = Len(frm_lst[p]) + 1
        /\ Len(frm_lst[p]) \in Nat
    BY <1>0, <1>2, TailElements, ConsElements DEF PagingTypeOK, GetRamFrame
  <2>2. PagingTypeOK'
    BY <1>0, <1>2, <2>1 DEF PagingTypeOK, GetRamFrame, tables
  <2>3. AllocShape'
    <3>1. Len(frm_lst_swap[p]) \in Nat /\ want[p] \in Nat
      BY <1>0 DEF PagingTypeOK
    <3>2. Got(p)' = Got(p) + 1 /\ Got(p) \in Nat /\ Got(p) < want[p]
      BY <1>0, <1>2, <2>1, <3>1 DEF PagingTypeOK, GetRamFrame, Got
    <3>3. Got(p)' <= want[p]
      BY <3>1, <3>2
    <3>4. \A q \in Proc : q # p => Got(q)' = Got(q)
      BY <1>0, <1>2 DEF PagingTypeOK, GetRamFrame, Got
    <3>5. UNCHANGED <<want, npages, mpc>>
      BY <1>2 DEF GetRamFrame, tables
    <3> QED
      BY <1>0, <3>3, <3>4, <3>5 DEF AllocShape
  <2>4. FaultShape' /\ PteShape'
    BY <1>0, <1>2 DEF GetRamFrame, tables, FaultShape, PteShape
  <2> QED
    BY <2>2, <2>3, <2>4 DEF Shape
<1>3. ASSUME GetSwpFrame(p) PROVE Shape'
  <2>1. /\ Tail(swp_free) \in Seq(SwpFrame)
        /\ <<Head(swp_free)>> \o frm_lst_swap[p] \in Seq(SwpFrame)
        /\ Len(<<Head(swp_free)>> \o frm_lst_swap[p]) = Len(frm_lst_swap[p]) + 1
        /\ Len(frm_lst_swap[p]) \in Nat
    BY <1>0, <1>3, TailElements, ConsElements DEF PagingTypeOK, GetSwpFrame
  <2>2. PagingTypeOK'
    BY <1>0, <1>3, <2>1 DEF PagingTypeOK, GetSwpFrame, tables
  <2>3. AllocShape'
    <3>1. Len(frm_lst[p]) \in Nat /\ want[p] \in Nat
      BY <1>0 DEF PagingTypeOK
    <3>2. Got(p)' = Got(p) + 1 /\ Got(p) \in Nat /\ Got(p) < want[p]
      BY <1>0, <1>3, <2>1, <3>1 DEF PagingTypeOK, GetSwpFrame, Got
    <3>3. Got(p)' <= want[p]
      BY <3>1, <3>2
    <3>4. \A q \in Proc : q # p => Got(q)' = Got(q)
      BY <1>0, <1>3 DEF PagingTypeOK, GetSwpFrame, Got
    <3>5. UNCHANGED <<want, npages, mpc>>
      BY <1>3 DEF GetSwpFrame, tables
    <3> QED
      BY <1>0, <3>3, <3>4, <3>5 DEF AllocShape
  <2>4. FaultShape' /\ PteShape'
    BY <1>0, <1>3 DEF GetSwpFrame, tables, FaultShape, PteShape
  <2> QED
    BY <2>2, <2>3, <2>4 DEF Shape
<1>4. ASSUME EmptyLists(p), Goto(p, "idle"), npages' = npages
      PROVE  /\ want' \in [Proc -> 0..MaxPages]
             /\ frm_lst' \in [Proc -> Seq(RamFrame)] /\ frm_lst_swap' \in [Proc -> Seq(SwpFrame)]
             /\ mpc' \in [Proc -> {"idle", "alloc", "out", "in", "access"}]
             /\ AllocShape'
  <2>1. <<>> \in Seq(RamFrame) /\ <<>> \in Seq(SwpFrame) /\ 0 \in 0..MaxPages
    OBVIOUS
  <2>2. /\ want' \in [Proc -> 0..MaxPages]
        /\ frm_lst' \in [Proc -> Seq(RamFrame)] /\ frm_lst_swap' \in [Proc -> Seq(SwpFrame)]
        /\ mpc' \in [Proc -> {"idle", "alloc", "out", "in", "access"}]
    BY <1>0, <1>4, <2>1 DEF PagingTypeOK, EmptyLists, Goto
  <2>3. want'[p] = 0 /\ Got(p)' = 0 /\ mpc'[p] = "idle" /\ npages[p] \in Nat
    BY <1>0, <1>4 DEF PagingTypeOK, EmptyLists, Goto, Got
  <2>4. \A q \in Proc : q # p => mpc'[q] = mpc[q] /\ want'[q] = want[q] /\ Got(q)' = Got(q)
    BY <1>0, <1>4 DEF PagingTypeOK, EmptyLists, Goto, Got
  <2>5. AllocShape'
    BY <1>0, <1>4, <2>3, <2>4 DEF AllocShape
  <2> QED
    BY <2>2, <2>5
<1>5. ASSUME OutOfMemory(p) PROVE Shape'
  <2>1. EmptyLists(p) /\ Goto(p, "idle") /\ npages' = npages
    BY <1>5 DEF OutOfMemory, tables
  <2>2. PagingTypeOK'
    BY <1>0, <1>4, <1>5, <2>1 DEF PagingTypeOK, OutOfMemory, memory, tables
  <2>3. FaultShape' /\ PteShape'
    BY <1>0, <1>5 DEF PagingTypeOK, OutOfMemory, Goto, tables, FaultShape, PteShape
  <2> QED
    BY <1>4, <2>1, <2>2, <2>3 DEF Shape
<1>6. ASSUME MapRange(p) PROVE Shape'
  <2>1. EmptyLists(p) /\ Goto(p, "idle") /\ npages' = npages
    BY <1>6 DEF MapRange
  <2>20. PICK first \in Nat, inram \in Nat, inswp \in Nat : RangeMapped(p, first, inram, inswp)
    BY <1>6, MapRangeEntries
  <2>2. /\ first = npages[p] - want[p]
        /\ inram = Len(frm_lst[p]) /\ inswp = Len(frm_lst_swap[p])
        /\ inram + inswp > 0
        /\ first + inram + inswp = npages[p]
        /\ npages[p] <= MaxPages
        /\ pgd' \in [Proc -> [Page -> Pte]]
        /\ \A q \in Proc, n \in Page : q # p \/ n < first \/ n >= npages[p] => pgd'[q][n] = pgd[q][n]
        /\ \A n \in Page : first <= n /\ n < first + inram =>
              /\ n - first + 1 \in 1..inram
              /\ pgd'[p][n] = SetFpn(frm_lst[p][n - first + 1])
        /\ \A n \in Page : first + inram <= n /\ n < npages[p] =>
              /\ n - first - inram + 1 \in 1..inswp
              /\ pgd'[p][n] = SetSwap(frm_lst_swap[p][n - first - inram + 1])
    BY <2>20 DEF RangeMapped
  <2>3. frm_lst[p] \in Seq(RamFrame) /\ frm_lst_swap[p] \in Seq(SwpFrame)
    BY <1>0 DEF PagingTypeOK
  <2>4. ASSUME NEW q \in Proc, NEW n \in Page
        PROVE  /\ pgd'[q][n].val \in IF pgd'[q][n].present THEN RamFrame ELSE SwpFrame
               /\ ~(pgd'[q][n].present /\ pgd'[q][n].swapped)
    <3>1. CASE q # p \/ n < first \/ n >= npages[p]
      <4>1. pgd'[q][n] = pgd[q][n]
        BY <2>2, <3>1
      <4> QED
        BY <1>0, <4>1 DEF PagingTypeOK, PteShape
    <3>2. CASE q = p /\ first <= n /\ n < first + inram
      <4>1. frm_lst[p][n - first + 1] \in RamFrame
        BY <2>2, <2>3, <3>2, ElementOfSeq
      <4>2. pgd'[p][n] = SetFpn(frm_lst[p][n - first + 1])
        BY <2>2, <3>2
      <4> QED
        BY <3>2, <4>1, <4>2, PteFields
    <3>3. CASE q = p /\ first + inram <= n /\ n < npages[p]
      <4>1. frm_lst_swap[p][n - first - inram + 1] \in SwpFrame
        BY <2>2, <2>3, <3>3, ElementOfSeq
      <4>2. pgd'[p][n] = SetSwap(frm_lst_swap[p][n - first - inram + 1])
        BY <2>2, <3>3
      <4> QED
        BY <3>3, <4>1, <4>2, PteFields
    <3>4. n \in Nat /\ npages[p] \in Nat
      BY <1>0 DEF PagingTypeOK, Page
    <3> QED
      BY <3>1, <3>2, <3>3, <3>4
  <2>5. fifo_pgn' \in [Proc -> Seq(Page)]
    <3>1. npages[p] - want[p] + 1 \in Page /\ npages[p] \in Page /\ npages[p] - want[p] + 1 <= npages[p]
      <4>0. npages[p] = first + inram + inswp /\ inram + inswp > 0 /\ npages[p] <= MaxPages
        BY <2>2
      <4>1. first + 1 \in Page /\ npages[p] \in Page /\ first + 1 <= npages[p]
        BY <4>0 DEF Page
      <4> QED
        BY <2>2, <4>1
    <3>2. EnlistRange(fifo_pgn[p], npages[p] - want[p] + 1, npages[p]) \in Seq(Page)
      BY <1>0, <3>1, EnlistRangeElements DEF PagingTypeOK
    <3> QED
      BY <1>0, <1>6, <3>2 DEF PagingTypeOK, MapRange
  <2>6. written' \in [Proc -> [Page -> [Offset -> Value \cup {None}]]]
    <3>1. Unwritten \in [Offset -> Value \cup {None}]
      BY DEF Unwritten
    <3>2. [n \in Page |-> IF n \in (npages[p] - want[p])..(npages[p] - 1) THEN Unwritten ELSE written[p][n]]
            \in [Page -> [Offset -> Value \cup {None}]]
      BY <1>0, <3>1 DEF PagingTypeOK
    <3> QED
      BY <1>0, <1>6, <3>2 DEF PagingTypeOK, MapRange
  <2>7. PagingTypeOK'
    BY <1>0, <1>4, <1>6, <2>1, <2>2, <2>4, <2>5, <2>6 DEF PagingTypeOK, MapRange, memory
  <2>8. PteShape'
    BY <2>4 DEF PteShape
  <2>9. FaultShape'
    <3>1. mpc'[p] = "idle" /\ \A q \in Proc : q # p => mpc'[q] = mpc[q]
      BY <1>0, <2>1 DEF PagingTypeOK, Goto
    <3>2. \A q \in Proc : q # p => /\ fault'[q] = fault[q]
                                   /\ fault[q].vicpgn \in Page /\ fault[q].pgn \in Page
      BY <1>0, <1>6 DEF PagingTypeOK, MapRange
    <3>3. \A q \in Proc, n \in Page : q # p => pgd'[q][n] = pgd[q][n]
      BY <2>2
    <3>4. ASSUME NEW q \in Proc, q # p
          PROVE  /\ mpc'[q] \in {"out", "in"} =>
                       (pgd'[q][fault'[q].vicpgn]).present /\ ~(pgd'[q][fault'[q].pgn]).present
                 /\ mpc'[q] = "access" => (pgd'[q][fault'[q].pgn]).present
      BY <1>0, <3>1, <3>2, <3>3, <3>4 DEF FaultShape
    <3> QED
      BY <3>1, <3>4 DEF FaultShape
  <2> QED
    BY <1>4, <2>1, <2>7, <2>8, <2>9 DEF Shape
<1> QED
  BY <1>1, <1>2, <1>3, <1>5, <1>6 DEF Alloc

\* A step of an access keeps the shape.
LEMMA AccessShapeStep ==
    ASSUME Shape, NEW p \in Proc, Access(p)
    PROVE  Shape'
<1> USE PagingAssumption
<1>0. PagingTypeOK /\ AllocShape /\ FaultShape /\ PteShape
  BY DEF Shape
<1>1. ASSUME NEW n \in Page, NEW o \in Offset, NEW v \in Value \cup {None}, Hit(p, n, o, v) PROVE Shape'
  <2>1. PagingTypeOK'
    BY <1>0, <1>1, TouchType DEF PagingTypeOK, Hit, tables, locals
  <2>2. AllocShape' /\ FaultShape' /\ PteShape'
    BY <1>0, <1>1 DEF Hit, tables, locals, AllocShape, FaultShape, PteShape, Got
  <2> QED
    BY <2>1, <2>2 DEF Shape
<1>2. ASSUME NEW n \in Page, Drop(p, n) PROVE Shape'
  BY <1>0, <1>2 DEF Drop, vars, memory, tables, locals, Shape, PagingTypeOK, AllocShape, FaultShape, PteShape, Got
<1>3. ASSUME NEW n \in Page, NEW o \in Offset, NEW v \in Value \cup {None}, NEW vic \in Page, Miss(p, n, o, v, vic)
      PROVE  Shape'
  <2>1. PICK f \in SwpFrame :
       /\ \/ swp_free # <<>> /\ f = Head(swp_free) /\ swp_free' = Tail(swp_free) /\ UNCHANGED wild
          \/ swp_free = <<>> /\ wild' = TRUE /\ UNCHANGED swp_free
       /\ fault' = [fault EXCEPT ![p] = [pgn |-> n, off |-> o, vicpgn |-> vic, swpfpn |-> f,
                                         fpn |-> Fpn(pgd[p][n]), data |-> v]]
    BY <1>3 DEF Miss
  <2>2. swp_free' \in Seq(SwpFrame) /\ wild' \in BOOLEAN
    <3>1. swp_free \in Seq(SwpFrame) /\ wild \in BOOLEAN
      BY <1>0 DEF PagingTypeOK
    <3>2. CASE swp_free # <<>> /\ swp_free' = Tail(swp_free) /\ UNCHANGED wild
      <4>1. swp_free' \in Seq(SwpFrame)
        BY <3>1, <3>2, TailElements
      <4>2. wild' \in BOOLEAN
        BY <3>1, <3>2
      <4> QED
        BY <4>1, <4>2
    <3>3. CASE swp_free = <<>> /\ wild' = TRUE /\ UNCHANGED swp_free
      BY <3>1, <3>3
    <3> QED
      BY <2>1, <3>2, <3>3
  <2>3. Fpn(pgd[p][n]) \in 0..(FpnMod - 1)
    <3>1. pgd[p][n] \in Pte /\ (pgd[p][n].present => pgd[p][n].val \in RamFrame)
      BY <1>0 DEF PagingTypeOK
    <3> QED
      BY <3>1, FpnType
  <2>4. fault' \in [Proc -> [pgn : Page, off : Offset, vicpgn : Page, swpfpn : SwpFrame,
                             fpn : 0..(FpnMod - 1), data : Value \cup {None}]]
    BY <1>0, <2>1, <2>3 DEF PagingTypeOK
  <2>5. mpc' \in [Proc -> {"idle", "alloc", "out", "in", "access"}]
    BY <1>0, <1>3 DEF PagingTypeOK, Miss, Goto
  <2>6. PagingTypeOK'
    BY <1>0, <1>3, <2>2, <2>4, <2>5 DEF PagingTypeOK, Miss, tables, locals
  <2>7. mpc[p] = "idle" /\ mpc'[p] = "out" /\ \A q \in Proc : q # p => mpc'[q] = mpc[q]
    BY <1>0, <1>3 DEF PagingTypeOK, Miss, Goto
  <2>8. UNCHANGED <<want, npages, frm_lst, frm_lst_swap, pgd>>
    BY <1>3 DEF Miss, tables, locals
  <2>9. AllocShape'
    BY <1>0, <2>7, <2>8 DEF AllocShape, Got
  <2>10. FaultShape'
    <3>1. fault'[p].pgn = n /\ fault'[p].vicpgn = vic /\ \A q \in Proc : q # p => fault'[q] = fault[q]
      BY <1>0, <2>1 DEF PagingTypeOK
    <3>2. pgd[p][vic].present /\ ~pgd[p][n].present
      BY <1>3 DEF Miss, IsVictim
    <3> QED
      BY <1>0, <2>7, <2>8, <3>1, <3>2 DEF FaultShape
  <2> QED
    BY <1>0, <2>6, <2>8, <2>9, <2>10 DEF Shape, PteShape
<1>4. ASSUME NEW n \in Page, NEW vic \in Page, MissOutside(p, n, vic) PROVE Shape'
  <2>1. PagingTypeOK'
    BY <1>0, <1>4 DEF PagingTypeOK, MissOutside, memory, tables, locals
  <2>2. AllocShape' /\ FaultShape' /\ PteShape'
    BY <1>0, <1>4 DEF MissOutside, tables, locals, AllocShape, FaultShape, PteShape, Got
  <2> QED
    BY <2>1, <2>2 DEF Shape
<1>5. ASSUME SwapOut(p) PROVE Shape'
  <2>1. /\ mpc[p] = "out" /\ mpc'[p] = "in" /\ \A q \in Proc : q # p => mpc'[q] = mpc[q]
        /\ mpc' \in [Proc -> {"idle", "alloc", "out", "in", "access"}]
    BY <1>0, <1>5 DEF PagingTypeOK, SwapOut, Goto
  <2>2. VicFpn(p) \in RamFrame
    BY <1>0, <2>1 DEF PagingTypeOK, FaultShape, VicFpn, Fpn
  <2>3. swp' \in [SwpFrame -> [Offset -> Data \cup {None}]]
    BY <1>0, <1>5, <2>2 DEF PagingTypeOK, SwapOut
  <2>4. PagingTypeOK'
    BY <1>0, <1>5, <2>1, <2>3 DEF PagingTypeOK, SwapOut, tables, locals
  <2>5. UNCHANGED <<want, npages, frm_lst, frm_lst_swap, pgd, fault>>
    BY <1>5 DEF SwapOut, tables, locals
  <2>6. AllocShape'
    BY <1>0, <2>1, <2>5 DEF AllocShape, Got
  <2>7. FaultShape'
    BY <1>0, <2>1, <2>5 DEF FaultShape
  <2>8. PteShape'
    BY <1>0, <2>5 DEF PteShape
  <2> QED
    BY <2>4, <2>6, <2>7, <2>8 DEF Shape
<1>6. ASSUME SwapIn(p) PROVE Shape'
  <2>1. /\ mpc[p] = "in" /\ mpc'[p] = "access" /\ \A q \in Proc : q # p => mpc'[q] = mpc[q]
        /\ mpc' \in [Proc -> {"idle", "alloc", "out", "in", "access"}]
    BY <1>0, <1>6 DEF PagingTypeOK, SwapIn, Goto
  <2>2. pgd[p][fault[p].pgn].val \in SwpFrame
    BY <1>0, <2>1 DEF PagingTypeOK, FaultShape
  <2>3. ram' \in [RamFrame -> [Offset -> Data \cup {None}]]
    <3>1. PICK fpn \in RamFrame, page \in [Offset -> Data \cup {None}] : ram' = [ram EXCEPT ![fpn] = page]
      <4>1. VicFpn(p) \in RamFrame
        BY <1>0, <1>6, SwapInEntries
      <4>2. swp[pgd[p][fault[p].pgn].val] \in [Offset -> Data \cup {None}]
        BY <1>0, <2>2 DEF PagingTypeOK
      <4>3. ram' = [ram EXCEPT ![VicFpn(p)] = swp[pgd[p][fault[p].pgn].val]]
        BY <1>6 DEF SwapIn
      <4> QED
        BY <4>1, <4>2, <4>3
    <3>2. ram \in [RamFrame -> [Offset -> Data \cup {None}]]
      BY <1>0 DEF PagingTypeOK
    <3> QED
      BY <3>1, <3>2
  <2>4. fifo_pgn' \in [Proc -> Seq(Page)]
    BY <1>0, <1>6, EnlistElements DEF PagingTypeOK, SwapIn
  <2>5. ASSUME NEW q \in Proc, NEW n \in Page
        PROVE  /\ pgd'[q][n].val \in IF pgd'[q][n].present THEN RamFrame ELSE SwpFrame
               /\ ~(pgd'[q][n].present /\ pgd'[q][n].swapped)
    <3>1. CASE q = p /\ n = fault[p].vicpgn
      BY <1>6, <3>1, SwapInEntries, PteFields
    <3>2. CASE q = p /\ n = fault[p].pgn
      BY <1>6, <3>2, SwapInEntries, PteFields
    <3>3. CASE q # p \/ n \notin {fault[p].vicpgn, fault[p].pgn}
      <4>1. pgd'[q][n] = pgd[q][n]
        BY <1>6, <3>3, SwapInEntries
      <4>2. /\ pgd[q][n].val \in IF pgd[q][n].present THEN RamFrame ELSE SwpFrame
            /\ ~(pgd[q][n].present /\ pgd[q][n].swapped)
        BY <1>0 DEF PagingTypeOK, PteShape
      <4> QED
        BY <4>1, <4>2
    <3> QED
      BY <3>1, <3>2, <3>3
  <2>6. PagingTypeOK'
    BY <1>0, <1>6, <2>1, <2>3, <2>4, <2>5, SwapInEntries DEF PagingTypeOK, SwapIn, locals
  <2>7. UNCHANGED <<want, npages, frm_lst, frm_lst_swap, fault>>
    BY <1>6 DEF SwapIn, locals
  <2>8. AllocShape'
    BY <1>0, <2>1, <2>7 DEF AllocShape, Got
  <2>9. FaultShape'
    <3>1. \A q \in Proc : fault[q].vicpgn \in Page /\ fault[q].pgn \in Page
      BY <1>0 DEF PagingTypeOK
    <3>2. pgd'[p][fault[p].pgn].present
      BY <1>6, SwapInEntries, PteFields
    <3>3. \A q \in Proc, n \in Page : q # p => pgd'[q][n] = pgd[q][n]
      BY <1>6, SwapInEntries
    <3> QED
      BY <1>0, <2>1, <2>7, <3>1, <3>2, <3>3 DEF FaultShape
  <2> QED
    BY <2>5, <2>6, <2>8, <2>9 DEF Shape, PteShape
<1>7. ASSUME Finish(p) PROVE Shape'
  <2>1. /\ mpc[p] = "access" /\ mpc'[p] = "idle" /\ \A q \in Proc : q # p => mpc'[q] = mpc[q]
        /\ mpc' \in [Proc -> {"idle", "alloc", "out", "in", "access"}]
    BY <1>0, <1>7 DEF PagingTypeOK, Finish, Goto
  <2>2. fault[p].pgn \in Page /\ fault[p].off \in Offset /\ fault[p].data \in Value \cup {None}
    BY <1>0 DEF PagingTypeOK
  <2>3. /\ ram' \in [RamFrame -> [Offset -> Data \cup {None}]]
        /\ written' \in [Proc -> [Page -> [Offset -> Value \cup {None}]]]
        /\ stray' \in BOOLEAN /\ undefined' \in BOOLEAN
    BY <1>0, <1>7, <2>2, TouchType DEF Finish
  <2>4. NoFault \in [pgn : Page, off : Offset, vicpgn : Page, swpfpn : SwpFrame,
                     fpn : 0..(FpnMod - 1), data : Value \cup {None}]
    BY DEF NoFault, Page, Offset, SwpFrame
  <2>5. fault' \in [Proc -> [pgn : Page, off : Offset, vicpgn : Page, swpfpn : SwpFrame,
                             fpn : 0..(FpnMod - 1), data : Value \cup {None}]]
    BY <1>0, <1>7, <2>4 DEF PagingTypeOK, Finish
  <2>6. PagingTypeOK'
    BY <1>0, <1>7, <2>1, <2>3, <2>5 DEF PagingTypeOK, Finish, tables, locals
  <2>7. UNCHANGED <<want, npages, frm_lst, frm_lst_swap, pgd>> /\ \A q \in Proc : q # p => fault'[q] = fault[q]
    BY <1>0, <1>7 DEF PagingTypeOK, Finish, tables, locals
  <2>8. AllocShape'
    BY <1>0, <2>1, <2>7 DEF AllocShape, Got
  <2>9. FaultShape'
    BY <1>0, <2>1, <2>7 DEF FaultShape
  <2>10. PteShape'
    BY <1>0, <2>7 DEF PteShape
  <2> QED
    BY <2>6, <2>8, <2>9, <2>10 DEF Shape
<1> QED
  BY <1>1, <1>2, <1>3, <1>4, <1>5, <1>6, <1>7 DEF Access

\* The shape is inductive by itself.
LEMMA ShapeStep == Shape /\ [Next]_vars => Shape'
<1> SUFFICES ASSUME Shape, [Next]_vars PROVE Shape'
  OBVIOUS
<1>1. CASE UNCHANGED vars
  BY <1>1 DEF vars, memory, tables, locals, Shape, PagingTypeOK, AllocShape, FaultShape, PteShape, Got
<1>2. CASE \E p \in Proc : Alloc(p) \/ Access(p)
  BY <1>2, AllocShapeStep, AccessShapeStep
<1> QED
  BY <1>1, <1>2 DEF Next, Undefined

\* The page tables, the lists and the locals of every process keep their types,
\* and what an entry is read as is always inside its device, whatever the
\* processes do next to each other.
THEOREM PagingTypeCorrect == Spec => []PagingTypeOK
<1>1. Spec => []Shape
  BY ShapeInit, ShapeStep, PTL DEF Spec
<1>2. Shape => PagingTypeOK
  BY DEF Shape
<1> QED
  BY <1>1, <1>2, PTL

-----------------------------------------------------------------------------
(* The frames of RAM *)

\* At the start every frame is in the free list, once.
LEMMA RamInit == Init => RamApart
<1> SUFFICES ASSUME Init PROVE RamApart
  OBVIOUS
<1>1. \A p \in Proc : frm_lst[p] = <<>> /\ \A n \in Page : ~pgd[p][n].present
  BY DEF Init, Blank
<1>2. RamFreeOnce
  BY PagingAssumption DEF Init, RamFreeOnce
<1> QED
  BY <1>1, <1>2 DEF RamApart, RamListOnce, RamPageOnce, RamFreeNotListed, RamFreeNotMapped, RamListNotMapped

\* What does not touch the free list, the lists of frames and the page tables.
LEMMA RamUnchanged == RamApart /\ UNCHANGED <<ram_free, frm_lst, pgd>> => RamApart'
  BY DEF RamApart, RamFreeOnce, RamListOnce, RamPageOnce, RamFreeNotListed, RamFreeNotMapped, RamListNotMapped

\* alloc_pages_range() moves the first free frame to the list of the process.
LEMMA RamTaken ==
    ASSUME Shape, RamApart, NEW p \in Proc, GetRamFrame(p)
    PROVE  RamApart'
<1>0. /\ ram_free \in Seq(RamFrame) /\ ram_free # <<>> /\ frm_lst \in [Proc -> Seq(RamFrame)]
      /\ ram_free' = Tail(ram_free) /\ pgd' = pgd
      /\ frm_lst' = [frm_lst EXCEPT ![p] = <<Head(ram_free)>> \o @]
  BY DEF Shape, PagingTypeOK, GetRamFrame, tables
<1>1. /\ 1 \in 1..Len(ram_free)
      /\ \A i \in 1..Len(ram_free') :
            i + 1 \in 1..Len(ram_free) /\ ram_free'[i] = ram_free[i + 1] /\ i \in Nat /\ i # 0
      /\ \A q \in Proc : \A i \in 1..Len(frm_lst'[q]) :
            \/ q = p /\ i = 1 /\ frm_lst'[q][i] = ram_free[1]
            \/ \E j \in 1..Len(frm_lst[q]) :
                  frm_lst'[q][i] = frm_lst[q][j] /\ i = IF q = p THEN j + 1 ELSE j
  <2>1. Moved(ram_free, frm_lst, ram_free', frm_lst', p)
    BY <1>0, TakeElements
  <2> QED
    BY <2>1 DEF Moved
<1>2. /\ \A x \in Proc : \A y \in 1..Len(frm_lst[x]) : ram_free[1] # frm_lst[x][y]
      /\ \A x \in Proc, n \in Page : pgd[x][n].present => ram_free[1] # pgd[x][n].val
  BY <1>1 DEF RamApart, RamFreeNotListed, RamFreeNotMapped
<1>5. RamFreeOnce'
  <2> SUFFICES ASSUME NEW i \in 1..Len(ram_free'), NEW j \in 1..Len(ram_free'), ram_free'[i] = ram_free'[j]
               PROVE  i = j
    BY DEF RamFreeOnce
  <2>1. /\ i + 1 \in 1..Len(ram_free) /\ j + 1 \in 1..Len(ram_free) /\ i \in Nat /\ j \in Nat
        /\ ram_free[i + 1] = ram_free[j + 1]
    BY <1>1
  <2>2. RamFreeOnce
    BY DEF RamApart
  <2>3. i + 1 = j + 1
    BY <2>1, <2>2 DEF RamFreeOnce
  <2> QED
    BY <2>1, <2>3
<1>6. RamListOnce'
  <2> SUFFICES ASSUME NEW q \in Proc, NEW r \in Proc,
                      NEW i \in 1..Len(frm_lst'[q]), NEW j \in 1..Len(frm_lst'[r]),
                      frm_lst'[q][i] = frm_lst'[r][j]
               PROVE  q = r /\ i = j
    BY DEF RamListOnce
  <2>2. CASE q = p /\ i = 1 /\ frm_lst'[q][i] = ram_free[1]
    <3>1. ~\E y \in 1..Len(frm_lst[r]) : frm_lst'[r][j] = frm_lst[r][y]
      BY <1>2, <2>2
    <3>2. r = p /\ j = 1
      BY <1>1, <3>1
    <3> QED
      BY <2>2, <3>2
  <2>3. CASE r = p /\ j = 1 /\ frm_lst'[r][j] = ram_free[1]
    <3>1. ~\E y \in 1..Len(frm_lst[q]) : frm_lst'[q][i] = frm_lst[q][y]
      BY <1>2, <2>3
    <3>2. q = p /\ i = 1
      BY <1>1, <3>1
    <3> QED
      BY <2>3, <3>2
  <2>4. ASSUME NEW x \in 1..Len(frm_lst[q]), NEW y \in 1..Len(frm_lst[r]),
               frm_lst'[q][i] = frm_lst[q][x], i = IF q = p THEN x + 1 ELSE x,
               frm_lst'[r][j] = frm_lst[r][y], j = IF r = p THEN y + 1 ELSE y
        PROVE  q = r /\ i = j
    <3>1. frm_lst[q][x] = frm_lst[r][y]
      BY <2>4
    <3>2. q = r /\ x = y
      BY <3>1 DEF RamApart, RamListOnce
    <3> QED
      BY <2>4, <3>2
  <2>5. CASE /\ \E x \in 1..Len(frm_lst[q]) :
                   frm_lst'[q][i] = frm_lst[q][x] /\ i = IF q = p THEN x + 1 ELSE x
             /\ \E y \in 1..Len(frm_lst[r]) :
                   frm_lst'[r][j] = frm_lst[r][y] /\ j = IF r = p THEN y + 1 ELSE y
    BY <2>4, <2>5
  <2> QED
    BY <1>1, <2>2, <2>3, <2>5
<1>7. RamFreeNotListed'
  <2> SUFFICES ASSUME NEW i \in 1..Len(ram_free'), NEW q \in Proc, NEW j \in 1..Len(frm_lst'[q])
               PROVE  ram_free'[i] # frm_lst'[q][j]
    BY DEF RamFreeNotListed
  <2>1. i + 1 \in 1..Len(ram_free) /\ ram_free'[i] = ram_free[i + 1] /\ i + 1 # 1
    BY <1>1
  <2>2. ram_free[i + 1] # ram_free[1]
    BY <1>1, <2>1 DEF RamApart, RamFreeOnce
  <2>3. \A y \in 1..Len(frm_lst[q]) : ram_free[i + 1] # frm_lst[q][y]
    BY <2>1 DEF RamApart, RamFreeNotListed
  <2> QED
    BY <1>1, <2>1, <2>2, <2>3
<1>8. RamFreeNotMapped'
  BY <1>0, <1>1 DEF RamApart, RamFreeNotMapped
<1>9. RamListNotMapped'
  <2> SUFFICES ASSUME NEW q \in Proc, NEW r \in Proc, NEW i \in 1..Len(frm_lst'[q]), NEW n \in Page,
                      pgd[r][n].present
               PROVE  frm_lst'[q][i] # pgd[r][n].val
    BY <1>0 DEF RamListNotMapped
  <2>1. \A y \in 1..Len(frm_lst[q]) : frm_lst[q][y] # pgd[r][n].val
    BY DEF RamApart, RamListNotMapped
  <2>2. CASE frm_lst'[q][i] = ram_free[1]
    BY <1>2, <2>2
  <2>3. CASE \E y \in 1..Len(frm_lst[q]) : frm_lst'[q][i] = frm_lst[q][y]
    BY <2>1, <2>3
  <2> QED
    BY <1>1, <2>2, <2>3
<1> QED
  BY <1>0, <1>5, <1>6, <1>7, <1>8, <1>9 DEF RamApart, RamPageOnce

\* alloc_pages_range() gives up: the frames in the list of the process go nowhere.
LEMMA RamGivenUp ==
    ASSUME Shape, RamApart, NEW p \in Proc, OutOfMemory(p)
    PROVE  RamApart'
<1>0. /\ ram_free' = ram_free /\ pgd' = pgd /\ frm_lst'[p] = <<>>
      /\ \A q \in Proc : q # p => frm_lst'[q] = frm_lst[q]
  BY DEF Shape, PagingTypeOK, OutOfMemory, EmptyLists, memory, tables
<1>1. \A q \in Proc : \A i \in 1..Len(frm_lst'[q]) : q # p /\ frm_lst'[q] = frm_lst[q]
  BY <1>0
<1>2. RamListOnce'
  BY <1>1 DEF RamApart, RamListOnce
<1>3. RamFreeNotListed'
  BY <1>0, <1>1 DEF RamApart, RamFreeNotListed
<1>4. RamListNotMapped'
  BY <1>0, <1>1 DEF RamApart, RamListNotMapped
<1> QED
  BY <1>0, <1>2, <1>3, <1>4 DEF RamApart, RamFreeOnce, RamPageOnce, RamFreeNotMapped

\* vmap_page_range() moves the frames from the list to the page table.
LEMMA RamMapped ==
    ASSUME Shape, RamApart, NEW p \in Proc, MapRange(p)
    PROVE  RamApart'
<1>0. /\ ram_free' = ram_free /\ frm_lst'[p] = <<>>
      /\ \A q \in Proc : q # p => frm_lst'[q] = frm_lst[q]
  BY DEF Shape, PagingTypeOK, MapRange, EmptyLists, memory
<1>1. \A q \in Proc : \A i \in 1..Len(frm_lst'[q]) : q # p /\ frm_lst'[q] = frm_lst[q]
  BY <1>0
<1>2. PICK first \in Nat : \A q \in Proc, n \in Page : pgd'[q][n].present =>
          \/ pgd[q][n].present /\ pgd'[q][n].val = pgd[q][n].val
          \/ /\ q = p
             /\ \E i \in 1..Len(frm_lst[p]) : i = n - first + 1 /\ pgd'[q][n].val = frm_lst[p][i]
  <2>0. PICK first \in Nat, inram \in Nat, inswp \in Nat : RangeMapped(p, first, inram, inswp)
    BY MapRangeEntries
  <2>1. /\ inram = Len(frm_lst[p]) /\ npages[p] = first + inram + inswp
        /\ \A q \in Proc, n \in Page : q # p \/ n < first \/ n >= npages[p] => pgd'[q][n] = pgd[q][n]
        /\ \A n \in Page : first <= n /\ n < first + inram =>
              /\ n - first + 1 \in 1..inram
              /\ pgd'[p][n] = SetFpn(frm_lst[p][n - first + 1])
        /\ \A n \in Page : first + inram <= n /\ n < npages[p] =>
              pgd'[p][n] = SetSwap(frm_lst_swap[p][n - first - inram + 1])
    BY <2>0 DEF RangeMapped
  <2>2. ASSUME NEW q \in Proc, NEW n \in Page, pgd'[q][n].present
        PROVE  \/ pgd[q][n].present /\ pgd'[q][n].val = pgd[q][n].val
               \/ /\ q = p
                  /\ \E i \in 1..Len(frm_lst[p]) : i = n - first + 1 /\ pgd'[q][n].val = frm_lst[p][i]
    <3>1. CASE q # p \/ n < first \/ n >= npages[p]
      <4>1. pgd'[q][n] = pgd[q][n]
        BY <2>1, <3>1
      <4> QED
        BY <2>2, <4>1
    <3>2. CASE q = p /\ first <= n /\ n < first + inram
      <4>1. n - first + 1 \in 1..Len(frm_lst[p]) /\ pgd'[p][n] = SetFpn(frm_lst[p][n - first + 1])
        BY <2>1, <3>2
      <4>2. pgd'[p][n].val = frm_lst[p][n - first + 1]
        <5>1. PICK s \in Seq(RamFrame) : s = frm_lst[p]
          BY DEF Shape, PagingTypeOK
        <5>2. PICK j \in 1..Len(s) : j = n - first + 1
          BY <4>1, <5>1
        <5>3. s[j] \in RamFrame
          BY <5>1, ElementOfSeq
        <5> QED
          BY <4>1, <5>1, <5>2, <5>3, PteFields
      <4> QED
        BY <3>2, <4>1, <4>2
    <3>3. CASE q = p /\ first + inram <= n /\ n < npages[p]
      <4>1. pgd'[p][n] = SetSwap(frm_lst_swap[p][n - first - inram + 1])
        BY <2>1, <3>3
      <4> QED
        BY <2>2, <3>3, <4>1, PteFields
    <3>4. n \in Nat /\ npages[p] \in Nat
      BY <2>1, PagingAssumption DEF Page
    <3> QED
      BY <3>1, <3>2, <3>3, <3>4
  <2> QED
    BY <2>2
<1>3. \A n \in Page : n \in Nat
  BY PagingAssumption DEF Page
<1>4. RamPageOnce'
  <2> SUFFICES ASSUME NEW q \in Proc, NEW r \in Proc, NEW n \in Page, NEW m \in Page,
                      pgd'[q][n].present, pgd'[r][m].present, pgd'[q][n].val = pgd'[r][m].val
               PROVE  q = r /\ n = m
    BY DEF RamPageOnce
  <2>1. \A x \in Proc, y \in Page : \A i \in 1..Len(frm_lst[p]) :
            pgd[x][y].present => frm_lst[p][i] # pgd[x][y].val
    BY DEF RamApart, RamListNotMapped
  <2>2. CASE /\ pgd[q][n].present /\ pgd'[q][n].val = pgd[q][n].val
             /\ pgd[r][m].present /\ pgd'[r][m].val = pgd[r][m].val
    <3>1. pgd[q][n].val = pgd[r][m].val
      BY <2>2
    <3> QED
      BY <2>2, <3>1 DEF RamApart, RamPageOnce
  <2>3. ASSUME q = p, r = p,
               NEW i \in 1..Len(frm_lst[p]), i = n - first + 1, pgd'[q][n].val = frm_lst[p][i],
               NEW j \in 1..Len(frm_lst[p]), j = m - first + 1, pgd'[r][m].val = frm_lst[p][j]
        PROVE  q = r /\ n = m
    <3>1. i = j
      <4>1. frm_lst[p][i] = frm_lst[p][j]
        BY <2>3
      <4> QED
        BY <4>1 DEF RamApart, RamListOnce
    <3> QED
      BY <1>3, <2>3, <3>1
  <2> QED
    BY <1>2, <2>1, <2>2, <2>3
<1>5. RamListOnce'
  BY <1>1 DEF RamApart, RamListOnce
<1>6. RamFreeNotListed'
  BY <1>0, <1>1 DEF RamApart, RamFreeNotListed
<1>7. RamFreeNotMapped'
  <2> SUFFICES ASSUME NEW i \in 1..Len(ram_free), NEW q \in Proc, NEW n \in Page, pgd'[q][n].present
               PROVE  ram_free[i] # pgd'[q][n].val
    BY <1>0 DEF RamFreeNotMapped
  <2>1. \A j \in 1..Len(frm_lst[p]) : ram_free[i] # frm_lst[p][j]
    BY DEF RamApart, RamFreeNotListed
  <2>2. pgd[q][n].present => ram_free[i] # pgd[q][n].val
    BY DEF RamApart, RamFreeNotMapped
  <2> QED
    BY <1>2, <2>1, <2>2
<1>8. RamListNotMapped'
  <2> SUFFICES ASSUME NEW q \in Proc, q # p, NEW r \in Proc, NEW i \in 1..Len(frm_lst[q]), NEW n \in Page,
                      pgd'[r][n].present
               PROVE  frm_lst[q][i] # pgd'[r][n].val
    BY <1>1 DEF RamListNotMapped
  <2>1. \A j \in 1..Len(frm_lst[p]) : frm_lst[q][i] # frm_lst[p][j]
    BY DEF RamApart, RamListOnce
  <2>2. pgd[r][n].present => frm_lst[q][i] # pgd[r][n].val
    BY DEF RamApart, RamListNotMapped
  <2> QED
    BY <1>2, <2>1, <2>2
<1> QED
  BY <1>0, <1>4, <1>5, <1>6, <1>7, <1>8 DEF RamApart, RamFreeOnce

\* pg_getpage() gives the frame of the victim to the page that was missed.
LEMMA RamExchanged ==
    ASSUME Shape, RamApart, NEW p \in Proc, SwapIn(p)
    PROVE  RamApart'
<1> DEFINE vic == fault[p].vicpgn
           tgt == fault[p].pgn
<1>0. ram_free' = ram_free /\ frm_lst' = frm_lst
  BY DEF SwapIn, locals
<1>1. vic \in Page /\ tgt \in Page /\ vic # tgt /\ pgd[p][vic].present
  BY SwapInEntries
<1>2. ASSUME NEW q \in Proc, NEW n \in Page, pgd'[q][n].present
      PROVE  \/ pgd[q][n].present /\ pgd'[q][n].val = pgd[q][n].val /\ (q # p \/ n # vic) /\ (q # p \/ n # tgt)
             \/ q = p /\ n = tgt /\ pgd'[q][n].val = pgd[p][vic].val
  <2>1. CASE q = p /\ n = vic
    BY <1>2, <2>1, SwapInEntries, PteFields
  <2>2. CASE q = p /\ n = tgt
    BY <2>2, SwapInEntries, PteFields
  <2>3. CASE q # p \/ n \notin {vic, tgt}
    <3>1. pgd'[q][n] = pgd[q][n]
      BY <2>3, SwapInEntries
    <3> QED
      BY <1>2, <2>3, <3>1
  <2> QED
    BY <2>1, <2>2, <2>3
<1>3. RamPageOnce'
  BY <1>1, <1>2 DEF RamApart, RamPageOnce
<1>4. RamFreeNotMapped'
  BY <1>0, <1>1, <1>2 DEF RamApart, RamFreeNotMapped
<1>5. RamListNotMapped'
  BY <1>0, <1>1, <1>2 DEF RamApart, RamListNotMapped
<1> QED
  BY <1>0, <1>3, <1>4, <1>5 DEF RamApart, RamFreeOnce, RamListOnce, RamFreeNotListed

\* Every step keeps the places of the frames of RAM apart.
LEMMA RamStep == Shape /\ RamApart /\ [Next]_vars => RamApart'
<1> SUFFICES ASSUME Shape, RamApart, [Next]_vars PROVE RamApart'
  OBVIOUS
<1>1. CASE UNCHANGED vars
  BY <1>1, RamUnchanged DEF vars, memory, tables, locals
<1>2. ASSUME NEW p \in Proc, Alloc(p) PROVE RamApart'
  <2>1. ASSUME NEW k \in 1..MaxPages, IncLimit(p, k) PROVE RamApart'
    BY <2>1, RamUnchanged DEF IncLimit, memory
  <2>2. ASSUME GetSwpFrame(p) PROVE RamApart'
    BY <2>2, RamUnchanged DEF GetSwpFrame, tables
  <2> QED
    BY <1>2, <2>1, <2>2, RamTaken, RamGivenUp, RamMapped DEF Alloc
<1>3. ASSUME NEW p \in Proc, Access(p) PROVE RamApart'
  <2>1. ASSUME NEW n \in Page, NEW o \in Offset, NEW v \in Value \cup {None}, Hit(p, n, o, v) PROVE RamApart'
    BY <2>1, RamUnchanged DEF Hit, tables, locals
  <2>2. ASSUME NEW n \in Page, NEW o \in Offset, NEW v \in Value \cup {None}, NEW vic \in Page, Miss(p, n, o, v, vic)
        PROVE  RamApart'
    BY <2>2, RamUnchanged DEF Miss, tables, locals
  <2>3. ASSUME NEW n \in Page, NEW vic \in Page, MissOutside(p, n, vic) PROVE RamApart'
    BY <2>3, RamUnchanged DEF MissOutside, memory, tables, locals
  <2>4. ASSUME NEW n \in Page, Drop(p, n) PROVE RamApart'
    BY <2>4, RamUnchanged DEF Drop, vars, memory, tables, locals
  <2>5. ASSUME SwapOut(p) PROVE RamApart'
    BY <2>5, RamUnchanged DEF SwapOut, tables, locals
  <2>6. ASSUME Finish(p) PROVE RamApart'
    BY <2>6, RamUnchanged DEF Finish, tables, locals
  <2> QED
    BY <1>3, <2>1, <2>2, <2>3, <2>4, <2>5, <2>6, RamExchanged DEF Access
<1> QED
  BY <1>1, <1>2, <1>3 DEF Next, Undefined

\* RamApart is RamExclusive.
LEMMA RamApartExclusive == RamApart => RamExclusive
<1> SUFFICES ASSUME RamApart, NEW a \in RamPlaces, NEW b \in RamPlaces, a[4] = b[4] PROVE a = b
  BY DEF RamExclusive
<1> DEFINE Free(x) == \E i \in 1..Len(ram_free) : x = <<"free", None, i, ram_free[i]>>
           List(x) == \E p \in Proc : \E i \in 1..Len(frm_lst[p]) : x = <<"list", p, i, frm_lst[p][i]>>
           Mapped(x) == \E p \in Proc : \E n \in Page :
                            pgd[p][n].present /\ x = <<"page", p, n, pgd[p][n].val>>
<1>1. ASSUME NEW x \in RamPlaces PROVE Free(x) \/ List(x) \/ Mapped(x)
  <2> DEFINE F == {<<"free", None, i, ram_free[i]>> : i \in 1..Len(ram_free)}
             L(p) == {<<"list", p, i, frm_lst[p][i]>> : i \in 1..Len(frm_lst[p])}
             M(p) == {<<"page", p, n, pgd[p][n].val>> : n \in {m \in Page : pgd[p][m].present}}
  <2>0. x \in F \cup (UNION {L(p) : p \in Proc}) \cup (UNION {M(p) : p \in Proc})
    BY DEF RamPlaces
  <2>1. x \in F => Free(x)
    OBVIOUS
  <2>2. ASSUME NEW p \in Proc, x \in L(p) PROVE List(x)
    BY <2>2
  <2>3. ASSUME NEW p \in Proc, x \in M(p) PROVE Mapped(x)
    BY <2>3
  <2> HIDE DEF Free, List, Mapped, F, L, M
  <2>4. CASE x \in UNION {L(p) : p \in Proc}
    <3>1. PICK S \in {L(p) : p \in Proc} : x \in S
      BY <2>4
    <3>2. PICK p \in Proc : S = L(p)
      BY <3>1
    <3> QED
      BY <2>2, <3>1, <3>2
  <2>5. CASE x \in UNION {M(p) : p \in Proc}
    <3>1. PICK S \in {M(p) : p \in Proc} : x \in S
      BY <2>5
    <3>2. PICK p \in Proc : S = M(p)
      BY <3>1
    <3> QED
      BY <2>3, <3>1, <3>2
  <2> QED
    BY <2>0, <2>1, <2>4, <2>5
<1>2. CASE Free(a) /\ Free(b)
  BY <1>2 DEF RamApart, RamFreeOnce
<1>3. CASE Free(a) /\ List(b)
  BY <1>3 DEF RamApart, RamFreeNotListed
<1>4. CASE Free(a) /\ Mapped(b)
  BY <1>4 DEF RamApart, RamFreeNotMapped
<1>5. CASE List(a) /\ Free(b)
  BY <1>5 DEF RamApart, RamFreeNotListed
<1>6. CASE List(a) /\ List(b)
  BY <1>6 DEF RamApart, RamListOnce
<1>7. CASE List(a) /\ Mapped(b)
  BY <1>7 DEF RamApart, RamListNotMapped
<1>8. CASE Mapped(a) /\ Free(b)
  BY <1>8 DEF RamApart, RamFreeNotMapped
<1>9. CASE Mapped(a) /\ List(b)
  BY <1>9 DEF RamApart, RamListNotMapped
<1>10. CASE Mapped(a) /\ Mapped(b)
  BY <1>10 DEF RamApart, RamPageOnce
<1> HIDE DEF Free, List, Mapped
<1> QED
  BY <1>1, <1>2, <1>3, <1>4, <1>5, <1>6, <1>7, <1>8, <1>9, <1>10

\* No frame of RAM is ever handed to two processes or mapped twice, in whatever
\* order the processes ask for frames, give up, map ranges and exchange pages:
\* even after a swap frame was used uninitialized or a WRITE went astray.
THEOREM RamFramesExclusive == Spec => []RamExclusive
<1>1. Init => Shape /\ RamApart
  BY ShapeInit, RamInit
<1>2. Shape /\ RamApart /\ [Next]_vars => (Shape /\ RamApart)'
  BY ShapeStep, RamStep
<1>3. Spec => [](Shape /\ RamApart)
  BY <1>1, <1>2, PTL DEF Spec
<1> QED
  BY <1>3, RamApartExclusive, PTL

-----------------------------------------------------------------------------
(* The frames of swap *)

\* At the start every frame is in the free list, once.
LEMMA SwpInit == Init => SwpApart
<1> SUFFICES ASSUME Init PROVE SwpApart
  OBVIOUS
<1>1. \A p \in Proc : frm_lst_swap[p] = <<>> /\ ~Holds(p) /\ \A n \in Page : ~pgd[p][n].swapped
  BY DEF Init, Blank, Holds
<1>2. SwpFreeOnce
  BY PagingAssumption DEF Init, SwpFreeOnce
<1> QED
  BY <1>1, <1>2 DEF SwpApart, SwpListOnce, SwpPageOnce, SwpHeldOnce, SwpFreeNotListed,
         SwpFreeNotMapped, SwpFreeNotHeld, SwpListNotMapped, SwpListNotHeld, SwpHeldNotMapped

\* What only ends faults, or leaves the frames that they hold.
LEMMA SwpUnchanged ==
    ASSUME SwpApart, UNCHANGED <<swp_free, frm_lst_swap, pgd>>,
           \A q \in Proc : Holds(q)' => Holds(q) /\ fault'[q].swpfpn = fault[q].swpfpn
    PROVE  SwpApart'
<1>1. SwpHeldOnce'
  BY DEF SwpApart, SwpHeldOnce
<1>2. SwpFreeNotHeld' /\ SwpListNotHeld' /\ SwpHeldNotMapped'
  BY DEF SwpApart, SwpFreeNotHeld, SwpListNotHeld, SwpHeldNotMapped
<1>3. SwpFreeOnce' /\ SwpListOnce' /\ SwpPageOnce' /\ SwpFreeNotListed' /\ SwpFreeNotMapped' /\ SwpListNotMapped'
  BY DEF SwpApart, SwpFreeOnce, SwpListOnce, SwpPageOnce, SwpFreeNotListed, SwpFreeNotMapped, SwpListNotMapped
<1> QED
  BY <1>1, <1>2, <1>3 DEF SwpApart

\* alloc_pages_range() moves the first free frame to the list of the process.
LEMMA SwpTaken ==
    ASSUME Shape, SwpApart, NEW p \in Proc, GetSwpFrame(p)
    PROVE  SwpApart'
<1>0. /\ swp_free \in Seq(SwpFrame) /\ swp_free # <<>> /\ frm_lst_swap \in [Proc -> Seq(SwpFrame)]
      /\ swp_free' = Tail(swp_free) /\ UNCHANGED <<pgd, mpc, fault>>
      /\ frm_lst_swap' = [frm_lst_swap EXCEPT ![p] = <<Head(swp_free)>> \o @]
  BY DEF Shape, PagingTypeOK, GetSwpFrame, tables
<1>1. /\ 1 \in 1..Len(swp_free)
      /\ \A i \in 1..Len(swp_free') :
            i + 1 \in 1..Len(swp_free) /\ swp_free'[i] = swp_free[i + 1] /\ i \in Nat /\ i # 0
      /\ \A q \in Proc : \A i \in 1..Len(frm_lst_swap'[q]) :
            \/ q = p /\ i = 1 /\ frm_lst_swap'[q][i] = swp_free[1]
            \/ \E j \in 1..Len(frm_lst_swap[q]) :
                  frm_lst_swap'[q][i] = frm_lst_swap[q][j] /\ i = IF q = p THEN j + 1 ELSE j
  <2>1. Moved(swp_free, frm_lst_swap, swp_free', frm_lst_swap', p)
    BY <1>0, TakeElements
  <2> QED
    BY <2>1 DEF Moved
<1>2. /\ \A x \in Proc : \A y \in 1..Len(frm_lst_swap[x]) : swp_free[1] # frm_lst_swap[x][y]
      /\ \A x \in Proc, n \in Page : pgd[x][n].swapped => swp_free[1] # pgd[x][n].val
      /\ \A x \in Proc : Holds(x) => swp_free[1] # fault[x].swpfpn
  BY <1>1 DEF SwpApart, SwpFreeNotListed, SwpFreeNotMapped, SwpFreeNotHeld
<1>3. \A q \in Proc : Holds(q)' = Holds(q)
  BY <1>0 DEF Holds
<1>4. SwpFreeOnce'
  <2> SUFFICES ASSUME NEW i \in 1..Len(swp_free'), NEW j \in 1..Len(swp_free'), swp_free'[i] = swp_free'[j]
               PROVE  i = j
    BY DEF SwpFreeOnce
  <2>1. i + 1 = j + 1
    BY <1>1 DEF SwpApart, SwpFreeOnce
  <2> QED
    BY <1>1, <2>1
<1>5. SwpListOnce'
  <2> SUFFICES ASSUME NEW q \in Proc, NEW r \in Proc,
                      NEW i \in 1..Len(frm_lst_swap'[q]), NEW j \in 1..Len(frm_lst_swap'[r]),
                      frm_lst_swap'[q][i] = frm_lst_swap'[r][j]
               PROVE  q = r /\ i = j
    BY DEF SwpListOnce
  <2>2. CASE q = p /\ i = 1 /\ frm_lst_swap'[q][i] = swp_free[1]
    BY <1>1, <1>2, <2>2
  <2>3. CASE r = p /\ j = 1 /\ frm_lst_swap'[r][j] = swp_free[1]
    BY <1>1, <1>2, <2>3
  <2>4. ASSUME NEW x \in 1..Len(frm_lst_swap[q]), NEW y \in 1..Len(frm_lst_swap[r]),
               frm_lst_swap'[q][i] = frm_lst_swap[q][x], i = IF q = p THEN x + 1 ELSE x,
               frm_lst_swap'[r][j] = frm_lst_swap[r][y], j = IF r = p THEN y + 1 ELSE y
        PROVE  q = r /\ i = j
    <3>1. frm_lst_swap[q][x] = frm_lst_swap[r][y]
      BY <2>4
    <3>2. q = r /\ x = y
      BY <3>1 DEF SwpApart, SwpListOnce
    <3> QED
      BY <2>4, <3>2
  <2>5. CASE /\ \E x \in 1..Len(frm_lst_swap[q]) :
                   frm_lst_swap'[q][i] = frm_lst_swap[q][x] /\ i = IF q = p THEN x + 1 ELSE x
             /\ \E y \in 1..Len(frm_lst_swap[r]) :
                   frm_lst_swap'[r][j] = frm_lst_swap[r][y] /\ j = IF r = p THEN y + 1 ELSE y
    BY <2>4, <2>5
  <2> QED
    BY <1>1, <2>2, <2>3, <2>5
<1>6. SwpFreeNotListed'
  <2> SUFFICES ASSUME NEW i \in 1..Len(swp_free'), NEW q \in Proc, NEW j \in 1..Len(frm_lst_swap'[q])
               PROVE  swp_free'[i] # frm_lst_swap'[q][j]
    BY DEF SwpFreeNotListed
  <2>1. i + 1 \in 1..Len(swp_free) /\ swp_free'[i] = swp_free[i + 1] /\ i + 1 # 1
    BY <1>1
  <2>2. swp_free[i + 1] # swp_free[1]
    BY <1>1, <2>1 DEF SwpApart, SwpFreeOnce
  <2>3. \A y \in 1..Len(frm_lst_swap[q]) : swp_free[i + 1] # frm_lst_swap[q][y]
    BY <2>1 DEF SwpApart, SwpFreeNotListed
  <2> QED
    BY <1>1, <2>1, <2>2, <2>3
<1>7. SwpFreeNotMapped' /\ SwpFreeNotHeld'
  BY <1>0, <1>1, <1>3 DEF SwpApart, SwpFreeNotMapped, SwpFreeNotHeld
<1>8. SwpListNotMapped'
  <2>0. pgd' = pgd
    BY <1>0
  <2> SUFFICES ASSUME NEW q \in Proc, NEW r \in Proc, NEW i \in 1..Len(frm_lst_swap'[q]), NEW n \in Page,
                      pgd[r][n].swapped
               PROVE  frm_lst_swap'[q][i] # pgd[r][n].val
    BY <2>0 DEF SwpListNotMapped
  <2>1. \A y \in 1..Len(frm_lst_swap[q]) : frm_lst_swap[q][y] # pgd[r][n].val
    BY DEF SwpApart, SwpListNotMapped
  <2> QED
    BY <1>1, <1>2, <2>1
<1>9. SwpListNotHeld'
  <2> SUFFICES ASSUME NEW q \in Proc, NEW r \in Proc, NEW i \in 1..Len(frm_lst_swap'[q]), Holds(r)
               PROVE  frm_lst_swap'[q][i] # fault[r].swpfpn
    BY <1>0, <1>3 DEF SwpListNotHeld
  <2>1. \A y \in 1..Len(frm_lst_swap[q]) : frm_lst_swap[q][y] # fault[r].swpfpn
    BY DEF SwpApart, SwpListNotHeld
  <2>2. swp_free[1] # fault[r].swpfpn
    BY <1>2
  <2> QED
    BY <1>1, <2>1, <2>2
<1>10. SwpPageOnce' /\ SwpHeldOnce' /\ SwpHeldNotMapped'
  BY <1>0, <1>3 DEF SwpApart, SwpPageOnce, SwpHeldOnce, SwpHeldNotMapped
<1> QED
  BY <1>4, <1>5, <1>6, <1>7, <1>8, <1>9, <1>10 DEF SwpApart

\* alloc_pages_range() gives up: the frames in the list of the process go nowhere.
LEMMA SwpGivenUp ==
    ASSUME Shape, SwpApart, NEW p \in Proc, OutOfMemory(p)
    PROVE  SwpApart'
<1>0. /\ swp_free' = swp_free /\ pgd' = pgd /\ fault' = fault /\ frm_lst_swap'[p] = <<>>
      /\ \A q \in Proc : q # p => frm_lst_swap'[q] = frm_lst_swap[q]
  BY DEF Shape, PagingTypeOK, OutOfMemory, EmptyLists, memory, tables
<1>1. \A q \in Proc : \A i \in 1..Len(frm_lst_swap'[q]) : q # p /\ frm_lst_swap'[q] = frm_lst_swap[q]
  BY <1>0
<1>2. \A q \in Proc : Holds(q)' = Holds(q)
  BY DEF Shape, PagingTypeOK, OutOfMemory, Goto, Holds
<1>3. SwpListOnce' /\ SwpFreeNotListed'
  BY <1>0, <1>1 DEF SwpApart, SwpListOnce, SwpFreeNotListed
<1>4. SwpListNotMapped' /\ SwpListNotHeld'
  BY <1>0, <1>1, <1>2 DEF SwpApart, SwpListNotMapped, SwpListNotHeld
<1>5. SwpFreeOnce' /\ SwpPageOnce' /\ SwpHeldOnce' /\ SwpFreeNotMapped' /\ SwpFreeNotHeld' /\ SwpHeldNotMapped'
  BY <1>0, <1>2 DEF SwpApart, SwpFreeOnce, SwpPageOnce, SwpHeldOnce, SwpFreeNotMapped, SwpFreeNotHeld, SwpHeldNotMapped
<1> QED
  BY <1>3, <1>4, <1>5 DEF SwpApart

\* vmap_page_range() moves the frames from the list to the page table.
LEMMA SwpMapped ==
    ASSUME Shape, SwpApart, NEW p \in Proc, MapRange(p)
    PROVE  SwpApart'
<1>0. /\ swp_free' = swp_free /\ fault' = fault /\ frm_lst_swap'[p] = <<>>
      /\ \A q \in Proc : q # p => frm_lst_swap'[q] = frm_lst_swap[q]
  BY DEF Shape, PagingTypeOK, MapRange, EmptyLists, memory
<1>1. \A q \in Proc : \A i \in 1..Len(frm_lst_swap'[q]) : q # p /\ frm_lst_swap'[q] = frm_lst_swap[q]
  BY <1>0
<1>2. PICK first \in Nat : \A q \in Proc, n \in Page : pgd'[q][n].swapped =>
          \/ pgd[q][n].swapped /\ pgd'[q][n].val = pgd[q][n].val
          \/ /\ q = p
             /\ \E i \in 1..Len(frm_lst_swap[p]) : i = n - first + 1 /\ pgd'[q][n].val = frm_lst_swap[p][i]
  <2>0. PICK first \in Nat, inram \in Nat, inswp \in Nat : RangeMapped(p, first, inram, inswp)
    BY MapRangeEntries
  <2>1. /\ inswp = Len(frm_lst_swap[p]) /\ npages[p] = first + inram + inswp
        /\ \A q \in Proc, n \in Page : q # p \/ n < first \/ n >= npages[p] => pgd'[q][n] = pgd[q][n]
        /\ \A n \in Page : first <= n /\ n < first + inram =>
              pgd'[p][n] = SetFpn(frm_lst[p][n - first + 1])
        /\ \A n \in Page : first + inram <= n /\ n < npages[p] =>
              /\ n - first - inram + 1 \in 1..inswp
              /\ pgd'[p][n] = SetSwap(frm_lst_swap[p][n - first - inram + 1])
    BY <2>0 DEF RangeMapped
  <2>2. ASSUME NEW q \in Proc, NEW n \in Page, pgd'[q][n].swapped
        PROVE  \/ pgd[q][n].swapped /\ pgd'[q][n].val = pgd[q][n].val
               \/ /\ q = p
                  /\ \E i \in 1..Len(frm_lst_swap[p]) :
                        i = n - (first + inram) + 1 /\ pgd'[q][n].val = frm_lst_swap[p][i]
    <3>1. CASE q # p \/ n < first \/ n >= npages[p]
      <4>1. pgd'[q][n] = pgd[q][n]
        BY <2>1, <3>1
      <4> QED
        BY <2>2, <4>1
    <3>2. CASE q = p /\ first <= n /\ n < first + inram
      <4>1. pgd'[p][n] = SetFpn(frm_lst[p][n - first + 1])
        BY <2>1, <3>2
      <4> QED
        BY <2>2, <3>2, <4>1, PteFields
    <3>4. n \in Nat /\ npages[p] \in Nat
      <4>1. npages[p] = first + inram + inswp
        BY <2>1
      <4> QED
        BY <4>1, PagingAssumption DEF Page
    <3>3. CASE q = p /\ first + inram <= n /\ n < npages[p]
      <4>1. /\ n - first - inram + 1 \in 1..Len(frm_lst_swap[p])
            /\ pgd'[p][n] = SetSwap(frm_lst_swap[p][n - first - inram + 1])
        BY <2>1, <3>3
      <4>2. pgd'[p][n].val = frm_lst_swap[p][n - first - inram + 1]
        <5>1. PICK s \in Seq(SwpFrame) : s = frm_lst_swap[p]
          BY DEF Shape, PagingTypeOK
        <5>2. PICK j \in 1..Len(s) : j = n - first - inram + 1
          BY <4>1, <5>1
        <5>3. s[j] \in SwpFrame
          BY <5>1, ElementOfSeq
        <5> QED
          BY <4>1, <5>1, <5>2, <5>3, PteFields
      <4>3. n - first - inram + 1 = n - (first + inram) + 1
        BY <3>4
      <4> QED
        BY <3>3, <4>1, <4>2, <4>3
    <3> QED
      BY <3>1, <3>2, <3>3, <3>4
  <2>3. first + inram \in Nat
    OBVIOUS
  <2> QED
    BY <2>2, <2>3
<1>3. \A n \in Page : n \in Nat
  BY PagingAssumption DEF Page
<1>4. \A q \in Proc : Holds(q)' = Holds(q)
  <2>1. mpc \in [Proc -> {"idle", "alloc", "out", "in", "access"}]
    BY DEF Shape, PagingTypeOK
  <2>2. mpc[p] = "alloc" /\ mpc'[p] = "idle" /\ \A q \in Proc : q # p => mpc'[q] = mpc[q]
    BY <2>1 DEF MapRange, Goto
  <2> QED
    BY <2>2 DEF Holds
<1>5. SwpPageOnce'
  <2> SUFFICES ASSUME NEW q \in Proc, NEW r \in Proc, NEW n \in Page, NEW m \in Page,
                      pgd'[q][n].swapped, pgd'[r][m].swapped, pgd'[q][n].val = pgd'[r][m].val
               PROVE  q = r /\ n = m
    BY DEF SwpPageOnce
  <2>1. \A x \in Proc, y \in Page : \A i \in 1..Len(frm_lst_swap[p]) :
            pgd[x][y].swapped => frm_lst_swap[p][i] # pgd[x][y].val
    BY DEF SwpApart, SwpListNotMapped
  <2>2. CASE /\ pgd[q][n].swapped /\ pgd'[q][n].val = pgd[q][n].val
             /\ pgd[r][m].swapped /\ pgd'[r][m].val = pgd[r][m].val
    <3>1. pgd[q][n].val = pgd[r][m].val
      BY <2>2
    <3> QED
      BY <2>2, <3>1 DEF SwpApart, SwpPageOnce
  <2>3. ASSUME q = p, r = p,
               NEW i \in 1..Len(frm_lst_swap[p]), i = n - first + 1, pgd'[q][n].val = frm_lst_swap[p][i],
               NEW j \in 1..Len(frm_lst_swap[p]), j = m - first + 1, pgd'[r][m].val = frm_lst_swap[p][j]
        PROVE  q = r /\ n = m
    <3>1. i = j
      <4>1. frm_lst_swap[p][i] = frm_lst_swap[p][j]
        BY <2>3
      <4> QED
        BY <4>1 DEF SwpApart, SwpListOnce
    <3> QED
      BY <1>3, <2>3, <3>1
  <2> QED
    BY <1>2, <2>1, <2>2, <2>3
<1>6. SwpListOnce' /\ SwpFreeNotListed' /\ SwpListNotHeld'
  BY <1>0, <1>1, <1>4 DEF SwpApart, SwpListOnce, SwpFreeNotListed, SwpListNotHeld
<1>7. SwpFreeNotMapped'
  <2> SUFFICES ASSUME NEW i \in 1..Len(swp_free), NEW q \in Proc, NEW n \in Page, pgd'[q][n].swapped
               PROVE  swp_free[i] # pgd'[q][n].val
    BY <1>0 DEF SwpFreeNotMapped
  <2>1. \A j \in 1..Len(frm_lst_swap[p]) : swp_free[i] # frm_lst_swap[p][j]
    BY DEF SwpApart, SwpFreeNotListed
  <2>2. pgd[q][n].swapped => swp_free[i] # pgd[q][n].val
    BY DEF SwpApart, SwpFreeNotMapped
  <2> QED
    BY <1>2, <2>1, <2>2
<1>8. SwpListNotMapped'
  <2> SUFFICES ASSUME NEW q \in Proc, q # p, NEW r \in Proc, NEW i \in 1..Len(frm_lst_swap[q]), NEW n \in Page,
                      pgd'[r][n].swapped
               PROVE  frm_lst_swap[q][i] # pgd'[r][n].val
    BY <1>1 DEF SwpListNotMapped
  <2>1. \A j \in 1..Len(frm_lst_swap[p]) : frm_lst_swap[q][i] # frm_lst_swap[p][j]
    BY DEF SwpApart, SwpListOnce
  <2>2. pgd[r][n].swapped => frm_lst_swap[q][i] # pgd[r][n].val
    BY DEF SwpApart, SwpListNotMapped
  <2> QED
    BY <1>2, <2>1, <2>2
<1>9. SwpHeldNotMapped'
  <2> SUFFICES ASSUME NEW q \in Proc, NEW r \in Proc, NEW n \in Page, Holds(q), pgd'[r][n].swapped
               PROVE  fault[q].swpfpn # pgd'[r][n].val
    BY <1>0, <1>4 DEF SwpHeldNotMapped
  <2>1. \A j \in 1..Len(frm_lst_swap[p]) : frm_lst_swap[p][j] # fault[q].swpfpn
    BY DEF SwpApart, SwpListNotHeld
  <2>2. pgd[r][n].swapped => fault[q].swpfpn # pgd[r][n].val
    BY DEF SwpApart, SwpHeldNotMapped
  <2> QED
    BY <1>2, <2>1, <2>2
<1>10. SwpFreeOnce' /\ SwpHeldOnce' /\ SwpFreeNotHeld'
  BY <1>0, <1>4 DEF SwpApart, SwpFreeOnce, SwpHeldOnce, SwpFreeNotHeld
<1> QED
  BY <1>5, <1>6, <1>7, <1>8, <1>9, <1>10 DEF SwpApart

\* A page fault takes the first free frame, when there is one.
LEMMA SwpHeld ==
    ASSUME Shape, SwpApart, NEW p \in Proc, NEW n \in Page, NEW o \in Offset, NEW v, NEW vic \in Page,
           Miss(p, n, o, v, vic), ~wild'
    PROVE  SwpApart'
<1>1. /\ swp_free \in Seq(SwpFrame) /\ swp_free # <<>> /\ swp_free' = Tail(swp_free)
      /\ fault'[p].swpfpn = Head(swp_free) /\ \A q \in Proc : q # p => fault'[q] = fault[q]
      /\ UNCHANGED <<frm_lst_swap, pgd>>
  BY DEF Shape, PagingTypeOK, Miss, tables, locals
<1>2. /\ \A q \in Proc : q # p => Holds(q)' = Holds(q)
      /\ ~Holds(p)
  BY DEF Shape, PagingTypeOK, Miss, Goto, Holds
<1>3. PICK k \in Nat : k = Len(swp_free) /\ k > 0
  BY <1>1, TailElements
<1>4. /\ Len(swp_free') = k - 1
      /\ \A i \in 1..(k - 1) : i + 1 \in 1..k /\ swp_free'[i] = swp_free[i + 1]
      /\ fault'[p].swpfpn = swp_free[1] /\ 1 \in 1..k
  BY <1>1, <1>3, TailElements
<1>5. SwpFreeOnce'
  BY <1>3, <1>4 DEF SwpApart, SwpFreeOnce
<1>6. SwpFreeNotListed' /\ SwpFreeNotMapped'
  BY <1>1, <1>3, <1>4 DEF SwpApart, SwpFreeNotListed, SwpFreeNotMapped
<1>7. SwpFreeNotHeld'
  <2> SUFFICES ASSUME NEW i \in 1..(k - 1), NEW q \in Proc, Holds(q)' PROVE swp_free'[i] # fault'[q].swpfpn
    BY <1>4 DEF SwpFreeNotHeld
  <2>1. i + 1 \in 1..Len(swp_free) /\ 1 \in 1..Len(swp_free) /\ i + 1 # 1 /\ swp_free'[i] = swp_free[i + 1]
    BY <1>3, <1>4
  <2>2. CASE q = p
    BY <1>4, <2>1, <2>2 DEF SwpApart, SwpFreeOnce
  <2>3. CASE q # p
    BY <1>1, <1>2, <2>1, <2>3 DEF SwpApart, SwpFreeNotHeld
  <2> QED
    BY <2>2, <2>3
<1>8. SwpListNotHeld'
  <2> SUFFICES ASSUME NEW r \in Proc, NEW q \in Proc, NEW i \in 1..Len(frm_lst_swap[r]), Holds(q)'
               PROVE  frm_lst_swap[r][i] # fault'[q].swpfpn
    BY <1>1 DEF SwpListNotHeld
  <2>2. CASE q = p
    BY <1>3, <1>4, <2>2 DEF SwpApart, SwpFreeNotListed
  <2>3. CASE q # p
    BY <1>1, <1>2, <2>3 DEF SwpApart, SwpListNotHeld
  <2> QED
    BY <2>2, <2>3
<1>9. SwpHeldNotMapped'
  <2> SUFFICES ASSUME NEW q \in Proc, NEW r \in Proc, NEW m \in Page, pgd[r][m].swapped, Holds(q)'
               PROVE  fault'[q].swpfpn # pgd[r][m].val
    BY <1>1 DEF SwpHeldNotMapped
  <2>2. CASE q = p
    BY <1>3, <1>4, <2>2 DEF SwpApart, SwpFreeNotMapped
  <2>3. CASE q # p
    BY <1>1, <1>2, <2>3 DEF SwpApart, SwpHeldNotMapped
  <2> QED
    BY <2>2, <2>3
<1>10. SwpHeldOnce'
  <2>1. ASSUME NEW q \in Proc, q # p, Holds(q)' PROVE fault'[q].swpfpn # fault'[p].swpfpn
    BY <1>1, <1>2, <1>3, <1>4, <2>1 DEF SwpApart, SwpFreeNotHeld
  <2>2. ASSUME NEW q \in Proc, NEW r \in Proc, q # p, r # p, Holds(q)', Holds(r)', fault'[q].swpfpn = fault'[r].swpfpn
        PROVE  q = r
    BY <1>1, <1>2, <2>2 DEF SwpApart, SwpHeldOnce
  <2> QED
    BY <2>1, <2>2 DEF SwpHeldOnce
<1>11. SwpListOnce' /\ SwpPageOnce' /\ SwpListNotMapped'
  BY <1>1 DEF SwpApart, SwpListOnce, SwpPageOnce, SwpListNotMapped
<1> QED
  BY <1>5, <1>6, <1>7, <1>8, <1>9, <1>10, <1>11 DEF SwpApart

\* pg_getpage() puts the victim into the frame that the fault holds, and forgets
\* the frame of the page that was missed.
LEMMA SwpExchanged ==
    ASSUME Shape, SwpApart, NEW p \in Proc, SwapIn(p)
    PROVE  SwpApart'
<1> DEFINE vic == fault[p].vicpgn
           tgt == fault[p].pgn
<1>0. UNCHANGED <<swp_free, frm_lst_swap, fault>>
  BY DEF SwapIn, locals
<1>1. /\ Holds(p) /\ ~Holds(p)'
      /\ \A q \in Proc : q # p => Holds(q)' = Holds(q)
  BY DEF Shape, PagingTypeOK, SwapIn, Goto, Holds
<1>2. ASSUME NEW q \in Proc, NEW n \in Page, pgd'[q][n].swapped
      PROVE  \/ pgd[q][n].swapped /\ pgd'[q][n].val = pgd[q][n].val
             \/ q = p /\ n = vic /\ pgd'[q][n].val = fault[p].swpfpn
  <2>1. CASE q = p /\ n = tgt
    BY <1>2, <2>1, SwapInEntries, PteFields
  <2>2. CASE q = p /\ n = vic
    BY <2>2, SwapInEntries, PteFields
  <2>3. CASE q # p \/ n \notin {vic, tgt}
    <3>1. pgd'[q][n] = pgd[q][n]
      BY <2>3, SwapInEntries
    <3> QED
      BY <1>2, <3>1
  <2> QED
    BY <2>1, <2>2, <2>3
<1>3. SwpPageOnce'
  <2> SUFFICES ASSUME NEW q \in Proc, NEW r \in Proc, NEW n \in Page, NEW m \in Page,
                      pgd'[q][n].swapped, pgd'[r][m].swapped, pgd'[q][n].val = pgd'[r][m].val
               PROVE  q = r /\ n = m
    BY DEF SwpPageOnce
  <2>1. \A x \in Proc, y \in Page : pgd[x][y].swapped => fault[p].swpfpn # pgd[x][y].val
    BY <1>1 DEF SwpApart, SwpHeldNotMapped
  <2>2. CASE /\ pgd[q][n].swapped /\ pgd'[q][n].val = pgd[q][n].val
             /\ pgd[r][m].swapped /\ pgd'[r][m].val = pgd[r][m].val
    <3>1. pgd[q][n].val = pgd[r][m].val
      BY <2>2
    <3> QED
      BY <2>2, <3>1 DEF SwpApart, SwpPageOnce
  <2> QED
    BY <1>2, <2>1, <2>2
<1>4. SwpFreeNotMapped'
  <2> SUFFICES ASSUME NEW i \in 1..Len(swp_free), NEW q \in Proc, NEW n \in Page, pgd'[q][n].swapped
               PROVE  swp_free[i] # pgd'[q][n].val
    BY <1>0 DEF SwpFreeNotMapped
  <2>1. swp_free[i] # fault[p].swpfpn
    BY <1>1 DEF SwpApart, SwpFreeNotHeld
  <2> QED
    BY <1>2, <2>1 DEF SwpApart, SwpFreeNotMapped
<1>5. SwpListNotMapped'
  <2> SUFFICES ASSUME NEW q \in Proc, NEW r \in Proc, NEW i \in 1..Len(frm_lst_swap[q]), NEW n \in Page,
                      pgd'[r][n].swapped
               PROVE  frm_lst_swap[q][i] # pgd'[r][n].val
    BY <1>0 DEF SwpListNotMapped
  <2>1. frm_lst_swap[q][i] # fault[p].swpfpn
    BY <1>1 DEF SwpApart, SwpListNotHeld
  <2> QED
    BY <1>2, <2>1 DEF SwpApart, SwpListNotMapped
<1>6. SwpHeldNotMapped'
  <2> SUFFICES ASSUME NEW q \in Proc, q # p, NEW r \in Proc, NEW n \in Page, Holds(q), pgd'[r][n].swapped
               PROVE  fault[q].swpfpn # pgd'[r][n].val
    BY <1>0, <1>1 DEF SwpHeldNotMapped
  <2>1. fault[q].swpfpn # fault[p].swpfpn
    BY <1>1 DEF SwpApart, SwpHeldOnce
  <2> QED
    BY <1>2, <2>1 DEF SwpApart, SwpHeldNotMapped
<1>7. SwpHeldOnce' /\ SwpFreeNotHeld' /\ SwpListNotHeld'
  BY <1>0, <1>1 DEF SwpApart, SwpHeldOnce, SwpFreeNotHeld, SwpListNotHeld
<1>8. SwpFreeOnce' /\ SwpListOnce' /\ SwpFreeNotListed'
  BY <1>0 DEF SwpApart, SwpFreeOnce, SwpListOnce, SwpFreeNotListed
<1> QED
  BY <1>3, <1>4, <1>5, <1>6, <1>7, <1>8 DEF SwpApart

\* Every step keeps the places of the frames of swap apart, until one uses a
\* frame number that no list gave out.
LEMMA SwpStep == Shape /\ (~wild => SwpApart) /\ [Next]_vars => (~wild => SwpApart)'
<1> SUFFICES ASSUME Shape, ~wild => SwpApart, [Next]_vars, ~wild' PROVE SwpApart'
  OBVIOUS
<1>1. CASE UNCHANGED vars
  <2>1. SwpApart /\ UNCHANGED <<swp_free, frm_lst_swap, pgd, mpc, fault>>
    BY <1>1 DEF vars, memory, tables, locals
  <2> QED
    BY <2>1, SwpUnchanged DEF Holds
<1>2. ASSUME NEW p \in Proc, Alloc(p) PROVE SwpApart'
  <2>0. SwpApart
    BY <1>2 DEF Alloc, IncLimit, GetRamFrame, GetSwpFrame, OutOfMemory, MapRange
  <2>1. ASSUME NEW k \in 1..MaxPages, IncLimit(p, k) PROVE SwpApart'
    <3>1. \A q \in Proc : Holds(q)' = Holds(q) /\ fault' = fault
      <4>1. fault' = fault /\ mpc[p] = "idle" /\ mpc' = [mpc EXCEPT ![p] = "alloc"]
        BY <2>1 DEF IncLimit, Goto
      <4>2. mpc'[p] = "alloc" /\ \A q \in Proc : q # p => mpc'[q] = mpc[q]
        BY <4>1 DEF Shape, PagingTypeOK
      <4> QED
        BY <4>1, <4>2 DEF Holds
    <3> QED
      BY <2>0, <2>1, <3>1, SwpUnchanged DEF IncLimit, memory
  <2>2. ASSUME GetRamFrame(p) PROVE SwpApart'
    BY <2>0, <2>2, SwpUnchanged DEF GetRamFrame, tables, Holds
  <2> QED
    BY <1>2, <2>0, <2>1, <2>2, SwpTaken, SwpGivenUp, SwpMapped DEF Alloc
<1>3. ASSUME NEW p \in Proc, Access(p) PROVE SwpApart'
  <2>1. ASSUME NEW n \in Page, NEW o \in Offset, NEW v \in Value \cup {None}, Hit(p, n, o, v) PROVE SwpApart'
    BY <2>1, SwpUnchanged DEF Hit, tables, locals, Holds
  <2>2. ASSUME NEW n \in Page, NEW o \in Offset, NEW v \in Value \cup {None}, NEW vic \in Page, Miss(p, n, o, v, vic)
        PROVE  SwpApart'
    <3>1. ~wild
      BY <2>2 DEF Miss
    <3> QED
      BY <2>2, <3>1, SwpHeld
  <2>3. ASSUME NEW n \in Page, NEW vic \in Page, MissOutside(p, n, vic) PROVE SwpApart'
    BY <2>3 DEF MissOutside
  <2>4. ASSUME NEW n \in Page, Drop(p, n) PROVE SwpApart'
    BY <2>4, SwpUnchanged DEF Drop, vars, memory, tables, locals, Holds
  <2>5. ASSUME SwapOut(p) PROVE SwpApart'
    <3>1. \A q \in Proc : Holds(q)' = Holds(q) /\ fault' = fault
      BY <2>5 DEF Shape, PagingTypeOK, SwapOut, Goto, Holds
    <3> QED
      BY <2>5, <3>1, SwpUnchanged DEF SwapOut, tables, locals
  <2>6. ASSUME SwapIn(p) PROVE SwpApart'
    <3>1. ~wild
      BY <2>6 DEF SwapIn
    <3> QED
      BY <2>6, <3>1, SwpExchanged
  <2>7. ASSUME Finish(p) PROVE SwpApart'
    <3>1. ~Holds(p)' /\ \A q \in Proc : q # p => Holds(q)' = Holds(q) /\ fault'[q] = fault[q]
      BY <2>7 DEF Shape, PagingTypeOK, Finish, Goto, Holds
    <3> QED
      BY <2>7, <3>1, SwpUnchanged DEF Finish, tables, locals
  <2> QED
    BY <1>3, <2>1, <2>2, <2>3, <2>4, <2>5, <2>6, <2>7 DEF Access
<1> QED
  BY <1>1, <1>2, <1>3 DEF Next, Undefined

\* SwpApart is SwpExclusive, as long as no frame number was used uninitialized.
LEMMA SwpApartExclusive == (~wild => SwpApart) => SwpExclusive
<1> SUFFICES ASSUME SwpApart, NEW a \in SwpPlaces, NEW b \in SwpPlaces, a[4] = b[4] PROVE a = b
  BY DEF SwpExclusive
<1> DEFINE Free(x) == \E i \in 1..Len(swp_free) : x = <<"free", None, i, swp_free[i]>>
           List(x) == \E p \in Proc : \E i \in 1..Len(frm_lst_swap[p]) : x = <<"list", p, i, frm_lst_swap[p][i]>>
           Held(x) == \E p \in Proc : Holds(p) /\ x = <<"fault", p, 0, fault[p].swpfpn>>
           Mapped(x) == \E p \in Proc : \E n \in Page :
                            pgd[p][n].swapped /\ x = <<"page", p, n, pgd[p][n].val>>
<1>1. ASSUME NEW x \in SwpPlaces PROVE Free(x) \/ List(x) \/ Held(x) \/ Mapped(x)
  <2> DEFINE F == {<<"free", None, i, swp_free[i]>> : i \in 1..Len(swp_free)}
             L(p) == {<<"list", p, i, frm_lst_swap[p][i]>> : i \in 1..Len(frm_lst_swap[p])}
             H == {<<"fault", p, 0, fault[p].swpfpn>> : p \in {q \in Proc : mpc[q] \in {"out", "in"}}}
             M(p) == {<<"page", p, n, pgd[p][n].val>> : n \in {m \in Page : pgd[p][m].swapped}}
  <2>0. x \in F \cup (UNION {L(p) : p \in Proc}) \cup H \cup (UNION {M(p) : p \in Proc})
    BY DEF SwpPlaces
  <2>1. x \in F => Free(x)
    OBVIOUS
  <2>2. ASSUME NEW p \in Proc, x \in L(p) PROVE List(x)
    BY <2>2
  <2>3. ASSUME NEW p \in Proc, x \in M(p) PROVE Mapped(x)
    BY <2>3
  <2>6. x \in H => Held(x)
    BY DEF Holds
  <2> HIDE DEF Free, List, Held, Mapped, F, L, H, M
  <2>4. CASE x \in UNION {L(p) : p \in Proc}
    <3>1. PICK S \in {L(p) : p \in Proc} : x \in S
      BY <2>4
    <3>2. PICK p \in Proc : S = L(p)
      BY <3>1
    <3> QED
      BY <2>2, <3>1, <3>2
  <2>5. CASE x \in UNION {M(p) : p \in Proc}
    <3>1. PICK S \in {M(p) : p \in Proc} : x \in S
      BY <2>5
    <3>2. PICK p \in Proc : S = M(p)
      BY <3>1
    <3> QED
      BY <2>3, <3>1, <3>2
  <2> QED
    BY <2>0, <2>1, <2>4, <2>5, <2>6
<1>2. CASE Free(a) /\ Free(b)
  BY <1>2 DEF SwpApart, SwpFreeOnce
<1>3. CASE Free(a) /\ List(b)
  BY <1>3 DEF SwpApart, SwpFreeNotListed
<1>4. CASE Free(a) /\ Held(b)
  BY <1>4 DEF SwpApart, SwpFreeNotHeld
<1>5. CASE Free(a) /\ Mapped(b)
  BY <1>5 DEF SwpApart, SwpFreeNotMapped
<1>6. CASE List(a) /\ Free(b)
  BY <1>6 DEF SwpApart, SwpFreeNotListed
<1>7. CASE List(a) /\ List(b)
  BY <1>7 DEF SwpApart, SwpListOnce
<1>8. CASE List(a) /\ Held(b)
  BY <1>8 DEF SwpApart, SwpListNotHeld
<1>9. CASE List(a) /\ Mapped(b)
  BY <1>9 DEF SwpApart, SwpListNotMapped
<1>10. CASE Held(a) /\ Free(b)
  BY <1>10 DEF SwpApart, SwpFreeNotHeld
<1>11. CASE Held(a) /\ List(b)
  BY <1>11 DEF SwpApart, SwpListNotHeld
<1>12. CASE Held(a) /\ Held(b)
  BY <1>12 DEF SwpApart, SwpHeldOnce
<1>13. CASE Held(a) /\ Mapped(b)
  BY <1>13 DEF SwpApart, SwpHeldNotMapped
<1>14. CASE Mapped(a) /\ Free(b)
  BY <1>14 DEF SwpApart, SwpFreeNotMapped
<1>15. CASE Mapped(a) /\ List(b)
  BY <1>15 DEF SwpApart, SwpListNotMapped
<1>16. CASE Mapped(a) /\ Held(b)
  BY <1>16 DEF SwpApart, SwpHeldNotMapped
<1>17. CASE Mapped(a) /\ Mapped(b)
  BY <1>17 DEF SwpApart, SwpPageOnce
<1> HIDE DEF Free, List, Held, Mapped
<1> QED
  BY <1>1, <1>2, <1>3, <1>4, <1>5, <1>6, <1>7, <1>8, <1>9,
     <1>10, <1>11, <1>12, <1>13, <1>14, <1>15, <1>16, <1>17

\* No frame of swap is in two places, through allocations and faults of all
\* processes, until a fault finds the device used up and takes a frame number
\* that MEMPHY_get_freefp() did not set.
THEOREM SwpFramesExclusive == Spec => []SwpExclusive
<1>1. Init => Shape /\ (~wild => SwpApart)
  BY ShapeInit, SwpInit
<1>2. Shape /\ (~wild => SwpApart) /\ [Next]_vars => (Shape /\ (~wild => SwpApart))'
  BY ShapeStep, SwpStep
<1>3. Spec => [](Shape /\ (~wild => SwpApart))
  BY <1>1, <1>2, PTL DEF Spec
<1> QED
  BY <1>3, SwpApartExclusive, PTL

-----------------------------------------------------------------------------
(* Victims *)

Tracked == VictimsTracked /\ NextEnlisted

\* No process has a page at the start.
LEMMA NextPageInit == Init => \A p \in Proc : NextPage(p) = 0
<1> SUFFICES ASSUME Init, NEW p \in Proc PROVE NextPage(p) = 0
  OBVIOUS
<1>1. npages[p] = 0 /\ want[p] = 0
  BY DEF Init
<1>2. npages[p] - want[p] = 0
  BY <1>1
<1> QED
  BY <1>2 DEF NextPage

\* What leaves the page lists, and does not free frames.
LEMMA TrackedUnchanged ==
    ASSUME Tracked, UNCHANGED <<pgd, fifo_pgn>>,
           \A q \in Proc : NextPage(q)' = NextPage(q) /\ (Exhausted(q) => Exhausted(q)')
    PROVE  Tracked'
  BY DEF Tracked, VictimsTracked, NextEnlisted, InFifo

\* An allocation keeps the victims tracked: its range begins with a page that
\* the range before it enlisted, because a process that was once out of memory
\* never maps a range again.
LEMMA AllocTracked ==
    ASSUME Shape, Tracked, NEW p \in Proc, Alloc(p)
    PROVE  Tracked'
<1>0. \A q \in Proc : npages[q] \in Nat /\ want[q] \in Nat
  BY PagingAssumption DEF Shape, PagingTypeOK
<1>1. ASSUME NEW k \in 1..MaxPages, IncLimit(p, k) PROVE Tracked'
  <2>1. /\ want[p] = 0 /\ npages'[p] = npages[p] + k /\ want'[p] = k
        /\ \A q \in Proc : q # p => npages'[q] = npages[q] /\ want'[q] = want[q]
    BY <1>1 DEF Shape, PagingTypeOK, AllocShape, IncLimit
  <2>2. \A q \in Proc : NextPage(q)' = NextPage(q)
    BY <1>0, <2>1, PagingAssumption DEF NextPage
  <2>3. UNCHANGED <<ram_free, swp_free, frm_lst, frm_lst_swap, pgd, fifo_pgn>>
    BY <1>1 DEF IncLimit, memory
  <2> QED
    BY <2>2, <2>3, TrackedUnchanged DEF Exhausted, Got
<1>2. ASSUME GetRamFrame(p) PROVE Tracked'
  <2>1. ram_free # <<>> /\ UNCHANGED <<npages, want, pgd, fifo_pgn>>
    BY <1>2 DEF GetRamFrame, tables
  <2> QED
    BY <2>1, TrackedUnchanged DEF Exhausted, NextPage
<1>3. ASSUME GetSwpFrame(p) PROVE Tracked'
  <2>1. swp_free # <<>> /\ UNCHANGED <<npages, want, pgd, fifo_pgn>>
    BY <1>3 DEF GetSwpFrame, tables
  <2> QED
    BY <2>1, TrackedUnchanged DEF Exhausted, NextPage
<1>4. ASSUME EmptyLists(p)
      PROVE  /\ Got(p)' = 0 /\ want'[p] = 0
             /\ \A q \in Proc : q # p => Got(q)' = Got(q) /\ want'[q] = want[q]
  BY <1>4 DEF Shape, PagingTypeOK, EmptyLists, Got
<1>5. ASSUME OutOfMemory(p) PROVE Tracked'
  <2>1. /\ ram_free = <<>> /\ swp_free = <<>> /\ EmptyLists(p)
        /\ UNCHANGED <<ram_free, swp_free, pgd, fifo_pgn, npages>>
    BY <1>5 DEF OutOfMemory, memory, tables
  <2>2. VictimsTracked'
    BY <2>1 DEF Tracked, VictimsTracked
  <2>3. NextEnlisted'
    BY <1>4, <2>1 DEF Tracked, NextEnlisted, InFifo, NextPage, Exhausted
  <2> QED
    BY <2>2, <2>3 DEF Tracked
<1>6. ASSUME MapRange(p) PROVE Tracked'
  <2>0. PICK first \in Nat, inram \in Nat, inswp \in Nat : RangeMapped(p, first, inram, inswp)
    BY <1>6, MapRangeEntries
  <2>1. /\ first = NextPage(p) /\ inram + inswp > 0 /\ first + inram + inswp = npages[p] /\ npages[p] <= MaxPages
        /\ \A q \in Proc, n \in Page : q # p \/ n < first \/ n >= npages[p] => pgd'[q][n] = pgd[q][n]
    BY <2>0 DEF RangeMapped, NextPage
  <2>2. /\ fifo_pgn' = [fifo_pgn EXCEPT ![p] = EnlistRange(@, NextPage(p) + 1, npages[p])]
        /\ EmptyLists(p) /\ UNCHANGED <<ram_free, swp_free, npages>>
    BY <1>6 DEF MapRange, NextPage, memory
  <2>3. NextPage(p) + 1 \in Page /\ npages[p] \in Page /\ NextPage(p) + 1 <= npages[p]
    <3>1. first + 1 \in Page /\ first + inram + inswp \in Page /\ first + 1 <= first + inram + inswp
      BY <2>1, PagingAssumption DEF Page
    <3> QED
      BY <2>1, <3>1
  <2>4. /\ \A n \in (NextPage(p) + 1)..npages[p] : InFifo(p, n)'
        /\ \A n \in Page : InFifo(p, n) => InFifo(p, n)'
        /\ \A q \in Proc : q # p => fifo_pgn'[q] = fifo_pgn[q]
    <3>1. fifo_pgn[p] \in Seq(Page) /\ fifo_pgn \in [Proc -> Seq(Page)]
      BY DEF Shape, PagingTypeOK
    <3>2. /\ fifo_pgn'[p] = EnlistRange(fifo_pgn[p], NextPage(p) + 1, npages[p])
          /\ \A q \in Proc : q # p => fifo_pgn'[q] = fifo_pgn[q]
      BY <2>2, <3>1
    <3>3. \A n \in (NextPage(p) + 1)..npages[p] : \E j \in 1..Len(fifo_pgn'[p]) : fifo_pgn'[p][j] = n
      BY <2>3, <3>1, <3>2, EnlistRangeElements
    <3>4. \A i \in 1..Len(fifo_pgn[p]) : \E j \in 1..Len(fifo_pgn'[p]) : fifo_pgn'[p][j] = fifo_pgn[p][i]
      BY <2>3, <3>1, <3>2, EnlistRangeElements
    <3> QED
      BY <3>2, <3>3, <3>4 DEF InFifo
  <2>5. NextPage(p) = 0 \/ InFifo(p, NextPage(p))
    <3>1. Got(p) > 0
      BY <1>6 DEF Shape, AllocShape, MapRange
    <3> QED
      BY <3>1 DEF Tracked, NextEnlisted, Exhausted
  <2>6. VictimsTracked'
    <3> SUFFICES ASSUME NEW q \in Proc, NEW n \in Page \ {0}, pgd'[q][n].present PROVE InFifo(q, n)'
      BY DEF VictimsTracked, InFifo
    <3>1. CASE pgd'[q][n] = pgd[q][n]
      <4>1. InFifo(q, n)
        BY <3>1 DEF Tracked, VictimsTracked, InFifo
      <4> QED
        BY <2>4, <4>1 DEF InFifo
    <3>2. CASE pgd'[q][n] # pgd[q][n]
      <4>1. q = p /\ n \in Nat /\ n # 0 /\ first <= n /\ n < first + inram + inswp
        BY <2>1, <3>2, PagingAssumption DEF Page
      <4>2. CASE n = first
        BY <2>1, <2>4, <2>5, <4>1, <4>2
      <4>3. CASE n # first
        <5>1. n \in (first + 1)..(first + inram + inswp)
          BY <4>1, <4>3
        <5> QED
          BY <2>1, <2>4, <4>1, <5>1
      <4> QED
        BY <4>2, <4>3
    <3> QED
      BY <3>1, <3>2
  <2>7. NextEnlisted'
    <3>1. NextPage(p)' = npages[p]
      BY <1>0, <1>4, <2>2 DEF NextPage
    <3>2. \E j \in 1..Len(fifo_pgn'[p]) : fifo_pgn'[p][j] = npages[p]
      <4>1. npages[p] \in (NextPage(p) + 1)..npages[p]
        BY <1>0, <2>1, <2>3
      <4> QED
        BY <2>4, <4>1 DEF InFifo
    <3>3. ASSUME NEW q \in Proc, q # p
          PROVE  /\ NextPage(q)' = NextPage(q) /\ Exhausted(q)' = Exhausted(q)
                 /\ InFifo(q, NextPage(q))' = InFifo(q, NextPage(q))
      BY <1>4, <2>2, <2>4, <3>3 DEF NextPage, Exhausted, InFifo
    <3>4. ASSUME NEW q \in Proc PROVE NextPage(q)' = 0 \/ InFifo(q, NextPage(q))' \/ Exhausted(q)'
      <4>1. CASE q = p
        BY <3>1, <3>2, <4>1 DEF InFifo
      <4>2. CASE q # p
        BY <3>3, <4>2 DEF Tracked, NextEnlisted
      <4> QED
        BY <4>1, <4>2
    <3> QED
      BY <3>4 DEF NextEnlisted
  <2> QED
    BY <2>6, <2>7 DEF Tracked
<1> QED
  BY <1>1, <1>2, <1>3, <1>5, <1>6 DEF Alloc

\* An access that does not come to the second half of an exchange leaves the
\* page tables and the page lists as they are, and frees no frame.
LEMMA AccessTables ==
    ASSUME NEW p \in Proc, Access(p), ~SwapIn(p)
    PROVE  /\ UNCHANGED <<ram_free, pgd, fifo_pgn, npages, want, frm_lst, frm_lst_swap>>
           /\ swp_free = <<>> => swp_free' = <<>>
<1> DEFINE Kept == /\ UNCHANGED <<ram_free, pgd, fifo_pgn, npages, want, frm_lst, frm_lst_swap>>
                   /\ swp_free = <<>> => swp_free' = <<>>
<1>1. ASSUME NEW n \in Page, NEW o \in Offset, NEW v \in Value \cup {None}, Hit(p, n, o, v) PROVE Kept
  BY <1>1 DEF Hit, tables, locals
<1>2. ASSUME NEW n \in Page, NEW o \in Offset, NEW v \in Value \cup {None}, NEW vic \in Page, Miss(p, n, o, v, vic)
      PROVE  Kept
  BY <1>2 DEF Miss, tables, locals
<1>3. ASSUME NEW n \in Page, NEW vic \in Page, MissOutside(p, n, vic) PROVE Kept
  BY <1>3 DEF MissOutside, memory, tables, locals
<1>4. ASSUME NEW n \in Page, Drop(p, n) PROVE Kept
  BY <1>4 DEF Drop, vars, memory, tables, locals
<1>5. SwapOut(p) => Kept
  BY DEF SwapOut, tables, locals
<1>6. Finish(p) => Kept
  BY DEF Finish, tables, locals
<1> HIDE DEF Kept
<1>7. Kept
  BY <1>1, <1>2, <1>3, <1>4, <1>5, <1>6 DEF Access
<1> QED
  BY <1>7 DEF Kept

\* So does an access: the page that an exchange brings in is enlisted.
LEMMA AccessTracked ==
    ASSUME Shape, Tracked, NEW p \in Proc, Access(p)
    PROVE  Tracked'
<1>1. CASE ~SwapIn(p)
  <2>1. /\ UNCHANGED <<ram_free, pgd, fifo_pgn, npages, want, frm_lst, frm_lst_swap>>
        /\ swp_free = <<>> => swp_free' = <<>>
    BY <1>1, AccessTables
  <2>2. \A q \in Proc : NextPage(q)' = NextPage(q) /\ (Exhausted(q) => Exhausted(q)')
    BY <2>1 DEF NextPage, Exhausted, Got
  <2> QED
    BY <2>1, <2>2, TrackedUnchanged
<1>2. CASE SwapIn(p)
  <2>1. /\ fifo_pgn' = [fifo_pgn EXCEPT ![p] = Enlist(@, fault[p].pgn)]
        /\ UNCHANGED <<ram_free, swp_free, npages, want, frm_lst, frm_lst_swap>>
    BY <1>2 DEF SwapIn, locals
  <2>2. fault[p].pgn \in Page /\ fifo_pgn \in [Proc -> Seq(Page)] /\ fifo_pgn[p] \in Seq(Page)
    BY DEF Shape, PagingTypeOK
  <2>3. /\ fifo_pgn'[p] = Enlist(fifo_pgn[p], fault[p].pgn)
        /\ \A q \in Proc : q # p => fifo_pgn'[q] = fifo_pgn[q]
    BY <2>1, <2>2
  <2>4. \E j \in 1..Len(fifo_pgn'[p]) : fifo_pgn'[p][j] = fault[p].pgn
    <3>1. \E j \in 1..Len(Enlist(fifo_pgn[p], fault[p].pgn)) : Enlist(fifo_pgn[p], fault[p].pgn)[j] = fault[p].pgn
      BY <2>2, EnlistElements
    <3> QED
      BY <2>3, <3>1
  <2>5. \A i \in 1..Len(fifo_pgn[p]) : \E j \in 1..Len(fifo_pgn'[p]) : fifo_pgn'[p][j] = fifo_pgn[p][i]
    <3>1. \A i \in 1..Len(fifo_pgn[p]) :
             \E j \in 1..Len(Enlist(fifo_pgn[p], fault[p].pgn)) : Enlist(fifo_pgn[p], fault[p].pgn)[j] = fifo_pgn[p][i]
      BY <2>2, EnlistElements
    <3> QED
      BY <2>3, <3>1
  <2>6. ASSUME NEW q \in Proc, NEW n, InFifo(q, n) PROVE \E j \in 1..Len(fifo_pgn'[q]) : fifo_pgn'[q][j] = n
    BY <2>3, <2>5, <2>6 DEF InFifo
  <2>7. VictimsTracked'
    <3> SUFFICES ASSUME NEW q \in Proc, NEW n \in Page \ {0}, pgd'[q][n].present
                 PROVE  \E j \in 1..Len(fifo_pgn'[q]) : fifo_pgn'[q][j] = n
      BY DEF VictimsTracked
    <3>1. CASE q = p /\ n = fault[p].pgn
      BY <2>4, <3>1
    <3>2. CASE ~(q = p /\ n = fault[p].pgn)
      <4>1. pgd[q][n].present
        BY <1>2, <3>2, SwapInEntries, PteFields
      <4>2. InFifo(q, n)
        BY <4>1 DEF Tracked, VictimsTracked, InFifo
      <4> QED
        BY <2>6, <4>2
    <3> QED
      BY <3>1, <3>2
  <2>8. NextEnlisted'
    <3> SUFFICES ASSUME NEW q \in Proc
                 PROVE  NextPage(q)' = 0 \/ InFifo(q, NextPage(q))' \/ Exhausted(q)'
      BY DEF NextEnlisted
    <3>1. NextPage(q)' = NextPage(q) /\ (Exhausted(q) => Exhausted(q)')
      BY <2>1 DEF NextPage, Exhausted, Got
    <3>2. NextPage(q) = 0 \/ InFifo(q, NextPage(q)) \/ Exhausted(q)
      BY DEF Tracked, NextEnlisted
    <3>3. CASE InFifo(q, NextPage(q))
      <4>1. \E j \in 1..Len(fifo_pgn'[q]) : fifo_pgn'[q][j] = NextPage(q)
        BY <2>6, <3>3
      <4> QED
        BY <3>1, <4>1 DEF InFifo
    <3> QED
      BY <3>1, <3>2, <3>3
  <2> QED
    BY <2>7, <2>8 DEF Tracked
<1> QED
  BY <1>1, <1>2

\* No page is present at the start.
LEMMA TrackedInit == Init => Tracked
<1> SUFFICES ASSUME Init PROVE Tracked
  OBVIOUS
<1>1. VictimsTracked
  BY DEF Init, VictimsTracked, Blank
<1>2. NextEnlisted
  BY NextPageInit DEF NextEnlisted
<1> QED
  BY <1>1, <1>2 DEF Tracked

\* Every step keeps the victims tracked.
LEMMA TrackedStep == Shape /\ Tracked /\ [Next]_vars => Tracked'
<1> SUFFICES ASSUME Shape, Tracked, [Next]_vars PROVE Tracked'
  OBVIOUS
<1>1. CASE UNCHANGED vars
  <2>1. UNCHANGED <<ram_free, swp_free, pgd, fifo_pgn, npages, want, frm_lst, frm_lst_swap>>
    BY <1>1 DEF vars, memory, tables, locals
  <2> QED
    BY <2>1, TrackedUnchanged DEF NextPage, Exhausted, Got
<1>2. CASE \E p \in Proc : Alloc(p) \/ Access(p)
  BY <1>2, AllocTracked, AccessTracked
<1> QED
  BY <1>1, <1>2 DEF Next, Undefined

\* Every page in RAM but page 0 can be found as a victim, although
\* vmap_page_range() enlists the page behind each page that it maps.
THEOREM PagesTracked == Spec => []VictimsTracked
<1>1. Init => Shape /\ Tracked
  BY ShapeInit, TrackedInit
<1>2. Shape /\ Tracked /\ [Next]_vars => (Shape /\ Tracked)'
  BY ShapeStep, TrackedStep
<1>3. Tracked => VictimsTracked
  BY DEF Tracked
<1> QED
  BY <1>1, <1>2, <1>3, PTL DEF Spec

-----------------------------------------------------------------------------
(* Places *)

\* A step that keeps the places of the pages and frees no frame.
LEMMA PlacedUnchanged ==
    ASSUME PlacedBefore,
           ram_free = <<>> /\ swp_free = <<>> => ram_free' = <<>> /\ swp_free' = <<>>,
           \A q \in Proc : NextPage(q)' = NextPage(q),
           \A q \in Proc : \A n \in 0..(NextPage(q) - 1) : pgd[q][n].present \/ pgd[q][n].swapped =>
                 pgd'[q][n].present \/ pgd'[q][n].swapped
    PROVE  PlacedBefore'
  BY DEF PlacedBefore

\* Every step of an allocation keeps the pages in front of it placed.
LEMMA AllocPlaced ==
    ASSUME Shape, PlacedBefore, NEW p \in Proc, Alloc(p)
    PROVE  PlacedBefore'
<1>0. \A q \in Proc : npages[q] \in Nat /\ want[q] \in Nat /\ npages[q] <= MaxPages
  BY PagingAssumption DEF Shape, PagingTypeOK
<1>1. ASSUME NEW k \in 1..MaxPages, IncLimit(p, k) PROVE PlacedBefore'
  <2>1. /\ want[p] = 0 /\ npages'[p] = npages[p] + k /\ want'[p] = k
        /\ \A q \in Proc : q # p => npages'[q] = npages[q] /\ want'[q] = want[q]
    BY <1>1 DEF Shape, PagingTypeOK, AllocShape, IncLimit
  <2>2. \A q \in Proc : NextPage(q)' = NextPage(q)
    BY <1>0, <2>1, PagingAssumption DEF NextPage
  <2>3. UNCHANGED <<ram_free, swp_free, pgd>>
    BY <1>1 DEF IncLimit, memory
  <2> QED
    BY <2>2, <2>3, PlacedUnchanged
<1>2. ASSUME GetRamFrame(p) PROVE PlacedBefore'
  <2>1. ram_free # <<>> /\ UNCHANGED <<npages, want, pgd>>
    BY <1>2 DEF GetRamFrame, tables
  <2> QED
    BY <2>1, PlacedUnchanged DEF NextPage
<1>3. ASSUME GetSwpFrame(p) PROVE PlacedBefore'
  <2>1. swp_free # <<>> /\ UNCHANGED <<npages, want, pgd>>
    BY <1>3 DEF GetSwpFrame, tables
  <2> QED
    BY <2>1, PlacedUnchanged DEF NextPage
<1>4. ASSUME OutOfMemory(p) PROVE PlacedBefore'
  BY <1>4 DEF OutOfMemory, memory, PlacedBefore
<1>5. ASSUME MapRange(p) PROVE PlacedBefore'
  <2>0. PICK first \in Nat, inram \in Nat, inswp \in Nat : RangeMapped(p, first, inram, inswp)
    BY <1>5, MapRangeEntries
  <2>1. UNCHANGED <<ram_free, swp_free, npages>>
    BY <1>5 DEF MapRange, memory
  <2>2. want'[p] = 0 /\ \A q \in Proc : q # p => want'[q] = want[q]
    BY <1>5 DEF Shape, PagingTypeOK, MapRange, EmptyLists
  <2>3. NextPage(p)' = npages[p] /\ \A q \in Proc : q # p => NextPage(q)' = NextPage(q)
    BY <1>0, <2>1, <2>2 DEF NextPage
  <2> SUFFICES ASSUME NEW q \in Proc, NEW n \in 0..(NextPage(q)' - 1)
               PROVE  pgd'[q][n].present \/ pgd'[q][n].swapped \/ (ram_free = <<>> /\ swp_free = <<>>)
    BY <2>1 DEF PlacedBefore
  <2>4. CASE q # p
    <3>1. n \in 0..(NextPage(q) - 1)
      BY <2>3, <2>4
    <3>2. n \in Page
      BY <1>0, <3>1, PagingAssumption DEF NextPage, Page
    <3>3. pgd'[q][n] = pgd[q][n]
      BY <2>0, <2>4, <3>2 DEF RangeMapped
    <3> QED
      BY <3>1, <3>3 DEF PlacedBefore
  <2>5. CASE q = p
    <3>1. n \in Nat /\ n < npages[p] /\ n \in Page
      BY <1>0, <2>3, <2>5, PagingAssumption DEF Page
    <3>2. CASE n < first
      <4>1. n \in 0..(NextPage(p) - 1)
        BY <2>0, <3>1, <3>2 DEF RangeMapped, NextPage
      <4>2. pgd'[p][n] = pgd[p][n]
        BY <2>0, <3>1, <3>2 DEF RangeMapped
      <4> QED
        BY <2>5, <4>1, <4>2 DEF PlacedBefore
    <3>3. CASE first <= n /\ n < first + inram
      BY <2>0, <2>5, <3>1, <3>3, PteFields DEF RangeMapped
    <3>4. CASE first + inram <= n
      BY <2>0, <2>5, <3>1, <3>4, PteFields DEF RangeMapped
    <3> QED
      BY <3>1, <3>2, <3>3, <3>4
  <2> QED
    BY <2>4, <2>5
<1> QED
  BY <1>1, <1>2, <1>3, <1>4, <1>5 DEF Alloc

\* So does an access: an exchange gives both pages a place.
LEMMA AccessPlaced ==
    ASSUME Shape, PlacedBefore, NEW p \in Proc, Access(p)
    PROVE  PlacedBefore'
<1>1. CASE ~SwapIn(p)
  BY <1>1, AccessTables, PlacedUnchanged DEF NextPage
<1>2. CASE SwapIn(p)
  <2>1. UNCHANGED <<ram_free, swp_free, npages, want>>
    BY <1>2 DEF SwapIn, locals
  <2>2. ASSUME NEW q \in Proc, NEW n \in 0..(NextPage(q) - 1), pgd[q][n].present \/ pgd[q][n].swapped
        PROVE  pgd'[q][n].present \/ pgd'[q][n].swapped
    <3>1. n \in Page
      <4>1. npages[q] \in Nat /\ want[q] \in Nat /\ npages[q] <= MaxPages
        BY PagingAssumption DEF Shape, PagingTypeOK
      <4> QED
        BY <4>1, PagingAssumption DEF NextPage, Page
    <3> QED
      BY <1>2, <2>2, <3>1, SwapInEntries, PteFields
  <2>3. \A q \in Proc : NextPage(q)' = NextPage(q)
    BY <2>1 DEF NextPage
  <2> QED
    BY <2>1, <2>2, <2>3, PlacedUnchanged
<1> QED
  BY <1>1, <1>2

\* There is no page to place at the start.
LEMMA PlacedInit == Init => PlacedBefore
<1> SUFFICES ASSUME Init PROVE PlacedBefore
  OBVIOUS
<1>1. \A p \in Proc : NextPage(p) = 0
  BY NextPageInit
<1> QED
  BY <1>1 DEF PlacedBefore

\* Every step keeps the pages placed.
LEMMA PlacedStep == Shape /\ PlacedBefore /\ [Next]_vars => PlacedBefore'
<1> SUFFICES ASSUME Shape, PlacedBefore, [Next]_vars PROVE PlacedBefore'
  OBVIOUS
<1>1. CASE UNCHANGED vars
  <2>1. UNCHANGED <<ram_free, swp_free, pgd, npages, want>>
    BY <1>1 DEF vars, memory, tables, locals
  <2> QED
    BY <2>1, PlacedUnchanged DEF NextPage
<1>2. CASE \E p \in Proc : Alloc(p) \/ Access(p)
  BY <1>2, AllocPlaced, AccessPlaced
<1> QED
  BY <1>1, <1>2 DEF Next, Undefined

\* Every page below vm_end is in RAM or in swap once its allocation is over,
\* until both devices are used up.
THEOREM PagesAlwaysPlaced == Spec => []PagesPlaced
<1>1. Init => Shape /\ PlacedBefore
  BY ShapeInit, PlacedInit
<1>2. Shape /\ PlacedBefore /\ [Next]_vars => (Shape /\ PlacedBefore)'
  BY ShapeStep, PlacedStep
<1>3. Shape /\ PlacedBefore => PagesPlaced
  <2> SUFFICES ASSUME Shape, PlacedBefore, NEW p \in Proc, NEW n \in 0..(npages[p] - 1), mpc[p] # "alloc"
               PROVE  pgd[p][n].present \/ pgd[p][n].swapped \/ (ram_free = <<>> /\ swp_free = <<>>)
    BY DEF PagesPlaced
  <2>1. npages[p] \in Nat /\ want[p] = 0
    BY PagingAssumption DEF Shape, PagingTypeOK, AllocShape
  <2>2. n \in 0..(NextPage(p) - 1)
    BY <2>1 DEF NextPage
  <2> QED
    BY <2>2 DEF PlacedBefore
<1> QED
  BY <1>1, <1>2, <1>3, PTL DEF Spec

-----------------------------------------------------------------------------
(* Data *)

DataInv == BlankUnwritten /\ DataKept /\ VictimCopied

\* The exchanges between their two copies stay as they are.
StillIn(p) == \A q \in Proc : mpc'[q] = "in" => q # p /\ mpc[q] = "in" /\ fault'[q] = fault[q]

\* A step that moves no data.
LEMMA DataUnchanged ==
    ASSUME DataInv, NEW p, StillIn(p), UNCHANGED <<ram, swp, pgd, written>>, stray => stray', wild => wild'
    PROVE  DataInv'
<1>1. BlankUnwritten'
  BY DEF DataInv, BlankUnwritten
<1>2. DataKept'
  BY DEF DataInv, DataKept, Contents
<1>3. VictimCopied'
  BY DEF DataInv, VictimCopied, StillIn
<1> QED
  BY <1>1, <1>2, <1>3 DEF DataInv

\* A WRITE to a page that is present.
LEMMA DataTouched ==
    ASSUME Shape, RamApart, DataInv,
           NEW p \in Proc, NEW n \in Page, NEW o \in Offset, NEW fpn \in 0..(FpnMod - 1),
           NEW v \in Value \cup {None}, pgd[p][n].present, Touch(p, n, o, fpn, v),
           StillIn(p), UNCHANGED <<swp, pgd, wild>>
    PROVE  DataInv'
<1>1. CASE v = None
  <2>1. UNCHANGED <<ram, written, stray>>
    BY <1>1 DEF Touch
  <2> QED
    BY <2>1, DataUnchanged
<1>2. CASE v # None
  <2>1. /\ written' = [written EXCEPT ![p][n][o] = v]
        /\ stray' = (stray \/ pgd[p][n] # SetFpn(fpn))
        /\ fpn \in RamFrame => ram' = [ram EXCEPT ![fpn][o] = Datum(p, n, v)]
    BY <1>2 DEF Touch
  <2>2. /\ written \in [Proc -> [Page -> [Offset -> Value \cup {None}]]]
        /\ ram \in [RamFrame -> [Offset -> Data \cup {None}]]
    BY DEF Shape, PagingTypeOK
  <2>3. /\ written'[p][n][o] = v
        /\ \A q \in Proc, m \in Page, b \in Offset :
              ~(q = p /\ m = n /\ b = o) => written'[q][m][b] = written[q][m][b]
    BY <2>1, <2>2
  <2>4. ASSUME ~stray'
        PROVE  /\ ~stray /\ fpn = pgd[p][n].val /\ fpn \in RamFrame
               /\ ram'[fpn][o] = Datum(p, n, v)
               /\ \A b \in Offset : b # o => ram'[fpn][b] = ram[fpn][b]
               /\ \A f \in RamFrame : f # fpn => ram'[f] = ram[f]
    <3>1. ~stray /\ pgd[p][n] = SetFpn(fpn)
      BY <2>1, <2>4
    <3>2. fpn = pgd[p][n].val /\ fpn \in RamFrame
      <4>1. SetFpn(fpn).val = fpn
        BY PteFields
      <4>2. pgd[p][n].val \in RamFrame
        BY DEF Shape, PagingTypeOK
      <4> QED
        BY <3>1, <4>1, <4>2
    <3> QED
      BY <2>1, <2>2, <3>1, <3>2
  <2>5. BlankUnwritten'
    <3> SUFFICES ASSUME NEW q \in Proc, NEW m \in Page, NEW b \in Offset, ~pgd[q][m].present, ~pgd[q][m].swapped
                 PROVE  written'[q][m][b] = None
      BY DEF BlankUnwritten
    <3>1. ~(q = p /\ m = n)
      OBVIOUS
    <3> QED
      BY <2>3, <3>1 DEF DataInv, BlankUnwritten
  <2>6. DataKept'
    <3> SUFFICES ASSUME ~stray', ~wild', NEW q \in Proc, NEW m \in Page, NEW b \in Offset,
                        written'[q][m][b] # None
                 PROVE  Contents(q, m)'[b] = Datum(q, m, written'[q][m][b])
      BY DEF DataKept
    <3>1. CASE q = p /\ m = n /\ b = o
      <4>1. Contents(q, m)' = ram'[fpn]
        BY <2>4, <3>1 DEF Contents
      <4> QED
        BY <2>3, <2>4, <3>1, <4>1
    <3>2. CASE ~(q = p /\ m = n /\ b = o)
      <4>1. Contents(q, m)[b] = Datum(q, m, written'[q][m][b])
        BY <2>3, <2>4, <3>2 DEF DataInv, DataKept
      <4>2. CASE q = p /\ m = n
        <5>1. Contents(q, m)' = ram'[fpn] /\ Contents(q, m) = ram[fpn] /\ b # o
          BY <2>4, <3>2, <4>2 DEF Contents
        <5> QED
          BY <2>4, <4>1, <5>1
      <4>3. CASE ~(q = p /\ m = n) /\ pgd[q][m].present
        <5>1. pgd[q][m].val # fpn /\ pgd[q][m].val \in RamFrame
          <6>1. pgd[q][m].val \in RamFrame
            BY <4>3 DEF Shape, PagingTypeOK
          <6>2. pgd[q][m].val # pgd[p][n].val
            BY <4>3 DEF RamApart, RamPageOnce
          <6>3. fpn = pgd[p][n].val
            BY <2>4
          <6> QED
            BY <6>1, <6>2, <6>3
        <5> QED
          BY <2>4, <4>1, <4>3, <5>1 DEF Contents
      <4>4. CASE ~pgd[q][m].present
        BY <4>1, <4>4 DEF Contents
      <4> QED
        BY <4>2, <4>3, <4>4
    <3> QED
      BY <3>1, <3>2
  <2>7. VictimCopied'
    <3> SUFFICES ASSUME ~stray', ~wild', NEW q \in Proc, mpc'[q] = "in"
                 PROVE  swp[fault'[q].swpfpn] = ram'[pgd[q][fault'[q].vicpgn].val]
      BY DEF VictimCopied
    <3>1. q # p /\ mpc[q] = "in" /\ fault'[q] = fault[q] /\ fault[q].vicpgn \in Page
      BY DEF StillIn, Shape, PagingTypeOK
    <3>2. pgd[q][fault[q].vicpgn].present
      BY <3>1 DEF Shape, FaultShape
    <3>3. pgd[q][fault[q].vicpgn].val # fpn /\ pgd[q][fault[q].vicpgn].val \in RamFrame
      BY <2>4, <3>1, <3>2 DEF RamApart, RamPageOnce, Shape, PagingTypeOK
    <3>4. swp[fault[q].swpfpn] = ram[pgd[q][fault[q].vicpgn].val]
      BY <2>4, <3>1 DEF DataInv, VictimCopied
    <3> QED
      BY <2>4, <3>1, <3>3, <3>4
  <2> QED
    BY <2>5, <2>6, <2>7 DEF DataInv
<1> QED
  BY <1>1, <1>2

\* vmap_page_range() maps pages that were not written.
LEMMA DataMapped ==
    ASSUME Shape, DataInv, NEW p \in Proc, MapRange(p)
    PROVE  DataInv'
<1>0. PICK first \in Nat, inram \in Nat, inswp \in Nat : RangeMapped(p, first, inram, inswp)
  BY MapRangeEntries
<1>1. UNCHANGED <<ram, swp, stray, wild, fault>>
  BY DEF MapRange, memory
<1>2. StillIn(p)
  BY <1>1 DEF Shape, PagingTypeOK, MapRange, Goto, StillIn
<1>3. written' = [written EXCEPT ![p] = [n \in Page |->
          IF n \in first..(npages[p] - 1) THEN Unwritten ELSE written[p][n]]]
  BY <1>0 DEF MapRange, RangeMapped
<1>4. ASSUME NEW q \in Proc, NEW n \in Page
      PROVE  \/ pgd'[q][n] = pgd[q][n] /\ written'[q][n] = written[q][n]
             \/ written'[q][n] = Unwritten /\ (pgd'[q][n].present \/ pgd'[q][n].swapped)
  <2>0. npages[p] \in Nat /\ n \in Nat
    BY PagingAssumption DEF Shape, PagingTypeOK, Page
  <2>1. CASE q # p \/ n < first \/ n >= npages[p]
    <3>1. pgd'[q][n] = pgd[q][n]
      BY <1>0, <2>1 DEF RangeMapped
    <3>2. written'[q][n] = written[q][n]
      BY <1>3, <2>0, <2>1 DEF Shape, PagingTypeOK
    <3> QED
      BY <3>1, <3>2
  <2>2. CASE q = p /\ first <= n /\ n < npages[p]
    <3>1. n \in first..(npages[p] - 1)
      BY <2>0, <2>2
    <3>2. written'[q][n] = Unwritten
      BY <1>3, <2>2, <3>1 DEF Shape, PagingTypeOK
    <3>3. CASE n < first + inram
      BY <1>0, <2>2, <3>2, <3>3, PteFields DEF RangeMapped
    <3>4. CASE first + inram <= n
      BY <1>0, <2>2, <3>2, <3>4, PteFields DEF RangeMapped
    <3> QED
      BY <2>0, <3>3, <3>4
  <2> QED
    BY <2>0, <2>1, <2>2
<1>5. \A b \in Offset : Unwritten[b] = None
  BY DEF Unwritten
<1>6. BlankUnwritten'
  BY <1>4, <1>5 DEF DataInv, BlankUnwritten
<1>7. DataKept'
  BY <1>1, <1>4, <1>5 DEF DataInv, DataKept, Contents
<1>8. VictimCopied'
  <2> SUFFICES ASSUME ~stray, ~wild, NEW q \in Proc, mpc'[q] = "in"
               PROVE  swp[fault[q].swpfpn] = ram[pgd'[q][fault[q].vicpgn].val]
    BY <1>1 DEF VictimCopied
  <2>1. q # p /\ mpc[q] = "in" /\ fault[q].vicpgn \in Page
    BY <1>2 DEF StillIn, Shape, PagingTypeOK
  <2>2. pgd'[q][fault[q].vicpgn] = pgd[q][fault[q].vicpgn]
    BY <1>0, <2>1 DEF RangeMapped
  <2> QED
    BY <2>1, <2>2 DEF DataInv, VictimCopied
<1> QED
  BY <1>6, <1>7, <1>8 DEF DataInv

\* The first copy of an exchange goes to a frame of swap that holds no page.
LEMMA DataOut ==
    ASSUME Shape, ~wild => SwpApart, DataInv, NEW p \in Proc, SwapOut(p)
    PROVE  DataInv'
<1>1. /\ mpc[p] = "out" /\ swp' = [swp EXCEPT ![fault[p].swpfpn] = ram[VicFpn(p)]]
      /\ UNCHANGED <<ram, pgd, fault, written, stray, wild>>
  BY DEF SwapOut, tables
<1>2. fault[p].swpfpn \in SwpFrame /\ fault[p].vicpgn \in Page
  BY DEF Shape, PagingTypeOK
<1>3. VicFpn(p) = pgd[p][fault[p].vicpgn].val
  BY <1>1 DEF Shape, FaultShape, VicFpn, Fpn
<1>4. /\ swp'[fault[p].swpfpn] = ram[pgd[p][fault[p].vicpgn].val]
      /\ \A f \in SwpFrame : f # fault[p].swpfpn => swp'[f] = swp[f]
  BY <1>1, <1>2, <1>3 DEF Shape, PagingTypeOK
<1>5. BlankUnwritten'
  BY <1>1 DEF DataInv, BlankUnwritten
<1>6. DataKept'
  <2> SUFFICES ASSUME ~stray, ~wild, NEW q \in Proc, NEW m \in Page, NEW b \in Offset, written[q][m][b] # None
               PROVE  Contents(q, m)' = Contents(q, m)
    BY <1>1 DEF DataInv, DataKept
  <2>1. CASE pgd[q][m].present
    BY <1>1, <2>1 DEF Contents
  <2>2. CASE ~pgd[q][m].present
    <3>1. pgd[q][m].swapped
      BY <2>2 DEF DataInv, BlankUnwritten
    <3>2. pgd[q][m].val \in SwpFrame
      BY <2>2 DEF Shape, PagingTypeOK
    <3>3. pgd[q][m].val # fault[p].swpfpn
      BY <1>1, <3>1 DEF SwpApart, SwpHeldNotMapped, Holds
    <3> QED
      BY <1>1, <1>4, <2>2, <3>2, <3>3 DEF Contents
  <2> QED
    BY <2>1, <2>2
<1>7. VictimCopied'
  <2> SUFFICES ASSUME ~stray, ~wild, NEW q \in Proc, mpc'[q] = "in"
               PROVE  swp'[fault[q].swpfpn] = ram[pgd[q][fault[q].vicpgn].val]
    BY <1>1 DEF VictimCopied
  <2>1. CASE q = p
    BY <1>4, <2>1
  <2>2. CASE q # p
    <3>1. mpc[q] = "in" /\ fault[q].swpfpn \in SwpFrame
      BY <2>2 DEF Shape, PagingTypeOK, SwapOut, Goto
    <3>2. fault[q].swpfpn # fault[p].swpfpn
      BY <1>1, <2>2, <3>1 DEF SwpApart, SwpHeldOnce, Holds
    <3> QED
      BY <1>4, <3>1, <3>2 DEF DataInv, VictimCopied
  <2> QED
    BY <2>1, <2>2
<1> QED
  BY <1>5, <1>6, <1>7 DEF DataInv

\* The second copy finds the victim's data in its frame of swap, and every
\* other page away from the victim's frame of RAM.
LEMMA DataIn ==
    ASSUME Shape, RamApart, DataInv, NEW p \in Proc, SwapIn(p)
    PROVE  DataInv'
<1> DEFINE vic == fault[p].vicpgn
           tgt == fault[p].pgn
<1>1. /\ mpc[p] = "in" /\ ram' = [ram EXCEPT ![VicFpn(p)] = swp[pgd[p][tgt].val]]
      /\ UNCHANGED <<swp, fault, written, stray, wild>>
  BY DEF SwapIn
<1>2. /\ vic \in Page /\ tgt \in Page /\ vic # tgt
      /\ pgd[p][vic].present /\ ~pgd[p][tgt].present
      /\ VicFpn(p) = pgd[p][vic].val /\ VicFpn(p) \in RamFrame
      /\ pgd'[p][vic] = SetSwap(fault[p].swpfpn) /\ pgd'[p][tgt] = SetFpn(VicFpn(p))
      /\ \A q \in Proc, n \in Page : q # p \/ n \notin {vic, tgt} => pgd'[q][n] = pgd[q][n]
  BY SwapInEntries
<1>3. /\ ram'[VicFpn(p)] = swp[pgd[p][tgt].val]
      /\ \A f \in RamFrame : f # VicFpn(p) => ram'[f] = ram[f]
  BY <1>1, <1>2 DEF Shape, PagingTypeOK
<1>4. BlankUnwritten'
  BY <1>1, <1>2, PteFields DEF DataInv, BlankUnwritten
<1>5. ASSUME NEW q \in Proc, NEW m \in Page, ~(q = p /\ m = vic), pgd[q][m].present
      PROVE  ram'[pgd[q][m].val] = ram[pgd[q][m].val]
  <2>1. pgd[q][m].val \in RamFrame
    BY <1>5 DEF Shape, PagingTypeOK
  <2>2. pgd[q][m].val # VicFpn(p)
    BY <1>2, <1>5 DEF RamApart, RamPageOnce
  <2> QED
    BY <1>3, <2>1, <2>2
<1>6. ASSUME ~stray, ~wild, NEW q \in Proc, NEW m \in Page PROVE Contents(q, m)' = Contents(q, m)
  <2>1. CASE q = p /\ m = vic
    <3>1. Contents(q, m)' = swp[fault[p].swpfpn]
      <4>1. fault[p].swpfpn \in SwpFrame
        BY DEF Shape, PagingTypeOK
      <4> QED
        BY <1>1, <1>2, <2>1, <4>1, PteFields DEF Contents
    <3>2. Contents(q, m) = ram[pgd[p][vic].val]
      BY <1>2, <2>1 DEF Contents
    <3> QED
      BY <1>1, <1>6, <3>1, <3>2 DEF DataInv, VictimCopied
  <2>2. CASE q = p /\ m = tgt
    <3>1. Contents(q, m)' = ram'[VicFpn(p)]
      BY <1>2, <2>2, PteFields DEF Contents
    <3>2. Contents(q, m) = swp[pgd[p][tgt].val]
      BY <1>2, <2>2 DEF Contents
    <3> QED
      BY <1>3, <3>1, <3>2
  <2>3. CASE ~(q = p /\ m \in {vic, tgt})
    <3>1. pgd'[q][m] = pgd[q][m]
      BY <1>2, <2>3
    <3> QED
      BY <1>1, <1>5, <2>3, <3>1 DEF Contents
  <2> QED
    BY <2>1, <2>2, <2>3
<1>7. DataKept'
  BY <1>1, <1>6 DEF DataInv, DataKept
<1>8. VictimCopied'
  <2> SUFFICES ASSUME ~stray, ~wild, NEW q \in Proc, mpc'[q] = "in"
               PROVE  swp[fault[q].swpfpn] = ram'[pgd'[q][fault[q].vicpgn].val]
    BY <1>1 DEF VictimCopied
  <2>1. q # p /\ mpc[q] = "in" /\ fault[q].vicpgn \in Page
    BY DEF Shape, PagingTypeOK, SwapIn, Goto
  <2>2. pgd[q][fault[q].vicpgn].present /\ pgd'[q][fault[q].vicpgn] = pgd[q][fault[q].vicpgn]
    BY <1>2, <2>1 DEF Shape, FaultShape
  <2>3. ram'[pgd[q][fault[q].vicpgn].val] = ram[pgd[q][fault[q].vicpgn].val]
    BY <1>5, <2>1, <2>2
  <2> QED
    BY <2>1, <2>2, <2>3 DEF DataInv, VictimCopied
<1> QED
  BY <1>4, <1>7, <1>8 DEF DataInv

\* The other steps of an access move no data or are a READ or WRITE.
LEMMA DataAccess ==
    ASSUME Shape, RamApart, ~wild => SwpApart, DataInv, NEW p \in Proc, Access(p)
    PROVE  DataInv'
<1>0. mpc \in [Proc -> {"idle", "alloc", "out", "in", "access"}]
  BY DEF Shape, PagingTypeOK
<1>1. ASSUME NEW n \in Page, NEW o \in Offset, NEW v \in Value \cup {None}, Hit(p, n, o, v) PROVE DataInv'
  <2>1. /\ pgd[p][n].present /\ Touch(p, n, o, Fpn(pgd[p][n]), v)
        /\ UNCHANGED <<swp, pgd, wild>>
    BY <1>1 DEF Hit, tables
  <2>2. StillIn(p)
    BY <1>1 DEF Hit, StillIn
  <2>3. Fpn(pgd[p][n]) \in 0..(FpnMod - 1)
    <3>1. pgd[p][n] \in Pte /\ (pgd[p][n].present => pgd[p][n].val \in RamFrame)
      BY DEF Shape, PagingTypeOK
    <3> QED
      BY <3>1, FpnType
  <2> QED
    BY <2>1, <2>2, <2>3, DataTouched
<1>2. ASSUME NEW n \in Page, NEW o \in Offset, NEW v \in Value \cup {None}, NEW vic \in Page, Miss(p, n, o, v, vic)
      PROVE  DataInv'
  <2>1. UNCHANGED <<ram, swp, pgd, written, stray>> /\ (wild => wild')
    BY <1>2 DEF Miss, tables
  <2>2. mpc'[p] = "out" /\ \A q \in Proc : q # p => mpc'[q] = mpc[q]
    BY <1>0, <1>2 DEF Miss, Goto
  <2>3. \A q \in Proc : q # p => fault'[q] = fault[q]
    BY <1>2 DEF Miss, Shape, PagingTypeOK
  <2>4. StillIn(p)
    BY <2>2, <2>3 DEF StillIn
  <2> QED
    BY <2>1, <2>4, DataUnchanged
<1>3. ASSUME NEW n \in Page, NEW vic \in Page, MissOutside(p, n, vic) PROVE DataInv'
  <2>1. UNCHANGED <<ram, swp, pgd, written, stray>> /\ (wild => wild')
    BY <1>3 DEF MissOutside, memory, tables
  <2>2. StillIn(p)
    BY <1>3 DEF MissOutside, StillIn
  <2> QED
    BY <2>1, <2>2, DataUnchanged
<1>4. ASSUME NEW n \in Page, Drop(p, n) PROVE DataInv'
  <2>1. UNCHANGED <<ram, swp, pgd, written, stray, wild>>
    BY <1>4 DEF Drop, vars, memory, tables
  <2>2. StillIn(p)
    BY <1>4 DEF Drop, vars, StillIn
  <2> QED
    BY <2>1, <2>2, DataUnchanged
<1>5. ASSUME Finish(p) PROVE DataInv'
  <2>1. /\ mpc[p] = "access" /\ Touch(p, fault[p].pgn, fault[p].off, fault[p].fpn, fault[p].data)
        /\ UNCHANGED <<swp, pgd, wild>>
    BY <1>5 DEF Finish, tables
  <2>2. /\ fault[p].pgn \in Page /\ fault[p].off \in Offset /\ fault[p].data \in Value \cup {None}
        /\ fault[p].fpn \in 0..(FpnMod - 1) /\ pgd[p][fault[p].pgn].present
    BY <2>1 DEF Shape, PagingTypeOK, FaultShape
  <2>3. StillIn(p)
    <3>1. mpc'[p] = "idle" /\ \A q \in Proc : q # p => mpc'[q] = mpc[q]
      BY <1>0, <1>5 DEF Finish, Goto
    <3>2. \A q \in Proc : q # p => fault'[q] = fault[q]
      BY <1>5 DEF Finish, Shape, PagingTypeOK
    <3> QED
      BY <3>1, <3>2 DEF StillIn
  <2> QED
    BY <2>1, <2>2, <2>3, DataTouched
<1> QED
  BY <1>1, <1>2, <1>3, <1>4, <1>5, DataOut, DataIn DEF Access

\* An allocation moves no data.
LEMMA DataAlloc ==
    ASSUME Shape, DataInv, NEW p \in Proc, Alloc(p)
    PROVE  DataInv'
<1>0. mpc \in [Proc -> {"idle", "alloc", "out", "in", "access"}]
  BY DEF Shape, PagingTypeOK
<1>1. ASSUME NEW k \in 1..MaxPages, IncLimit(p, k) PROVE DataInv'
  <2>1. UNCHANGED <<ram, swp, pgd, written, stray, wild>>
    BY <1>1 DEF IncLimit, memory
  <2>2. StillIn(p)
    BY <1>0, <1>1 DEF IncLimit, Goto, StillIn
  <2> QED
    BY <2>1, <2>2, DataUnchanged
<1>2. ASSUME GetRamFrame(p) PROVE DataInv'
  <2>1. UNCHANGED <<ram, swp, pgd, written, stray, wild>>
    BY <1>2 DEF GetRamFrame, tables
  <2>2. StillIn(p)
    BY <1>2 DEF GetRamFrame, StillIn
  <2> QED
    BY <2>1, <2>2, DataUnchanged
<1>3. ASSUME GetSwpFrame(p) PROVE DataInv'
  <2>1. UNCHANGED <<ram, swp, pgd, written, stray, wild>>
    BY <1>3 DEF GetSwpFrame, tables
  <2>2. StillIn(p)
    BY <1>3 DEF GetSwpFrame, StillIn
  <2> QED
    BY <2>1, <2>2, DataUnchanged
<1>4. ASSUME OutOfMemory(p) PROVE DataInv'
  <2>1. UNCHANGED <<ram, swp, pgd, written, stray, wild>>
    BY <1>4 DEF OutOfMemory, memory, tables
  <2>2. StillIn(p)
    BY <1>0, <1>4 DEF OutOfMemory, Goto, StillIn
  <2> QED
    BY <2>1, <2>2, DataUnchanged
<1> QED
  BY <1>1, <1>2, <1>3, <1>4, DataMapped DEF Alloc

\* The invariant of the whole module.
LEMMA PagingInvInit == Init => PagingInv
<1> SUFFICES ASSUME Init PROVE PagingInv
  OBVIOUS
<1>1. Shape /\ RamApart /\ SwpApart
  BY ShapeInit, RamInit, SwpInit
<1>2. Tracked /\ PlacedBefore
  BY TrackedInit, PlacedInit
<1>3. \A p \in Proc, n \in Page, o \in Offset : written[p][n][o] = None
  BY DEF Init, Unwritten
<1>4. BlankUnwritten /\ DataKept
  BY <1>3 DEF BlankUnwritten, DataKept
<1>5. VictimCopied
  BY DEF Init, VictimCopied
<1> QED
  BY <1>1, <1>2, <1>4, <1>5 DEF PagingInv, Tracked

\* Every step keeps it.
LEMMA PagingInvStep == PagingInv /\ [Next]_vars => PagingInv'
<1> SUFFICES ASSUME PagingInv, [Next]_vars PROVE PagingInv'
  OBVIOUS
<1>1. Shape /\ RamApart /\ (~wild => SwpApart) /\ Tracked /\ PlacedBefore /\ DataInv
  BY DEF PagingInv, Tracked, DataInv
<1>2. Shape' /\ RamApart' /\ (~wild => SwpApart)' /\ Tracked' /\ PlacedBefore'
  BY <1>1, ShapeStep, RamStep, SwpStep, TrackedStep, PlacedStep
<1>3. DataInv'
  <2>1. CASE UNCHANGED vars
    <3>1. UNCHANGED <<ram, swp, pgd, written, stray, wild, mpc, fault>>
      BY <2>1 DEF vars, memory, tables
    <3> QED
      BY <1>1, <3>1 DEF DataInv, BlankUnwritten, DataKept, VictimCopied, Contents
  <2>2. CASE \E p \in Proc : Alloc(p) \/ Access(p)
    BY <1>1, <2>2, DataAlloc, DataAccess
  <2> QED
    BY <2>1, <2>2 DEF Next, Undefined
<1> QED
  BY <1>2, <1>3 DEF PagingInv, Tracked, DataInv

\* PagingInv holds in every state that is reached.
THEOREM PagingInvariant == Spec => []PagingInv
  BY PagingInvInit, PagingInvStep, PTL DEF Spec

\* What a process wrote is in its page, through the exchanges with swap and next
\* to the faults of the other processes, until a WRITE goes astray or the swap
\* device is used up.
THEOREM DataAlwaysKept == Spec => []DataKept
<1>1. PagingInv => DataKept
  BY DEF PagingInv
<1> QED
  BY <1>1, PagingInvariant, PTL

-----------------------------------------------------------------------------
(* Enough RAM *)

\* No page fault on the page behind the area of a process, which the test of
\* pgread() and pgwrite() allows: an offset that equals the size of its region.
InsideArea == \A p \in Proc : mpc[p] = "out" => fault[p].pgn < npages[p]

\* Swap is not used: the pages that a process has mapped, and no others, are in RAM.
InRam ==
    /\ ~stray /\ ~wild /\ ~undefined /\ swp_free # <<>>
    /\ \A p \in Proc : mpc[p] \in {"idle", "alloc"} /\ frm_lst_swap[p] = <<>>
    /\ \A p \in Proc, n \in Page : (pgd[p][n].present <=> n < NextPage(p)) /\ ~pgd[p][n].swapped

\* No frame of RAM is lost.
InFree(f) == \E i \in 1..Len(ram_free) : ram_free[i] = f
InList(f) == \E p \in Proc : \E i \in 1..Len(frm_lst[p]) : frm_lst[p][i] = f
InPage(f) == \E p \in Proc, n \in Page : pgd[p][n].present /\ pgd[p][n].val = f

RamAccounted == \A f \in RamFrame : InFree(f) \/ InList(f) \/ InPage(f)

\* A frame of RAM is left for every allocation that needs one.
FrameLeft == \A p \in Proc : mpc[p] = "alloc" /\ Got(p) < want[p] => ram_free # <<>>

\* The page of q that a frame is for, mapped or not mapped yet.
Home(f, q, n) ==
    \/ pgd[q][n].present /\ pgd[q][n].val = f
    \/ /\ n >= NextPage(q) /\ n - NextPage(q) + 1 \in 1..Len(frm_lst[q])
       /\ frm_lst[q][n - NextPage(q) + 1] = f

\* Each frame that is not free has a page, and the last one that p asks for has
\* no frame yet.
LEMMA HomeExists ==
    ASSUME Shape, InRam, RamAccounted, ram_free = <<>>, NEW p \in Proc, mpc[p] = "alloc", Got(p) < want[p],
           NEW f \in RamFrame
    PROVE  \E q \in Proc, n \in 0..(MaxPages - 1) : Home(f, q, n) /\ <<q, n>> # <<p, npages[p] - 1>>
<1>1. InList(f) \/ InPage(f)
  <2>1. Len(ram_free) = 0 /\ 1..0 = {}
    OBVIOUS
  <2> QED
    BY <2>1 DEF RamAccounted, InFree
<1>2. ASSUME NEW q \in Proc
      PROVE  /\ npages[q] \in Nat /\ want[q] \in Nat /\ MaxPages \in Nat /\ npages[q] <= MaxPages /\ want[q] <= npages[q]
             /\ Len(frm_lst[q]) \in Nat /\ Len(frm_lst[q]) <= want[q] /\ Got(q) = Len(frm_lst[q])
  <2>1. frm_lst[q] \in Seq(RamFrame) /\ frm_lst_swap[q] = <<>> /\ Len(frm_lst_swap[q]) = 0
    BY DEF InRam, Shape, PagingTypeOK
  <2>2. PICK a \in Nat : a = Len(frm_lst[q]) /\ a + 0 = a
    BY <2>1
  <2>3. Got(q) = a /\ Got(q) <= want[q]
    BY <2>1, <2>2 DEF Got, Shape, AllocShape
  <2> QED
    BY <2>2, <2>3, PagingAssumption DEF Shape, PagingTypeOK, AllocShape
<1>3. CASE InPage(f)
  <2>1. PICK q \in Proc, n \in Page : pgd[q][n].present /\ pgd[q][n].val = f
    BY <1>3 DEF InPage
  <2>2. n < NextPage(q) /\ n \in Nat
    BY <2>1, PagingAssumption DEF InRam, Page
  <2>3. PICK k \in Nat, w \in Nat : k = npages[q] /\ w = want[q] /\ w <= k /\ k <= MaxPages
    BY <1>2
  <2>4. n < k - w
    BY <2>2, <2>3 DEF NextPage
  <2>5. n \in 0..(MaxPages - 1)
    BY <2>2, <2>3, <2>4, PagingAssumption
  <2>6. q = p => n # npages[p] - 1
    BY <1>2, <2>2, <2>3, <2>4 DEF Shape, AllocShape
  <2> QED
    BY <2>1, <2>5, <2>6 DEF Home
<1>4. CASE InList(f)
  <2>0. PICK q \in Proc : \E i \in 1..Len(frm_lst[q]) : frm_lst[q][i] = f
    BY <1>4 DEF InList
  <2>1. PICK i \in 1..Len(frm_lst[q]) : frm_lst[q][i] = f
    BY <2>0
  <2>2. PICK k \in Nat, w \in Nat, l \in Nat, M \in Nat :
           /\ k = npages[q] /\ w = want[q] /\ l = Len(frm_lst[q]) /\ M = MaxPages
           /\ w <= k /\ k <= M /\ l <= w /\ i \in 1..l
    BY <1>2, <2>1
  <2>3. PICK n \in Int : n = (k - w) + i - 1
    BY <2>2
  <2>4. n \in 0..(M - 1) /\ n >= k - w /\ n - (k - w) + 1 = i
    <3>1. PICK j \in Nat : j = i /\ 1 <= j /\ j <= l
      BY <2>2
    <3>2. PICK d \in Nat : d = k - w /\ d + w <= M
      BY <2>2
    <3>3. n = d + j - 1
      BY <2>3, <3>1, <3>2
    <3>4. j <= w
      BY <2>2, <3>1
    <3>5. n <= d + w - 1
      BY <3>1, <3>2, <3>3, <3>4
    <3>6. 0 <= n /\ n >= d /\ n - d + 1 = j
      BY <3>1, <3>2, <3>3
    <3>7. n <= M - 1
      BY <3>2, <3>3, <3>5
    <3> QED
      BY <2>3, <3>1, <3>2, <3>6, <3>7
  <2>5. Home(f, q, n)
    BY <2>1, <2>2, <2>4 DEF Home, NextPage
  <2>6. q = p => n # npages[p] - 1
    <3>1. q = p => l < w
      BY <1>2, <2>2
    <3>2. l < w => n # k - 1
      BY <2>2, <2>3
    <3> QED
      BY <2>2, <3>1, <3>2
  <2> QED
    BY <2>2, <2>4, <2>5, <2>6
<1> QED
  BY <1>1, <1>3, <1>4

\* A page has one frame.
LEMMA HomeOnce ==
    ASSUME Shape, InRam, NEW q \in Proc, NEW n \in 0..(MaxPages - 1), NEW f, NEW g, Home(f, q, n), Home(g, q, n)
    PROVE  f = g
<1>1. n \in Page /\ n \in Int
  BY PagingAssumption DEF Page
<1>2. PICK k \in Int : k = NextPage(q)
  BY DEF Shape, PagingTypeOK, NextPage
<1>3. pgd[q][n].present => ~(n >= k)
  BY <1>1, <1>2 DEF InRam
<1> QED
  BY <1>2, <1>3 DEF Home

\* RAM that holds all pages of all processes is never used up.
LEMMA CountFrames ==
    ASSUME IsFiniteSet(Proc), Cardinality(Proc) * MaxPages <= RamFrames, Shape, InRam, RamAccounted
    PROVE  FrameLeft
<1> SUFFICES ASSUME NEW p \in Proc, mpc[p] = "alloc", Got(p) < want[p], ram_free = <<>> PROVE FALSE
  BY DEF FrameLeft
<1> DEFINE last == <<p, npages[p] - 1>>
           all == Proc \X (0..(MaxPages - 1))
           some == all \ {last}
           home == [f \in RamFrame |-> CHOOSE x \in some : Home(f, x[1], x[2])]
<1>1. ASSUME NEW f \in RamFrame PROVE \E x \in some : Home(f, x[1], x[2])
  <2>1. PICK q \in Proc, n \in 0..(MaxPages - 1) : Home(f, q, n) /\ <<q, n>> # <<p, npages[p] - 1>>
    BY HomeExists
  <2>2. <<q, n>> \in some /\ <<q, n>>[1] = q /\ <<q, n>>[2] = n
    BY <2>1
  <2> HIDE DEF some
  <2> QED
    BY <2>1, <2>2
<1>2. \A f \in RamFrame : home[f] \in some /\ Home(f, home[f][1], home[f][2])
  <2> HIDE DEF some
  <2>1. ASSUME NEW f \in RamFrame PROVE home[f] = CHOOSE x \in some : Home(f, x[1], x[2])
    OBVIOUS
  <2> HIDE DEF home
  <2> QED
    BY <1>1, <2>1, Zenon
<1>3. home \in [RamFrame -> some]
  <2> HIDE DEF some
  <2> QED
    BY <1>2
<1>4. ASSUME NEW f \in RamFrame, NEW g \in RamFrame, home[f] = home[g] PROVE f = g
  <2>1. PICK x \in all : x = home[f] /\ x = home[g]
    <3> HIDE DEF home
    <3> QED
      BY <1>2, <1>4
  <2>2. x[1] \in Proc /\ x[2] \in 0..(MaxPages - 1)
    BY <2>1
  <2>3. Home(f, x[1], x[2]) /\ Home(g, x[1], x[2])
    <3> HIDE DEF home
    <3> QED
      BY <1>2, <2>1
  <2> HIDE DEF home
  <2> QED
    BY <2>2, <2>3, HomeOnce
<1>5. home \in Injection(RamFrame, some)
  <2> HIDE DEF home, some
  <2> QED
    BY <1>3, <1>4, Zenon DEF Injection, IsInjective
<1> HIDE DEF home
<1>6. PICK M \in Nat : M = MaxPages /\ M > 0
  BY PagingAssumption
<1>7. IsFiniteSet(0..(M - 1)) /\ Cardinality(0..(M - 1)) = M
  <2>1. M - 1 \in Int /\ ~(0 > M - 1) /\ (M - 1) - 0 + 1 = M
    BY <1>6
  <2> QED
    BY <2>1, FS_Interval
<1>8. IsFiniteSet(all) /\ Cardinality(all) = Cardinality(Proc) * M
  BY <1>6, <1>7, FS_Product
<1>9. last \in all
  <2>1. PICK k \in Nat : k = npages[p] /\ k > 0 /\ k <= M
    <3>1. npages[p] \in 0..MaxPages /\ want[p] \in 0..MaxPages /\ want[p] > 0 /\ want[p] <= npages[p]
      BY DEF Shape, PagingTypeOK, AllocShape
    <3> QED
      BY <1>6, <3>1
  <2>2. k - 1 \in 0..(M - 1)
    BY <1>6, <2>1
  <2> QED
    BY <1>6, <2>1, <2>2
<1> HIDE DEF all, last
<1>10. IsFiniteSet(some) /\ Cardinality(some) = Cardinality(all) - 1
  BY <1>8, <1>9, FS_RemoveElement
<1> HIDE DEF some
<1>11. Cardinality(RamFrame) <= Cardinality(some)
  BY <1>5, <1>10, FS_Injection
<1>12. Cardinality(RamFrame) = RamFrames
  <2>1. PICK R \in Nat : R = RamFrames /\ R > 0
    BY PagingAssumption
  <2>2. R - 1 \in Int /\ ~(0 > R - 1) /\ (R - 1) - 0 + 1 = R
    BY <2>1
  <2> QED
    BY <2>1, <2>2, FS_Interval DEF RamFrame
<1>13. Cardinality(all) \in Nat
  BY <1>8, FS_CardinalityType
<1>14. PICK a \in Nat : a = Cardinality(all) /\ RamFrames <= a - 1 /\ a <= RamFrames
  BY <1>6, <1>8, <1>10, <1>11, <1>12, <1>13
<1> QED
  BY <1>14, PagingAssumption

\* A frame that is moved to the list of a process is not lost, and no other is.
LEMMA TakeKeeps ==
    ASSUME Shape, NEW p \in Proc, GetRamFrame(p), NEW f, InFree(f) \/ InList(f)
    PROVE  InFree(f)' \/ InList(f)'
<1>0. /\ ram_free \in Seq(RamFrame) /\ ram_free # <<>> /\ frm_lst \in [Proc -> Seq(RamFrame)]
      /\ ram_free' = Tail(ram_free)
      /\ frm_lst' = [frm_lst EXCEPT ![p] = <<Head(ram_free)>> \o @]
  BY DEF Shape, PagingTypeOK, GetRamFrame
<1>1. PICK free, lst, k, m :
         /\ free = ram_free /\ lst = frm_lst[p] /\ k = Len(free) /\ m = Len(lst) /\ k \in Nat /\ m \in Nat /\ k > 0
         /\ free \in Seq(RamFrame) /\ lst \in Seq(RamFrame) /\ free # <<>>
  <2>1. Len(ram_free) \in Nat /\ Len(ram_free) > 0
    BY <1>0, TailElements
  <2>2. frm_lst[p] \in Seq(RamFrame) /\ Len(frm_lst[p]) \in Nat
    BY <1>0
  <2> QED
    BY <1>0, <2>1, <2>2, Zenon
<1>2. /\ Len(Tail(free)) = k - 1 /\ \A i \in 1..(k - 1) : Tail(free)[i] = free[i + 1]
      /\ Head(free) = free[1] /\ Head(free) \in RamFrame
  BY <1>1, TailElements
<1>3. PICK x \in RamFrame : x = Head(free) /\ x = free[1]
  BY <1>2
<1>4. /\ Len(<<x>> \o lst) = m + 1 /\ (<<x>> \o lst)[1] = x
      /\ \A i \in 2..(m + 1) : (<<x>> \o lst)[i] = lst[i - 1]
  BY <1>1, ConsElements
<1>5. frm_lst'[p] = <<x>> \o lst /\ \A q \in Proc : q # p => frm_lst'[q] = frm_lst[q]
  BY <1>0, <1>1, <1>3
<1>6. ASSUME NEW i \in 1..Len(ram_free), ram_free[i] = f PROVE InFree(f)' \/ InList(f)'
  <2>1. i \in 1..k /\ free[i] = f
    BY <1>1, <1>6
  <2>2. CASE i = 1
    <3>1. 1 \in 1..(m + 1) /\ frm_lst'[p][1] = f /\ Len(frm_lst'[p]) = m + 1
      BY <1>1, <1>3, <1>4, <1>5, <2>1, <2>2
    <3> QED
      BY <3>1 DEF InList
  <2>3. CASE i # 1
    <3>1. i - 1 \in 1..(k - 1) /\ (i - 1) + 1 = i
      BY <1>1, <2>1, <2>3
    <3>2. ram_free'[i - 1] = f /\ i - 1 \in 1..Len(ram_free')
      BY <1>0, <1>1, <1>2, <2>1, <3>1
    <3> QED
      BY <3>2 DEF InFree
  <2> QED
    BY <2>2, <2>3
<1>7. ASSUME NEW q \in Proc, NEW i \in 1..Len(frm_lst[q]), frm_lst[q][i] = f PROVE InList(f)'
  <2>1. CASE q # p
    BY <1>5, <1>7, <2>1 DEF InList
  <2>2. CASE q = p
    <3>1. i \in 1..m /\ lst[i] = f
      BY <1>1, <1>7, <2>2
    <3>2. i + 1 \in 2..(m + 1) /\ i + 1 \in 1..(m + 1) /\ (i + 1) - 1 = i
      BY <1>1, <3>1
    <3>3. frm_lst'[p][i + 1] = f /\ i + 1 \in 1..Len(frm_lst'[p])
      BY <1>4, <1>5, <3>1, <3>2
    <3> QED
      BY <3>3 DEF InList
  <2> QED
    BY <2>1, <2>2
<1> QED
  BY <1>6, <1>7 DEF InFree, InList

\* A range that is mapped with frames of RAM only.
LEMMA MapInRam ==
    ASSUME Shape, InRam, RamAccounted, NEW p \in Proc, MapRange(p)
    PROVE  InRam' /\ RamAccounted'
<1>1. PICK first \in Nat, inram \in Nat, inswp \in Nat : RangeMapped(p, first, inram, inswp)
  BY MapRangeEntries
<1>2. inswp = 0
  <2>1. frm_lst_swap[p] = <<>> /\ Len(<<>>) = 0
    BY DEF InRam
  <2> QED
    BY <1>1, <2>1 DEF RangeMapped
<1>3. /\ first = NextPage(p) /\ inram = Len(frm_lst[p]) /\ first + inram = npages[p] /\ npages[p] <= MaxPages
      /\ \A q \in Proc, n \in Page : q # p \/ n < first \/ n >= npages[p] => pgd'[q][n] = pgd[q][n]
      /\ \A n \in Page : first <= n /\ n < npages[p] => pgd'[p][n] = SetFpn(frm_lst[p][n - first + 1])
  <2>1. first + inram + 0 = first + inram
    OBVIOUS
  <2> QED
    BY <1>1, <1>2, <2>1 DEF RangeMapped, NextPage
<1>4. \A q \in Proc : npages[q] \in Nat /\ want[q] \in Nat
  BY DEF Shape, PagingTypeOK
<1>5. /\ UNCHANGED <<ram_free, swp_free, npages, stray, wild, undefined>>
      /\ mpc'[p] = "idle" /\ \A q \in Proc : q # p => mpc'[q] = mpc[q]
      /\ want'[p] = 0 /\ \A q \in Proc : q # p => want'[q] = want[q]
      /\ \A q \in Proc : q # p => frm_lst'[q] = frm_lst[q]
      /\ frm_lst_swap'[p] = <<>> /\ \A q \in Proc : q # p => frm_lst_swap'[q] = frm_lst_swap[q]
  BY DEF Shape, PagingTypeOK, MapRange, EmptyLists, memory, Goto
<1>6. NextPage(p)' = npages[p] /\ \A q \in Proc : q # p => NextPage(q)' = NextPage(q)
  BY <1>4, <1>5 DEF NextPage
<1>7. PICK k \in Nat : k = npages[p] /\ first + inram = k
  BY <1>3, <1>4
<1>8. ASSUME NEW q \in Proc, NEW n \in Page
      PROVE  (pgd'[q][n].present <=> n < NextPage(q)') /\ ~pgd'[q][n].swapped
  <2>0. n \in Nat
    BY PagingAssumption DEF Page
  <2>1. CASE q # p
    BY <1>3, <1>6, <2>1 DEF InRam
  <2>2. CASE q = p /\ first <= n /\ n < k
    BY <1>3, <1>6, <1>7, <2>2, PteFields
  <2>3. CASE q = p /\ n < first
    <3>1. n < k
      BY <1>7, <2>0, <2>3
    <3> QED
      BY <1>3, <1>6, <1>7, <2>3, <3>1 DEF InRam
  <2>4. CASE q = p /\ n >= k
    <3>1. ~(n < k) /\ ~(n < first)
      BY <1>7, <2>0, <2>4
    <3> QED
      BY <1>3, <1>6, <1>7, <2>4, <3>1 DEF InRam
  <2> QED
    BY <1>7, <2>0, <2>1, <2>2, <2>3, <2>4
<1>9. InRam'
  <2>1. \A q \in Proc : mpc'[q] \in {"idle", "alloc"} /\ frm_lst_swap'[q] = <<>>
    BY <1>5 DEF InRam
  <2>2. (~stray /\ ~wild /\ ~undefined /\ swp_free # <<>>)'
    BY <1>5 DEF InRam
  <2> QED
    BY <1>8, <2>1, <2>2 DEF InRam
<1>10. ASSUME NEW f \in RamFrame PROVE InFree(f)' \/ InList(f)' \/ InPage(f)'
  <2>1. CASE InFree(f)
    BY <1>5, <2>1 DEF InFree
  <2>2. ASSUME NEW q \in Proc, NEW i \in 1..Len(frm_lst[q]), frm_lst[q][i] = f PROVE InList(f)' \/ InPage(f)'
    <3>1. CASE q # p
      BY <1>5, <2>2, <3>1 DEF InList
    <3>2. CASE q = p
      <4>1. PICK n \in Int : n = first + i - 1
        BY <1>3, <2>2, <3>2
      <4>2. i \in 1..inram
        BY <1>3, <2>2, <3>2
      <4>3. n \in Nat /\ first <= n /\ n < k /\ n - first + 1 = i
        BY <1>7, <4>1, <4>2
      <4>4. n \in Page
        BY <1>3, <1>7, <4>3, PagingAssumption DEF Page
      <4>5. pgd'[p][n] = SetFpn(f)
        BY <1>3, <1>7, <2>2, <3>2, <4>3, <4>4
      <4> QED
        BY <4>4, <4>5, PteFields DEF InPage
    <3> QED
      BY <3>1, <3>2
  <2>3. ASSUME NEW q \in Proc, NEW n \in Page, pgd[q][n].present, pgd[q][n].val = f PROVE InPage(f)'
    <3>1. q # p \/ n < first
      BY <1>3, <2>3 DEF InRam
    <3>2. pgd'[q][n] = pgd[q][n]
      BY <1>3, <3>1
    <3> QED
      BY <2>3, <3>2 DEF InPage
  <2> QED
    BY <2>1, <2>2, <2>3 DEF RamAccounted, InList, InPage
<1> QED
  BY <1>9, <1>10 DEF RamAccounted

\* A step that moves no frame and no page.
LEMMA RamKept ==
    ASSUME InRam, RamAccounted, UNCHANGED <<ram_free, swp_free, pgd, frm_lst, frm_lst_swap, stray, wild, undefined>>,
           \A q \in Proc : mpc'[q] \in {"idle", "alloc"} /\ NextPage(q)' = NextPage(q)
    PROVE  InRam' /\ RamAccounted'
<1>1. InRam'
  BY DEF InRam
<1>2. RamAccounted'
  BY DEF RamAccounted, InFree, InList, InPage
<1> QED
  BY <1>1, <1>2

\* An allocation, with a frame left for each round.
LEMMA AllocInRam ==
    ASSUME Shape, InRam, RamAccounted, FrameLeft, NEW p \in Proc, Alloc(p)
    PROVE  InRam' /\ RamAccounted'
<1>1. ASSUME NEW k \in 1..MaxPages, IncLimit(p, k) PROVE InRam' /\ RamAccounted'
  <2>1. /\ want[p] = 0 /\ npages'[p] = npages[p] + k /\ want'[p] = k /\ mpc'[p] = "alloc"
        /\ \A q \in Proc : q # p => npages'[q] = npages[q] /\ want'[q] = want[q] /\ mpc'[q] = mpc[q]
    BY <1>1 DEF Shape, PagingTypeOK, AllocShape, IncLimit, Goto
  <2>2. \A q \in Proc : npages[q] \in Nat /\ want[q] \in Nat
    BY PagingAssumption DEF Shape, PagingTypeOK
  <2>3. \A q \in Proc : NextPage(q)' = NextPage(q)
    BY <2>1, <2>2, PagingAssumption DEF NextPage
  <2>4. \A q \in Proc : mpc'[q] \in {"idle", "alloc"}
    BY <2>1 DEF InRam
  <2>5. UNCHANGED <<ram_free, swp_free, pgd, frm_lst, frm_lst_swap, stray, wild, undefined>>
    BY <1>1 DEF IncLimit, memory
  <2> QED
    BY <2>3, <2>4, <2>5, RamKept
<1>2. ASSUME GetRamFrame(p) PROVE InRam' /\ RamAccounted'
  <2>1. UNCHANGED <<swp_free, pgd, npages, want, mpc, frm_lst_swap, stray, wild, undefined>>
    BY <1>2 DEF GetRamFrame, tables
  <2>2. InRam'
    BY <2>1 DEF InRam, NextPage
  <2>3. ASSUME NEW f \in RamFrame PROVE InFree(f)' \/ InList(f)' \/ InPage(f)'
    <3>1. CASE InFree(f) \/ InList(f)
      BY <1>2, <3>1, TakeKeeps
    <3>2. CASE InPage(f)
      BY <2>1, <3>2 DEF InPage
    <3> QED
      BY <3>1, <3>2 DEF RamAccounted
  <2> QED
    BY <2>2, <2>3 DEF RamAccounted
<1>3. ASSUME GetSwpFrame(p) \/ OutOfMemory(p) PROVE FALSE
  BY <1>3 DEF GetSwpFrame, OutOfMemory, FrameLeft
<1> QED
  BY <1>1, <1>2, <1>3, MapInRam DEF Alloc

\* An access inside the area of its process finds its page in RAM.
LEMMA AccessInRam ==
    ASSUME Shape, InRam, RamAccounted, NEW p \in Proc, Access(p), InsideArea'
    PROVE  InRam' /\ RamAccounted'
<1>0. mpc[p] \in {"idle", "alloc"} /\ swp_free # <<>>
  BY DEF InRam
<1>1. ASSUME NEW n \in Page, NEW o \in Offset, NEW v \in Value \cup {None}, Hit(p, n, o, v)
      PROVE  InRam' /\ RamAccounted'
  <2>1. PICK e \in Pte : e = pgd[p][n] /\ e.present /\ ~e.swapped /\ e.val \in RamFrame
    BY <1>1 DEF Hit, Shape, PagingTypeOK, PteShape
  <2>2. e = SetFpn(e.val) /\ Fpn(e) = e.val
    <3>1. PICK x \in RamFrame : x = e.val
      BY <2>1
    <3>2. e = [present |-> TRUE, swapped |-> FALSE, val |-> x]
      BY <2>1, <3>1 DEF Pte
    <3>3. x % FpnMod = x
      BY PteFields DEF SetFpn
    <3> QED
      BY <2>1, <3>1, <3>2, <3>3 DEF SetFpn, Fpn
  <2>3. Touch(p, n, o, e.val, v)
    BY <1>1, <2>1, <2>2 DEF Hit
  <2>4. UNCHANGED <<stray, undefined>>
    <3>1. stray \in BOOLEAN /\ undefined \in BOOLEAN /\ ~stray
      BY DEF Shape, PagingTypeOK, InRam
    <3>2. e.val \in RamFrame /\ pgd[p][n] = SetFpn(e.val)
      BY <2>1, <2>2
    <3> QED
      BY <2>3, <3>1, <3>2 DEF Touch
  <2>5. UNCHANGED <<ram_free, swp_free, pgd, npages, want, mpc, frm_lst, frm_lst_swap, wild>>
    BY <1>1 DEF Hit, tables, locals
  <2>6. \A q \in Proc : mpc'[q] \in {"idle", "alloc"} /\ NextPage(q)' = NextPage(q)
    BY <2>5 DEF InRam, NextPage
  <2> QED
    BY <2>4, <2>5, <2>6, RamKept
<1>2. ASSUME NEW n \in Page, NEW o \in Offset, NEW v \in Value \cup {None}, NEW vic \in Page, Miss(p, n, o, v, vic)
      PROVE  FALSE
  <2>1. /\ mpc'[p] = "out" /\ fault'[p].pgn = n /\ npages' = npages
        /\ mpc[p] = "idle" /\ ~pgd[p][n].present
    BY <1>2 DEF Miss, Goto, Shape, PagingTypeOK, tables
  <2>2. n < npages[p]
    BY <2>1 DEF InsideArea
  <2>3. PICK k \in Nat : k = npages[p] /\ want[p] = 0 /\ k - 0 = k
    BY <2>1 DEF Shape, PagingTypeOK, AllocShape
  <2>4. NextPage(p) = npages[p]
    BY <2>3 DEF NextPage
  <2> QED
    BY <2>1, <2>2, <2>4 DEF InRam
<1>3. ASSUME NEW n \in Page, NEW vic \in Page, MissOutside(p, n, vic) PROVE FALSE
  BY <1>0, <1>3 DEF MissOutside
<1>4. ASSUME NEW n \in Page, Drop(p, n) PROVE InRam' /\ RamAccounted'
  <2>1. UNCHANGED <<ram_free, swp_free, pgd, npages, want, mpc, frm_lst, frm_lst_swap, stray, wild, undefined>>
    BY <1>4 DEF Drop, vars, memory, tables, locals
  <2>2. \A q \in Proc : mpc'[q] \in {"idle", "alloc"} /\ NextPage(q)' = NextPage(q)
    BY <2>1 DEF InRam, NextPage
  <2> QED
    BY <2>1, <2>2, RamKept
<1>5. ~SwapOut(p) /\ ~SwapIn(p) /\ ~Finish(p)
  BY <1>0 DEF SwapOut, SwapIn, Finish
<1> QED
  BY <1>1, <1>2, <1>3, <1>4, <1>5 DEF Access

\* All frames of RAM are free at the start.
LEMMA InRamInit == Init => InRam /\ RamAccounted
<1> SUFFICES ASSUME Init PROVE InRam /\ RamAccounted
  OBVIOUS
<1>1. swp_free # <<>>
  <2>1. PICK S \in Nat : S = SwpFrames /\ S > 0
    BY PagingAssumption
  <2>2. PICK s : s = [i \in 1..S |-> i - 1]
    OBVIOUS
  <2>3. Len(s) = S
    BY <2>1, <2>2
  <2>4. Len(<<>>) = 0
    OBVIOUS
  <2>5. s # <<>>
    BY <2>1, <2>3, <2>4
  <2> QED
    BY <2>1, <2>2, <2>5 DEF Init
<1>2. ASSUME NEW p \in Proc, NEW n \in Page
      PROVE  (pgd[p][n].present <=> n < NextPage(p)) /\ ~pgd[p][n].swapped
  <2>1. pgd[p][n] = Blank /\ ~Blank.present /\ ~Blank.swapped
    BY DEF Init, Blank
  <2>2. NextPage(p) = 0
    BY NextPageInit
  <2>3. ~(n < 0)
    BY PagingAssumption DEF Page
  <2> QED
    BY <2>1, <2>2, <2>3
<1>3. ASSUME NEW p \in Proc PROVE mpc[p] \in {"idle", "alloc"} /\ frm_lst_swap[p] = <<>>
  BY DEF Init
<1>4. ~stray /\ ~wild /\ ~undefined
  BY DEF Init
<1>5. ASSUME NEW f \in RamFrame PROVE InFree(f)
  <2>1. PICK R \in Nat : R = RamFrames /\ R > 0
    BY PagingAssumption
  <2>2. f + 1 \in 1..R /\ (f + 1) - 1 = f
    BY <2>1 DEF RamFrame
  <2>3. ram_free = [i \in 1..R |-> i - 1]
    BY <2>1 DEF Init
  <2>4. Len(ram_free) = R /\ ram_free[f + 1] = (f + 1) - 1
    BY <2>1, <2>2, <2>3
  <2> QED
    BY <2>2, <2>4 DEF InFree
<1>6. InRam
  BY <1>1, <1>2, <1>3, <1>4 DEF InRam
<1> QED
  BY <1>5, <1>6 DEF RamAccounted

\* With enough RAM and no fault behind an area, no step uses swap.
LEMMA InRamStep ==
    ASSUME IsFiniteSet(Proc), Cardinality(Proc) * MaxPages <= RamFrames,
           Shape, InRam, RamAccounted, InsideArea', [Next]_vars
    PROVE  InRam' /\ RamAccounted'
<1>1. FrameLeft
  BY CountFrames
<1>2. ~undefined
  BY DEF InRam
<1>3. CASE UNCHANGED vars
  <2>1. UNCHANGED <<ram_free, swp_free, pgd, npages, want, mpc, frm_lst, frm_lst_swap, stray, wild, undefined>>
    BY <1>3 DEF vars, memory, tables, locals
  <2>2. \A q \in Proc : mpc'[q] \in {"idle", "alloc"} /\ NextPage(q)' = NextPage(q)
    BY <2>1 DEF InRam, NextPage
  <2> QED
    BY <2>1, <2>2, RamKept
<1>4. ASSUME NEW p \in Proc, Alloc(p) PROVE InRam' /\ RamAccounted'
  BY <1>1, <1>4, AllocInRam
<1>5. ASSUME NEW p \in Proc, Access(p) PROVE InRam' /\ RamAccounted'
  BY <1>5, AccessInRam
<1> QED
  BY <1>2, <1>3, <1>4, <1>5 DEF Next, Undefined

\* What a simulation with enough RAM promises: no allocation fails for want of a
\* frame, a process that is not allocating has all its pages in RAM, and every
\* byte that it wrote is in the frame of its page, which no other page has; no
\* WRITE goes astray.
RamSuffices ==
    /\ ~stray /\ ~wild /\ ~undefined
    /\ FrameLeft
    /\ \A p \in Proc : mpc[p] = "idle" => \A n \in 0..(npages[p] - 1) : pgd[p][n].present
    /\ RamExclusive
    /\ \A p \in Proc, n \in Page, o \in Offset :
          written[p][n][o] # None =>
              /\ pgd[p][n].present
              /\ ram[pgd[p][n].val][o] = Datum(p, n, written[p][n][o])

\* It follows from the invariants.
LEMMA InRamSuffices ==
    ASSUME IsFiniteSet(Proc), Cardinality(Proc) * MaxPages <= RamFrames, PagingInv, InRam, RamAccounted
    PROVE  RamSuffices
<1>0. Shape /\ RamApart /\ BlankUnwritten /\ DataKept
  BY DEF PagingInv
<1>1. FrameLeft
  BY <1>0, CountFrames
<1>2. ASSUME NEW p \in Proc, mpc[p] = "idle", NEW n \in 0..(npages[p] - 1) PROVE pgd[p][n].present
  <2>1. PICK k \in Nat, M \in Nat : k = npages[p] /\ M = MaxPages /\ k <= M /\ want[p] = 0 /\ k - 0 = k
    BY <1>0, <1>2, PagingAssumption DEF Shape, PagingTypeOK, AllocShape
  <2>2. n \in 0..M /\ n < k
    BY <2>1
  <2>3. n \in Page /\ n < NextPage(p)
    BY <2>1, <2>2 DEF Page, NextPage
  <2> QED
    BY <2>3 DEF InRam
<1>3. ASSUME NEW p \in Proc, NEW n \in Page, NEW o \in Offset, written[p][n][o] # None
      PROVE  pgd[p][n].present /\ ram[pgd[p][n].val][o] = Datum(p, n, written[p][n][o])
  <2>1. pgd[p][n].present
    BY <1>0, <1>3 DEF BlankUnwritten, InRam
  <2>2. Contents(p, n)[o] = Datum(p, n, written[p][n][o])
    BY <1>0, <1>3 DEF DataKept, InRam
  <2> QED
    BY <2>1, <2>2 DEF Contents
<1>4. RamExclusive
  BY <1>0, RamApartExclusive
<1>5. ~stray /\ ~wild /\ ~undefined
  BY DEF InRam
<1> QED
  BY <1>1, <1>2, <1>3, <1>4, <1>5 DEF RamSuffices

\* In a simulation whose RAM has a frame for each page of each process, and
\* whose processes stay inside their areas, memory behaves as if there were no
\* swap device, whatever the order of the allocations and accesses.
THEOREM RamSufficesTheorem ==
    ASSUME IsFiniteSet(Proc), Cardinality(Proc) * MaxPages <= RamFrames
    PROVE  Spec /\ []InsideArea => []RamSuffices
<1> DEFINE Inv == PagingInv /\ InRam /\ RamAccounted
<1>1. Init => Inv
  BY PagingInvInit, InRamInit
<1>2. Inv /\ InsideArea' /\ [Next]_vars => Inv'
  <2> SUFFICES ASSUME PagingInv, InRam, RamAccounted, InsideArea', [Next]_vars PROVE Inv'
    OBVIOUS
  <2>1. PagingInv'
    BY PagingInvStep
  <2>2. Shape
    BY DEF PagingInv
  <2>3. InRam' /\ RamAccounted'
    BY <2>2, InRamStep
  <2> QED
    BY <2>1, <2>3
<1>3. Inv => RamSuffices
  BY InRamSuffices
<1> HIDE DEF Inv
<1> QED
  BY <1>1, <1>2, <1>3, PTL DEF Spec

=============================================================================
