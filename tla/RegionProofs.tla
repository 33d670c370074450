----------------------------- MODULE RegionProofs -----------------------------
(***************************************************************************)
(* Proofs about module Region, for every symbol table, every set of sizes, *)
(* every page size and every number of frames.  What an instruction does   *)
(* to the bytes of the area is in ProofFacts.                              *)
(***************************************************************************)
EXTENDS Region, ProofFacts

-----------------------------------------------------------------------------
(* The inductive invariant *)

\* While a frame is free every page of the area has one.
AllMapped == frames > 0 => \A n \in 0..(vm_end \div PAGING_PAGESZ - 1) : n \in mapped

RegionInv ==
    /\ RegionTypeOK
    /\ AreaShape(Rgid, symrgtbl, vm_freerg_list, sbrk)
    /\ EndOfPage /\ AllMapped
    /\ ~dangling => AreaInv(Rgid, symrgtbl, vm_freerg_list, lost, sbrk)

-----------------------------------------------------------------------------
(* Steps *)

\* Regions below the break are below the bound on the break.
LEMMA ShapeType ==
    ASSUME NEW sym, NEW list, NEW brk, AreaShape(Rgid, sym, list, brk), brk <= MaxBreak
    PROVE  sym \in [Rgid -> Region] /\ list \in Seq(Region)
<1>1. MaxBreak \in Nat /\ brk \in Nat /\ list \in Seq(NatRegion)
  BY RegionAssumption, ShapeFacts
<1>2. ASSUME NEW x \in NatRegion, x.rg_start <= x.rg_end, x.rg_end <= brk PROVE x \in Region
  <2>1. PICK a \in Nat, b \in Nat : x = [rg_start |-> a, rg_end |-> b]
    BY DEF NatRegion
  <2>2. a \in 0..MaxBreak /\ b \in 0..MaxBreak
    BY <1>1, <1>2, <2>1
  <2> QED
    BY <2>1, <2>2 DEF Region
<1>3. \A r \in Rgid : sym[r] \in Region
  BY <1>2, ShapeFacts
<1>4. \A i \in 1..Len(list) : list[i] \in Region
  <2>1. ASSUME NEW i \in 1..Len(list) PROVE list[i].rg_start <= list[i].rg_end
    <3>1. /\ list[i].rg_start \in Nat /\ list[i].rg_end \in Nat
          /\ list[i].rg_start < list[i].rg_end
      BY ShapeFacts
    <3> QED
      BY <3>1
  <2> QED
    BY <1>2, <2>1, ShapeFacts
<1> QED
  BY <1>1, <1>3, <1>4, ShapeFacts

\* What the instructions have in common: the area, and the pages below it.
LEMMA RegionInvKept ==
    ASSUME RegionInv, ~dangling,
           AreaInv(Rgid, symrgtbl, vm_freerg_list, lost, sbrk)', sbrk' <= MaxBreak,
           vm_end' \in Nat, mapped' \subseteq Nat, frames' \in 0..Frames, EndOfPage', AllMapped',
           UNCHANGED dangling
    PROVE  RegionInv'
<1>1. AreaShape(Rgid, symrgtbl', vm_freerg_list', sbrk') /\ lost' \subseteq 0..(sbrk' - 1)
  BY DEF AreaInv, AreaApart
<1>2. sbrk' \in Nat
  BY <1>1, ShapeFacts
<1>3. symrgtbl' \in [Rgid -> Region] /\ vm_freerg_list' \in Seq(Region)
  BY <1>1, ShapeType
<1>4. sbrk' \in 0..MaxBreak /\ 0..(sbrk' - 1) \subseteq 0..MaxBreak
  <2>1. PICK b \in Nat : b = sbrk' /\ b <= MaxBreak
    BY <1>2
  <2>2. b \in Nat /\ MaxBreak \in Nat /\ b <= MaxBreak
    BY <2>1, RegionAssumption
  <2>3. b \in 0..MaxBreak /\ 0..(b - 1) \subseteq 0..MaxBreak
    BY <2>2
  <2> QED
    BY <2>1, <2>3
<1>5. RegionTypeOK'
  BY <1>1, <1>3, <1>4 DEF RegionInv, RegionTypeOK
<1> QED
  BY <1>1, <1>5 DEF RegionInv

\* An instruction that leaves the break alone leaves the pages.
LEMMA PagesKept ==
    ASSUME RegionInv, UNCHANGED <<sbrk, vm_end, mapped, frames>>
    PROVE  /\ sbrk' <= MaxBreak /\ vm_end' \in Nat /\ mapped' \subseteq Nat /\ frames' \in 0..Frames
           /\ EndOfPage' /\ AllMapped'
<1>1. sbrk <= MaxBreak
  BY RegionAssumption DEF RegionInv, RegionTypeOK
<1> QED
  BY <1>1 DEF RegionInv, RegionTypeOK, EndOfPage, Align, AllMapped

\* __alloc() in a free region keeps the invariant.
LEMMA AllocFreeStep ==
    ASSUME RegionInv, NEW r \in Rgid, NEW size \in Size, AllocFree(r, size)
    PROVE  RegionInv'
<1> DEFINE i == First(Fits(vm_freerg_list, size))
           a == vm_freerg_list[i].rg_start
<1>1. /\ ~dangling /\ Fits(vm_freerg_list, size) # {}
      /\ symrgtbl' = [symrgtbl EXCEPT ![r] = [rg_start |-> a, rg_end |-> a + size]]
      /\ vm_freerg_list' = Taken(vm_freerg_list, i, size)
      /\ lost' = lost \cup Bytes(symrgtbl[r])
      /\ UNCHANGED <<sbrk, vm_end, mapped, frames, dangling>>
  BY DEF AllocFree, SetRegion
<1>2. AreaInv(Rgid, symrgtbl, vm_freerg_list, lost, sbrk) /\ size \in Nat \ {0}
  BY <1>1, RegionAssumption DEF RegionInv
<1>3. AreaInv(Rgid, symrgtbl', vm_freerg_list', lost', sbrk)
  BY <1>1, <1>2, AreaTaken
<1> QED
  BY <1>1, <1>3, PagesKept, RegionInvKept

\* The number of pages that PAGING_PAGE_ALIGNSZ rounds up to.
LEMMA AlignPages ==
    ASSUME NEW n \in Nat
    PROVE  /\ UpTo(n, PAGING_PAGESZ) \in Nat
           /\ Align(n) = UpTo(n, PAGING_PAGESZ) * PAGING_PAGESZ
           /\ Align(n) \in Nat /\ n <= Align(n)
           /\ Align(n) \div PAGING_PAGESZ = UpTo(n, PAGING_PAGESZ)
  BY UpToBounds, DivMultiple, RegionAssumption DEF Align, UpTo

\* An allocation at the break keeps vm_end at the end of a page, whether or not
\* it needs new pages, and maps them all while there are frames.
LEMMA BreakPages ==
    ASSUME RegionInv, NEW r \in Rgid, NEW size \in Size, AllocBreak(r, size)
    PROVE  /\ sbrk' = sbrk + size /\ sbrk' \in Nat /\ sbrk' <= MaxBreak
           /\ vm_end' \in Nat /\ mapped' \subseteq Nat /\ frames' \in 0..Frames
           /\ EndOfPage' /\ AllMapped'
<1> DEFINE P == PAGING_PAGESZ
<1>0. /\ sbrk \in Nat /\ size \in Nat /\ size > 0 /\ P \in Nat \ {0} /\ Frames \in Nat
      /\ sbrk + size <= MaxBreak
      /\ mapped \subseteq Nat /\ frames \in Nat /\ frames <= Frames
  BY RegionAssumption DEF RegionInv, RegionTypeOK, AllocBreak
<1>1. PICK k \in Nat : k = UpTo(sbrk, P) /\ Align(sbrk) = k * P /\ (k * P) \div P = k /\ k * P \in Nat
  BY <1>0, AlignPages
<1>2. PICK l \in Nat : l = UpTo(sbrk + size, P) /\ Align(sbrk + size) = l * P /\ (l * P) \div P = l /\ l * P \in Nat
  <2>1. sbrk + size \in Nat
    BY <1>0
  <2> QED
    BY <2>1, AlignPages
<1>3. k <= l
  <2>1. sbrk + size \in Nat /\ sbrk <= sbrk + size
    BY <1>0
  <2> QED
    BY <1>0, <1>1, <1>2, <2>1, UpToMonotone
<1>4. vm_end = k * P /\ \A n \in mapped : n < k
  BY <1>1 DEF RegionInv, EndOfPage
<1>5. frames > 0 => \A n \in 0..(k - 1) : n \in mapped
  BY <1>1, <1>4 DEF RegionInv, AllMapped
<1>6. sbrk' = sbrk + size /\ sbrk' \in Nat /\ sbrk' <= MaxBreak
  BY <1>0 DEF AllocBreak, IncVmaLimit
<1>7. ASSUME vm_end' = l * P, mapped' \subseteq Nat, \A n \in mapped' : n < l,
             frames' > 0 => \A n \in 0..(l - 1) : n \in mapped'
      PROVE  vm_end' \in Nat /\ EndOfPage' /\ AllMapped'
  <2>1. vm_end' \in Nat /\ vm_end' \div P = l
    BY <1>2, <1>7
  <2>2. Align(sbrk)' = l * P
    BY <1>2, <1>6 DEF Align
  <2> QED
    BY <1>7, <2>1, <2>2 DEF EndOfPage, AllMapped
<1>8. CASE IncVmaLimit(size)
  <2>1. size + sbrk = sbrk + size
    BY <1>0
  <2>2. Align(size + sbrk) - Align(sbrk) = (l - k) * P /\ l - k \in Nat
    <3>1. (l - k) * P = l * P - k * P
      BY <1>0, TimesSum
    <3> QED
      BY <1>1, <1>2, <1>3, <2>1, <3>1
  <2>3. ((l - k) * P) \div P = l - k
    BY <1>0, <2>2, DivMultiple
  <2>4. vm_end' = k * P + (l - k) * P /\ MapPages(k, l - k)
    BY <1>1, <1>4, <1>8, <2>2, <2>3 DEF IncVmaLimit
  <2>5. vm_end' = l * P
    <3>1. (l - k) * P = l * P - k * P
      BY <1>0, TimesSum
    <3> QED
      BY <1>1, <1>2, <2>4, <3>1
  <2>6. CASE l - k <= frames
    <3>1. mapped' = mapped \cup k..(k + (l - k) - 1) /\ frames' = frames - (l - k)
      BY <2>4, <2>6 DEF MapPages
    <3>2. k + (l - k) - 1 = l - 1
      OBVIOUS
    <3>3. mapped' = mapped \cup k..(l - 1)
      BY <3>1, <3>2
    <3>4. k..(l - 1) \subseteq Nat /\ \A n \in k..(l - 1) : n < l
      OBVIOUS
    <3>5. mapped' \subseteq Nat /\ \A n \in mapped' : n < l
      <4>1. \A n \in mapped : n \in Nat /\ n < k
        BY <1>0, <1>4
      <4>2. \A n \in mapped : n \in Nat /\ n < l
        BY <1>3, <4>1
      <4> QED
        BY <3>3, <3>4, <4>2
    <3>6. frames' \in Nat /\ frames' <= frames
      BY <1>0, <1>3, <2>6, <3>1
    <3>7. ASSUME frames' > 0, NEW n \in 0..(l - 1) PROVE n \in mapped'
      <4>1. frames > 0
        BY <1>0, <3>6, <3>7
      <4>2. n \in 0..(k - 1) \/ n \in k..(l - 1)
        BY <1>3
      <4> QED
        BY <1>5, <3>3, <4>1, <4>2
    <3>8. frames' \in 0..Frames
      BY <1>0, <3>6
    <3> QED
      BY <1>6, <1>7, <2>5, <3>5, <3>7, <3>8
  <2>7. CASE ~(l - k <= frames)
    <3>1. frames' = 0 /\ mapped' = mapped
      BY <2>4, <2>7 DEF MapPages
    <3>2. \A n \in mapped' : n < l
      <4>1. \A n \in mapped : n \in Nat /\ n < k
        BY <1>0, <1>4
      <4>2. \A n \in mapped : n < l
        BY <1>3, <4>1
      <4> QED
        BY <3>1, <4>2
    <3>3. frames' \in 0..Frames /\ ~(frames' > 0)
      BY <1>0, <3>1
    <3> QED
      BY <1>0, <1>6, <1>7, <2>5, <3>1, <3>2, <3>3
  <2> QED
    BY <2>6, <2>7
<1>9. CASE /\ ~(size + sbrk > Align(sbrk) \/ sbrk = vm_end)
           /\ UNCHANGED <<vm_end, mapped, frames>>
  <2>1. sbrk + size \in Nat /\ sbrk <= sbrk + size /\ sbrk + size <= k * P
    BY <1>0, <1>1, <1>9
  <2>2. l = k
    BY <1>0, <1>1, <1>2, <2>1, UpToInside
  <2>3. frames' \in 0..Frames
    BY <1>0, <1>9
  <2> QED
    BY <1>0, <1>4, <1>5, <1>6, <1>7, <1>9, <2>2, <2>3
<1> QED
  BY <1>8, <1>9 DEF AllocBreak

\* __alloc() at the break keeps it.
LEMMA AllocBreakStep ==
    ASSUME RegionInv, NEW r \in Rgid, NEW size \in Size, AllocBreak(r, size)
    PROVE  RegionInv'
<1>1. /\ ~dangling
      /\ symrgtbl' = [symrgtbl EXCEPT ![r] = [rg_start |-> sbrk, rg_end |-> sbrk + size]]
      /\ lost' = lost \cup Bytes(symrgtbl[r])
      /\ UNCHANGED <<vm_freerg_list, dangling>>
  BY DEF AllocBreak, SetRegion
<1>2. /\ sbrk' = sbrk + size /\ sbrk' \in Nat /\ sbrk' <= MaxBreak
      /\ vm_end' \in Nat /\ mapped' \subseteq Nat /\ frames' \in 0..Frames
      /\ EndOfPage' /\ AllMapped'
  BY BreakPages
<1>3. AreaInv(Rgid, symrgtbl, vm_freerg_list, lost, sbrk) /\ sbrk < sbrk'
  <2>1. sbrk \in Nat /\ size \in Nat \ {0}
    BY RegionAssumption DEF RegionInv, RegionTypeOK
  <2> QED
    BY <1>1, <1>2, <2>1 DEF RegionInv
<1>4. AreaInv(Rgid, symrgtbl', vm_freerg_list, lost', sbrk')
  BY <1>1, <1>2, <1>3, AreaGrown
<1> QED
  BY <1>1, <1>2, <1>4, RegionInvKept

\* __free() keeps it, or leaves a freed node in the list.
LEMMA FreeStep ==
    ASSUME RegionInv, NEW r \in Rgid, Free(r)
    PROVE  RegionInv'
<1>1. /\ ~dangling /\ AreaInv(Rgid, symrgtbl, vm_freerg_list, lost, sbrk)
      /\ symrgtbl' = [symrgtbl EXCEPT ![r] = NoRegion]
      /\ UNCHANGED <<sbrk, vm_end, mapped, frames, lost>>
  BY DEF RegionInv, Free
<1>2. CASE vm_freerg_list' = Enlisted(vm_freerg_list, symrgtbl[r]) /\ UNCHANGED dangling
  <2>1. AreaInv(Rgid, symrgtbl', vm_freerg_list', lost, sbrk)
    BY <1>1, <1>2, AreaFreed
  <2> QED
    BY <1>1, <1>2, <2>1, PagesKept, RegionInvKept
<1>3. CASE dangling' = TRUE /\ UNCHANGED vm_freerg_list
  <2>1. AreaShape(Rgid, symrgtbl, vm_freerg_list, sbrk) /\ UsedApart(Rgid, symrgtbl)
    BY <1>1 DEF AreaInv, AreaApart
  <2>2. AreaShape(Rgid, symrgtbl', vm_freerg_list, sbrk)
    BY <1>1, <2>1, AreaCleared
  <2>3. EndOfPage' /\ AllMapped' /\ sbrk <= MaxBreak
    BY <1>1, PagesKept
  <2>4. RegionTypeOK'
    BY <1>1, <1>3, <2>2, <2>3, ShapeType DEF RegionInv, RegionTypeOK
  <2> QED
    BY <1>1, <1>3, <2>2, <2>3, <2>4 DEF RegionInv
<1> QED
  BY <1>2, <1>3 DEF Free

\* A frame that another process takes.
LEMMA OtherProcessStep ==
    ASSUME RegionInv, OtherProcess
    PROVE  RegionInv'
<1>1. /\ frames \in Nat /\ frames <= Frames /\ frames' = frames - 1 /\ frames > 0
      /\ UNCHANGED <<symrgtbl, vm_freerg_list, sbrk, vm_end, mapped, dangling, lost>>
  BY RegionAssumption DEF RegionInv, RegionTypeOK, OtherProcess
<1>2. frames' \in 0..Frames
  BY <1>1, RegionAssumption
<1> QED
  BY <1>1, <1>2 DEF RegionInv, RegionTypeOK, EndOfPage, Align, AllMapped

\* The area of a new process.
LEMMA RegionInvInit == Init => RegionInv
<1> SUFFICES ASSUME Init PROVE RegionInv
  OBVIOUS
<1>1. /\ sbrk = 0 /\ vm_end = 0 /\ mapped = {} /\ frames = Frames /\ dangling = FALSE /\ lost = {}
      /\ vm_freerg_list = <<>> /\ symrgtbl = [r \in Rgid |-> NoRegion]
  BY DEF Init
<1>2. AreaInv(Rgid, symrgtbl, vm_freerg_list, lost, sbrk)
  BY <1>1, AreaNew
<1>3. AreaShape(Rgid, symrgtbl, vm_freerg_list, sbrk) /\ sbrk <= MaxBreak
  BY <1>1, <1>2, RegionAssumption DEF AreaInv
<1>4. RegionTypeOK
  <2>1. symrgtbl \in [Rgid -> Region] /\ vm_freerg_list \in Seq(Region)
    BY <1>3, ShapeType
  <2>2. sbrk \in 0..MaxBreak /\ vm_end \in Nat /\ frames \in 0..Frames
    BY <1>1, RegionAssumption
  <2>3. mapped \subseteq Nat /\ lost \subseteq 0..MaxBreak /\ dangling \in BOOLEAN
    BY <1>1
  <2> QED
    BY <2>1, <2>2, <2>3 DEF RegionTypeOK
<1>5. Align(0) = 0 /\ 0 \div PAGING_PAGESZ = 0
  <2>1. UpTo(0, PAGING_PAGESZ) = 0
    BY UpToZero, RegionAssumption
  <2>2. Align(0) = 0 * PAGING_PAGESZ /\ (0 * PAGING_PAGESZ) \div PAGING_PAGESZ = 0
    BY <2>1, AlignPages
  <2>3. 0 * PAGING_PAGESZ = 0
    BY RegionAssumption
  <2> QED
    BY <2>2, <2>3
<1>6. EndOfPage /\ AllMapped
  BY <1>1, <1>5 DEF EndOfPage, AllMapped
<1> QED
  BY <1>2, <1>3, <1>4, <1>6 DEF RegionInv

\* Every instruction keeps the invariant.
LEMMA RegionInvStep == RegionInv /\ [Next]_vars => RegionInv'
<1> SUFFICES ASSUME RegionInv, [Next]_vars PROVE RegionInv'
  OBVIOUS
<1>1. CASE UNCHANGED vars
  BY <1>1 DEF vars, RegionInv, RegionTypeOK, EndOfPage, Align, AllMapped
<1> QED
  BY <1>1, AllocFreeStep, AllocBreakStep, FreeStep, OtherProcessStep DEF Next, Undefined

\* RegionInv holds in every state that is reached.
THEOREM RegionInvariant == Spec => []RegionInv
  BY RegionInvInit, RegionInvStep, PTL DEF Spec

-----------------------------------------------------------------------------
(* What the runs check *)

\* The pieces are different sets of bytes and together all below the break.
LEMMA ApartPartition == RegionInv => Partition
<1> SUFFICES ASSUME RegionInv, ~dangling PROVE Partition
  BY DEF Partition
<1> DEFINE L == vm_freerg_list
<1>0. /\ AreaShape(Rgid, symrgtbl, L, sbrk)
      /\ AreaApart(Rgid, symrgtbl, L, lost, sbrk)
  BY DEF RegionInv, AreaInv
<1>1. ASSUME NEW x \in Pieces
      PROVE  \/ \E r \in Rgid : x = <<"used", r, Bytes(symrgtbl[r])>>
             \/ \E i \in 1..Len(L) : x = <<"free", i, Bytes(L[i])>>
             \/ x = <<"lost", 0, lost>>
  BY DEF Pieces
<1>2. ASSUME NEW x \in Pieces, NEW y \in Pieces, x # y PROVE x[3] \cap y[3] = {}
  <2>1. CASE \E r \in Rgid : x = <<"used", r, Bytes(symrgtbl[r])>>
    <3>1. PICK r \in Rgid : x = <<"used", r, Bytes(symrgtbl[r])>>
      BY <2>1
    <3>2. CASE \E s \in Rgid : y = <<"used", s, Bytes(symrgtbl[s])>>
      BY <1>0, <1>2, <3>1, <3>2 DEF AreaApart, UsedApart
    <3>3. CASE \E i \in 1..Len(L) : y = <<"free", i, Bytes(L[i])>>
      BY <1>0, <3>1, <3>3 DEF AreaApart, UsedNotFree
    <3>4. CASE y = <<"lost", 0, lost>>
      BY <1>0, <3>1, <3>4 DEF AreaApart, UsedNotLost
    <3> QED
      BY <1>1, <3>2, <3>3, <3>4
  <2>2. CASE \E i \in 1..Len(L) : x = <<"free", i, Bytes(L[i])>>
    <3>1. PICK i \in 1..Len(L) : x = <<"free", i, Bytes(L[i])>>
      BY <2>2
    <3>2. CASE \E s \in Rgid : y = <<"used", s, Bytes(symrgtbl[s])>>
      BY <1>0, <3>1, <3>2 DEF AreaApart, UsedNotFree
    <3>3. CASE \E j \in 1..Len(L) : y = <<"free", j, Bytes(L[j])>>
      <4>1. PICK j \in 1..Len(L) : y = <<"free", j, Bytes(L[j])>>
        BY <3>3
      <4>2. i # j
        BY <1>2, <3>1, <4>1
      <4>3. Bytes(L[i]) \cap Bytes(L[j]) = {}
        BY <1>0, <4>2 DEF AreaApart, FreeApart
      <4> QED
        BY <3>1, <4>1, <4>3
    <3>4. CASE y = <<"lost", 0, lost>>
      BY <1>0, <3>1, <3>4 DEF AreaApart, FreeNotLost
    <3> QED
      BY <1>1, <3>2, <3>3, <3>4
  <2>3. CASE x = <<"lost", 0, lost>>
    <3>1. CASE \E s \in Rgid : y = <<"used", s, Bytes(symrgtbl[s])>>
      BY <1>0, <2>3, <3>1 DEF AreaApart, UsedNotLost
    <3>2. CASE \E i \in 1..Len(L) : y = <<"free", i, Bytes(L[i])>>
      BY <1>0, <2>3, <3>2 DEF AreaApart, FreeNotLost
    <3>3. y # <<"lost", 0, lost>>
      BY <1>2, <2>3
    <3> QED
      BY <1>1, <3>1, <3>2, <3>3
  <2> QED
    BY <1>1, <2>1, <2>2, <2>3
<1>3. ASSUME NEW x \in Pieces PROVE x[3] \subseteq 0..(sbrk - 1)
  <2>1. CASE \E r \in Rgid : x = <<"used", r, Bytes(symrgtbl[r])>>
    BY <1>0, <2>1, ShapeFacts
  <2>2. CASE \E i \in 1..Len(L) : x = <<"free", i, Bytes(L[i])>>
    BY <1>0, <2>2, ShapeFacts
  <2>3. CASE x = <<"lost", 0, lost>>
    BY <1>0, <2>3 DEF AreaApart
  <2> QED
    BY <1>1, <2>1, <2>2, <2>3
<1>4. ASSUME NEW b \in 0..(sbrk - 1) PROVE \E x \in Pieces : b \in x[3]
  <2>1. CASE InUse(Rgid, symrgtbl, b)
    <3>1. PICK r \in Rgid : b \in Bytes(symrgtbl[r])
      BY <2>1 DEF InUse
    <3>2. <<"used", r, Bytes(symrgtbl[r])>> \in Pieces
      BY DEF Pieces
    <3> QED
      BY <3>1, <3>2
  <2>2. CASE IsFree(L, b)
    <3>1. PICK i \in 1..Len(L) : b \in Bytes(L[i])
      BY <2>2 DEF IsFree
    <3>2. <<"free", i, Bytes(L[i])>> \in Pieces
      BY DEF Pieces
    <3> QED
      BY <3>1, <3>2
  <2>3. CASE b \in lost
    <3>1. <<"lost", 0, lost>> \in Pieces
      BY DEF Pieces
    <3> QED
      BY <2>3, <3>1
  <2> QED
    BY <1>0, <2>1, <2>2, <2>3 DEF AreaApart, Covered
<1>5. UNION {piece[3] : piece \in Pieces} = 0..(sbrk - 1)
  <2> DEFINE U == {piece[3] : piece \in Pieces}
  <2>1. \A S \in U : S \subseteq 0..(sbrk - 1)
    BY <1>3
  <2>2. \A b \in 0..(sbrk - 1) : \E S \in U : b \in S
    BY <1>4
  <2> HIDE DEF U
  <2>3. UNION U = 0..(sbrk - 1)
    BY <2>1, <2>2
  <2> QED
    BY <2>3 DEF U
<1> QED
  BY <1>2, <1>5 DEF Partition

\* A byte of a region is below the break, and the page of a byte below the
\* break is a page of the area.
LEMMA AllPagesMapped == RegionInv => MappedUnlessOutOfFrames
<1> SUFFICES ASSUME RegionInv, frames > 0, NEW r \in Rgid, NEW b \in Bytes(symrgtbl[r])
             PROVE  b \div PAGING_PAGESZ \in mapped
  BY DEF MappedUnlessOutOfFrames, RegionMapped
<1>1. sbrk \in Nat /\ b \in Nat /\ b < sbrk
  <2>1. sbrk \in Nat /\ b \in 0..(sbrk - 1)
    BY ShapeFacts DEF RegionInv
  <2> QED
    BY <2>1
<1>2. vm_end = Align(sbrk)
  BY DEF RegionInv, EndOfPage
<1>3. b \div PAGING_PAGESZ \in 0..(UpTo(sbrk, PAGING_PAGESZ) - 1)
  BY <1>1, UpToPage, RegionAssumption
<1>4. vm_end \div PAGING_PAGESZ = UpTo(sbrk, PAGING_PAGESZ)
  BY <1>1, <1>2, AlignPages
<1> QED
  BY <1>3, <1>4 DEF RegionInv, AllMapped

\* Regions and free regions lie between 0 and the bound of the model, and the
\* counts of frames never go below 0.
THEOREM RegionTypeCorrect == Spec => []RegionTypeOK
<1>1. RegionInv => RegionTypeOK
  BY DEF RegionInv
<1> QED
  BY <1>1, RegionInvariant, PTL

\* Every byte below the break is in exactly one region in use, free region or
\* lost region: ALLOC and FREE, in any order, never hand out a byte twice and
\* never lose one.
THEOREM BytesPartitioned == Spec => []Partition
  BY ApartPartition, RegionInvariant, PTL

\* enlist_vm_freerg_list() leaves no two free regions that touch.
THEOREM FreeRegionsCoalesced == Spec => []Coalesced
<1>1. RegionInv => Coalesced
  BY DEF RegionInv, AreaInv, NoneTouch, Coalesced
<1> QED
  BY <1>1, RegionInvariant, PTL

\* vm_end is the end of the page of the break after every ALLOC.
THEOREM AreaEndsAtPage == Spec => []EndOfPage
<1>1. RegionInv => EndOfPage
  BY DEF RegionInv
<1> QED
  BY <1>1, RegionInvariant, PTL

\* While frames are free, every page of a region that __alloc() handed out has
\* been mapped by vm_map_ram().
THEOREM RegionsMapped == Spec => []MappedUnlessOutOfFrames
  BY AllPagesMapped, RegionInvariant, PTL

=============================================================================
