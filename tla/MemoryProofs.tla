----------------------------- MODULE MemoryProofs -----------------------------
(***************************************************************************)
(* Proofs about module Memory, for every set of processes, indices, sizes  *)
(* and offsets and every size of the devices: its steps are steps of       *)
(* Paging and of Region, and what a process writes through an index it     *)
(* reads back through it.                                                  *)
(***************************************************************************)
EXTENDS Memory, PagingProofs

-----------------------------------------------------------------------------
(* The inductive invariant *)

MemType ==
    /\ symrgtbl \in [Proc -> [Rgid -> NatRegion]]
    /\ vm_freerg_list \in [Proc -> Seq(NatRegion)]
    /\ sbrk \in [Proc -> Nat]
    /\ req \in [Proc -> [rgid : Rgid \cup {None}, arg : Nat]]
    /\ dangling \in [Proc -> BOOLEAN]
    /\ mapped \in [Proc -> SUBSET Nat]
    /\ lost \in [Proc -> SUBSET Nat]
    /\ wrote \in [Proc -> [Rgid -> SUBSET Nat]]
    /\ beyond \in BOOLEAN

\* The break before the allocation of p that is under way.
Break(p) == IF Pending(p) THEN sbrk[p] - req[p].arg ELSE sbrk[p]

\* What inc_vma_limit() leaves: vm_end is the end of the page of the break.
\* During an allocation that is so for the break before it too, and what
\* pgalloc() tested before it still holds.
BreakShape(p) ==
    /\ npages[p] = Pages(sbrk[p])
    /\ Pending(p) =>
          /\ req[p].rgid \in Rgid /\ req[p].arg \in Size /\ req[p].arg <= sbrk[p]
          /\ npages[p] - want[p] = Pages(Break(p))
          /\ \/ sbrk[p] > Pages(Break(p)) * PAGING_PAGESZ
             \/ Break(p) = Pages(Break(p)) * PAGING_PAGESZ
          /\ ~dangling[p] /\ Fits(vm_freerg_list[p], req[p].arg) = {}

\* The area of p up to that break.
AreaKept(p) ==
    /\ AreaShape(Rgid, symrgtbl[p], vm_freerg_list[p], Break(p))
    /\ UsedApart(Rgid, symrgtbl[p])
    /\ ~dangling[p] => AreaInv(Rgid, symrgtbl[p], vm_freerg_list[p], lost[p], Break(p))

\* A page fault is for the page and the byte of the access that caused it.
FaultOfAccess(p) ==
    mpc[p] \in {"out", "in", "access"} =>
        /\ req[p].rgid \in Rgid
        /\ Passes(p, req[p].rgid, req[p].arg)
        /\ fault[p].pgn = PAGING_PGN(Address(p, req[p].rgid, req[p].arg))
        /\ fault[p].off = PAGING_OFFST(Address(p, req[p].rgid, req[p].arg))
        /\ fault[p].data \in {None, req[p].rgid}

\* The byte of a page that a WRITE through r reached was reached through no other
\* index since, unless it is the first byte of the region and some WRITE went
\* behind its own.
WrittenThrough(p) ==
    \A r \in Rgid : \A off \in wrote[p][r] :
        /\ off < RegionSize(p, r)
        /\ (off = 0 => ~beyond) =>
              written[p][PAGING_PGN(Address(p, r, off))][PAGING_OFFST(Address(p, r, off))] = r

\* An index without a region is at address 0: no ALLOC is of size 0.
EmptyAtZero(p) == \A r \in Rgid : RegionSize(p, r) = 0 => symrgtbl[p][r].rg_start = 0

ProcInv(p) ==
    /\ BreakShape(p) /\ AreaKept(p) /\ FaultOfAccess(p)
    /\ WrittenThrough(p) /\ EmptyAtZero(p)

MemInv == PagingInv /\ MemType /\ \A p \in Proc : ProcInv(p)

\* What ProcInv says about p.
Slots(p) ==
    <<symrgtbl[p], vm_freerg_list[p], sbrk[p], req[p], dangling[p], lost[p], wrote[p],
      mpc[p], npages[p], want[p], fault[p], written[p]>>

\* A process whose own tables do not change keeps its invariant.
LEMMA SlotsKept ==
    ASSUME NEW p \in Proc, ProcInv(p), UNCHANGED Slots(p), beyond => beyond'
    PROVE  ProcInv(p)'
<1>1. /\ BreakShape(p) => BreakShape(p)'
      /\ AreaKept(p) => AreaKept(p)'
  BY DEF Slots, BreakShape, AreaKept, Break, Pending
<1>2. FaultOfAccess(p) => FaultOfAccess(p)'
  BY DEF Slots, FaultOfAccess, Passes, RegionSize, Address, PAGING_PGN, PAGING_OFFST
<1>3. WrittenThrough(p)'
  <2>1. symrgtbl'[p] = symrgtbl[p] /\ wrote'[p] = wrote[p] /\ written'[p] = written[p]
    BY DEF Slots
  <2> SUFFICES ASSUME NEW r \in Rgid, NEW off \in wrote'[p][r]
               PROVE  /\ off < RegionSize(p, r)'
                      /\ (off = 0 => ~beyond') =>
                            written'[p][PAGING_PGN((symrgtbl'[p][r]).rg_start + off)]
                                       [PAGING_OFFST((symrgtbl'[p][r]).rg_start + off)] = r
    BY DEF WrittenThrough, Address, RegionSize, PAGING_PGN, PAGING_OFFST
  <2>2. WrittenThrough(p) /\ off \in wrote[p][r]
    BY <2>1 DEF ProcInv
  <2>3. /\ off < RegionSize(p, r)
        /\ (off = 0 => ~beyond) => written[p][PAGING_PGN(Address(p, r, off))][PAGING_OFFST(Address(p, r, off))] = r
    BY <2>2 DEF WrittenThrough
  <2> QED
    BY <2>1, <2>3 DEF RegionSize, Address
<1>4. EmptyAtZero(p) => EmptyAtZero(p)'
  BY DEF Slots, EmptyAtZero, RegionSize
<1> QED
  BY <1>1, <1>2, <1>3, <1>4 DEF ProcInv

-----------------------------------------------------------------------------
(* Pages and addresses *)

\* PAGING_PAGE_ALIGNSZ() in pages is a division that rounds up.
LEMMA PagesUpTo == \A n : Pages(n) = UpTo(n, PAGING_PAGESZ)
  BY DEF Pages, UpTo

\* The types of an area, its regions and the addresses in them.
LEMMA AddressFacts ==
    ASSUME MemType, NEW p \in Proc, AreaKept(p), NEW r \in Rgid, NEW off \in Nat
    PROVE  /\ symrgtbl[p][r].rg_start \in Nat /\ symrgtbl[p][r].rg_end \in Nat /\ Break(p) \in Nat
           /\ symrgtbl[p][r].rg_start <= symrgtbl[p][r].rg_end /\ symrgtbl[p][r].rg_end <= Break(p)
           /\ Bytes(symrgtbl[p][r]) \subseteq 0..(Break(p) - 1)
           /\ RegionSize(p, r) \in Nat /\ Address(p, r, off) \in Nat
           /\ PAGING_PGN(Address(p, r, off)) \in Nat /\ PAGING_OFFST(Address(p, r, off)) \in Offset
           /\ off < RegionSize(p, r) => Address(p, r, off) \in Bytes(symrgtbl[p][r])
           /\ off <= RegionSize(p, r) => Address(p, r, off) <= Break(p)
<1>1. AreaShape(Rgid, symrgtbl[p], vm_freerg_list[p], Break(p))
  BY DEF AreaKept
<1>2. PICK s \in Nat, e \in Nat, b \in Nat :
          s = symrgtbl[p][r].rg_start /\ e = symrgtbl[p][r].rg_end /\ b = Break(p) /\ s <= e /\ e <= b
  BY <1>1, ShapeFacts
<1>3. Bytes(symrgtbl[p][r]) \subseteq 0..(Break(p) - 1)
  BY <1>1, ShapeFacts
<1>4. PICK a \in Nat : a = Address(p, r, off) /\ a = s + off
  BY <1>2 DEF Address
<1>5. RegionSize(p, r) = e - s /\ e - s \in Nat /\ Bytes(symrgtbl[p][r]) = s..(e - 1)
  BY <1>2 DEF RegionSize, Bytes
<1>6. PAGING_PGN(a) \in Nat /\ PAGING_OFFST(a) \in Offset
  BY DivNat, PagingAssumption DEF PAGING_PGN, PAGING_OFFST, Offset
<1>7. /\ off < e - s => a \in s..(e - 1)
      /\ off <= e - s => a <= b
  BY <1>2, <1>4
<1> QED
  BY <1>2, <1>3, <1>4, <1>5, <1>6, <1>7

\* Every access that passes reaches a page of the process or the one behind them.
LEMMA PassesInReach ==
    ASSUME MemType, NEW p \in Proc, BreakShape(p), AreaKept(p), ~Pending(p),
           NEW r \in Rgid, NEW off \in Nat, Passes(p, r, off)
    PROVE  PAGING_PGN(Address(p, r, off)) \in Reach(p)
<1>1. PICK a \in Nat, b \in Nat : a = Address(p, r, off) /\ b = Break(p) /\ a <= b
  BY AddressFacts DEF Passes
<1>2. b = sbrk[p] /\ npages[p] = UpTo(b, PAGING_PAGESZ)
  BY <1>1, PagesUpTo DEF Break, BreakShape
<1>3. a \div PAGING_PAGESZ \in 0..UpTo(b, PAGING_PAGESZ)
  BY <1>1, UpToPage, PagingAssumption
<1> QED
  BY <1>1, <1>2, <1>3 DEF Reach, PAGING_PGN

\* Two bytes of the same page with the same offset in it are the same byte.
LEMMA SameByte ==
    ASSUME NEW a \in Nat, NEW b \in Nat, PAGING_PGN(a) = PAGING_PGN(b), PAGING_OFFST(a) = PAGING_OFFST(b)
    PROVE  a = b
  BY DivModInjective, PagingAssumption DEF PAGING_PGN, PAGING_OFFST

-----------------------------------------------------------------------------
(* Every step is a step of Paging *)

\* vm_end grows by one page at least where pgalloc() moves it.
LEMMA GrowPages ==
    ASSUME MemType, NEW p \in Proc, BreakShape(p), ~Pending(p), NEW size \in Size, MustGrow(p, size)
    PROVE  /\ Pages(sbrk[p]) \in Nat /\ Pages(size + sbrk[p]) \in Nat
           /\ Pages(size + sbrk[p]) - Pages(sbrk[p]) \in Nat \ {0}
<1>1. PICK b \in Nat, s \in Nat, P \in Nat : b = sbrk[p] /\ s = size /\ s > 0 /\ P = PAGING_PAGESZ /\ P # 0
  BY MemoryAssumption, PagingAssumption DEF MemType
<1>2. PICK k \in Nat : k = Pages(b) /\ k = UpTo(b, P) /\ k * P \in Nat /\ b <= k * P
  <2>1. Pages(b) = UpTo(b, P)
    BY <1>1, PagesUpTo
  <2> QED
    BY <1>1, <2>1, UpToBounds
<1>3. s + b > k * P
  <2>1. s + b > k * P \/ b = k * P
    BY <1>1, <1>2 DEF MustGrow, BreakShape
  <2>2. b = k * P => s + b > k * P
    BY <1>1
  <2> QED
    BY <2>1, <2>2
<1>4. s + b \in Nat /\ P \in Nat \ {0}
  BY <1>1
<1>5. Pages(s + b) = UpTo(s + b, P)
  BY <1>1, PagesUpTo
<1>6. UpTo(s + b, P) \in Nat /\ UpTo(s + b, P) > k
  BY <1>2, <1>3, <1>4, UpToBounds, UpToLeast
<1>7. UpTo(s + b, P) - k \in Nat \ {0}
  BY <1>2, <1>6
<1> QED
  BY <1>1, <1>2, <1>5, <1>6, <1>7

\* A READ or WRITE accesses a byte of a page in reach.
LEMMA AccessPaging ==
    ASSUME MemInv, NEW p \in Proc, NEW r \in Rgid, NEW off \in Offsets,
           \/ \E v \in {r, None} : PgHit(p, r, off, v) \/ PgMiss(p, r, off, v)
           \/ PgMissOutside(p, r, off)
           \/ PgNothing(p, r, off)
    PROVE  Access(p) \/ UNCHANGED vars
<1>0. MemType /\ BreakShape(p) /\ AreaKept(p) /\ Shape
  BY DEF MemInv, ProcInv, PagingInv
<1>1. /\ PAGING_OFFST(Address(p, r, off)) \in Offset
      /\ PAGING_PGN(Address(p, r, off)) \in Reach(p) => PAGING_PGN(Address(p, r, off)) \in Page
  <2>1. off \in Nat
    BY MemoryAssumption
  <2>2. PAGING_OFFST(Address(p, r, off)) \in Offset
    BY <1>0, <2>1, AddressFacts
  <2>3. npages[p] \in Nat /\ npages[p] <= MaxPages /\ MaxPages \in Nat
    BY <1>0, PagingAssumption DEF Shape, PagingTypeOK
  <2>4. Reach(p) \subseteq Page
    BY <2>3 DEF Reach, Page
  <2> QED
    BY <2>2, <2>4
<1>2. \A v \in {r, None} : v \in Value \cup {None}
  BY MemoryAssumption
<1>3. ASSUME NEW v \in {r, None}, PgHit(p, r, off, v) PROVE Access(p)
  <2>1. Hit(p, PAGING_PGN(Address(p, r, off)), PAGING_OFFST(Address(p, r, off)), v)
    BY <1>3 DEF PgHit
  <2>2. PAGING_PGN(Address(p, r, off)) \in Reach(p)
    BY <2>1 DEF Hit
  <2> QED
    BY <1>1, <1>2, <2>1, <2>2 DEF Access
<1>4. ASSUME NEW v \in {r, None}, PgMiss(p, r, off, v) PROVE Access(p)
  <2>1. PICK vic \in Page : Miss(p, PAGING_PGN(Address(p, r, off)), PAGING_OFFST(Address(p, r, off)), v, vic)
    BY <1>4 DEF PgMiss
  <2>2. PAGING_PGN(Address(p, r, off)) \in Reach(p)
    BY <2>1 DEF Miss
  <2> QED
    BY <1>1, <1>2, <2>1, <2>2 DEF Access
<1>5. CASE PgMissOutside(p, r, off)
  <2>1. PICK vic \in Page : MissOutside(p, PAGING_PGN(Address(p, r, off)), vic)
    BY <1>5 DEF PgMissOutside
  <2>2. PAGING_PGN(Address(p, r, off)) \in Reach(p)
    BY <2>1 DEF MissOutside
  <2> QED
    BY <1>1, <2>1, <2>2 DEF Access
<1>6. CASE PgNothing(p, r, off)
  BY <1>6 DEF PgNothing, memvars
<1> QED
  BY <1>3, <1>4, <1>5, <1>6

\* An instruction is a step of Paging: it asks for some pages, or accesses a
\* byte of a page in reach.
LEMMA InstructionPaging ==
    ASSUME MemInv, NEW p \in Proc, NEW r \in Rgid, Instruction(p, r)
    PROVE  Alloc(p) \/ Access(p) \/ UNCHANGED vars
<1>0. MemType /\ BreakShape(p) /\ AreaKept(p) /\ Shape
  BY DEF MemInv, ProcInv, PagingInv
<1>1. CASE \E size \in Size : PgAllocFree(p, r, size) \/ PgAllocInPage(p, r, size)
  BY <1>1 DEF PgAllocFree, PgAllocInPage
<1>2. ASSUME NEW size \in Size, PgAllocGrow(p, r, size) PROVE Alloc(p)
  <2>1. IncLimit(p, Pages(size + sbrk[p]) - Pages(sbrk[p])) /\ MustGrow(p, size) /\ ~Pending(p)
    BY <1>2 DEF PgAllocGrow, Ready, Pending
  <2>2. PICK k \in Nat \ {0} : k = Pages(size + sbrk[p]) - Pages(sbrk[p])
    BY <1>0, <2>1, GrowPages
  <2>3. npages[p] \in Nat /\ MaxPages \in Nat /\ npages[p] + k <= MaxPages
    BY <1>0, <2>1, <2>2, PagingAssumption DEF IncLimit, Shape, PagingTypeOK
  <2>4. k \in 1..MaxPages
    BY <2>2, <2>3
  <2> QED
    BY <2>1, <2>2, <2>4 DEF Alloc
<1>3. CASE PgFree(p, r)
  BY <1>3 DEF PgFree
<1> QED
  BY <1>1, <1>2, <1>3, AccessPaging DEF Instruction

\* An instruction under way goes on with a step of Paging.
LEMMA ContinuePaging ==
    ASSUME NEW p \in Proc, Continue(p)
    PROVE  Alloc(p) \/ Access(p)
  BY DEF Continue, PgAllocEnd, PgFinish, Alloc, Access

\* Every step of Memory is a step of Paging, or changes none of its variables.
LEMMA MemStepPaging == MemInv /\ [MemNext]_memvars => [Next]_vars
<1> SUFFICES ASSUME MemInv, [MemNext]_memvars PROVE [Next]_vars
  OBVIOUS
<1>1. CASE UNCHANGED memvars
  BY <1>1 DEF memvars
<1>2. CASE Undefined /\ UNCHANGED <<areas, histories>>
  BY <1>2 DEF Next
<1> QED
  BY <1>1, <1>2, InstructionPaging, ContinuePaging DEF MemNext, Next

-----------------------------------------------------------------------------
(* A step of a process leaves what the others have *)

PagingOnly(p) ==
    \A q \in Proc : q # p =>
        /\ mpc'[q] = mpc[q] /\ npages'[q] = npages[q] /\ want'[q] = want[q]
        /\ fault'[q] = fault[q] /\ written'[q] = written[q]

\* A step of a process in Paging changes no table of another.
LEMMA PagingOthers ==
    ASSUME PagingTypeOK, NEW p \in Proc, Alloc(p) \/ Access(p) \/ UNCHANGED vars
    PROVE  PagingOnly(p)
<1>0. /\ mpc \in [Proc -> {"idle", "alloc", "out", "in", "access"}]
      /\ npages \in [Proc -> 0..MaxPages] /\ want \in [Proc -> 0..MaxPages]
      /\ DOMAIN fault = Proc /\ DOMAIN written = Proc
  BY DEF PagingTypeOK
<1>1. ASSUME NEW k \in 1..MaxPages, IncLimit(p, k) PROVE PagingOnly(p)
  BY <1>0, <1>1 DEF IncLimit, Goto, PagingOnly
<1>2. CASE GetRamFrame(p) \/ GetSwpFrame(p)
  BY <1>2 DEF GetRamFrame, GetSwpFrame, tables, PagingOnly
<1>3. CASE OutOfMemory(p)
  BY <1>0, <1>3 DEF OutOfMemory, EmptyLists, Goto, tables, PagingOnly
<1>4. CASE MapRange(p)
  BY <1>0, <1>4 DEF MapRange, EmptyLists, Goto, PagingOnly
<1>5. ASSUME NEW n, NEW o, NEW f, NEW v, Touch(p, n, o, f, v), NEW q \in Proc, q # p
      PROVE  written'[q] = written[q]
  BY <1>0, <1>5 DEF Touch
<1>6. ASSUME NEW n \in Page, NEW o \in Offset, NEW v \in Value \cup {None}, Hit(p, n, o, v)
      PROVE  PagingOnly(p)
  BY <1>5, <1>6 DEF Hit, tables, locals, PagingOnly
<1>7. ASSUME NEW n \in Page, NEW o \in Offset, NEW v \in Value \cup {None}, NEW vic \in Page, Miss(p, n, o, v, vic)
      PROVE  PagingOnly(p)
  BY <1>0, <1>7 DEF Miss, Goto, tables, locals, PagingOnly
<1>8. ASSUME NEW n \in Page, NEW vic \in Page, MissOutside(p, n, vic) PROVE PagingOnly(p)
  BY <1>8 DEF MissOutside, tables, locals, PagingOnly
<1>9. CASE SwapOut(p)
  BY <1>0, <1>9 DEF SwapOut, Goto, tables, locals, PagingOnly
<1>10. CASE SwapIn(p)
  BY <1>0, <1>10 DEF SwapIn, Goto, locals, PagingOnly
<1>11. CASE Finish(p)
  BY <1>0, <1>5, <1>11 DEF Finish, Goto, tables, locals, PagingOnly
<1>12. CASE UNCHANGED vars \/ \E n \in Page : Drop(p, n)
  BY <1>12 DEF Drop, vars, tables, locals, PagingOnly
<1> QED
  BY <1>1, <1>2, <1>3, <1>4, <1>6, <1>7, <1>8, <1>9, <1>10, <1>11, <1>12 DEF Alloc, Access

AreasOnly(p) ==
    \A q \in Proc : q # p =>
        /\ symrgtbl'[q] = symrgtbl[q] /\ vm_freerg_list'[q] = vm_freerg_list[q] /\ sbrk'[q] = sbrk[q]
        /\ req'[q] = req[q] /\ dangling'[q] = dangling[q] /\ lost'[q] = lost[q] /\ wrote'[q] = wrote[q]
        /\ mapped'[q] = mapped[q]

\* So the invariants of the others are kept.
LEMMA OthersKept ==
    ASSUME NEW p \in Proc, PagingOnly(p), AreasOnly(p), beyond => beyond',
           \A q \in Proc : ProcInv(q), ProcInv(p)'
    PROVE  \A q \in Proc : ProcInv(q)'
<1> SUFFICES ASSUME NEW q \in Proc, q # p PROVE ProcInv(q)'
  OBVIOUS
<1>1. UNCHANGED Slots(q)
  BY DEF PagingOnly, AreasOnly, Slots
<1> QED
  BY <1>1, SlotsKept

-----------------------------------------------------------------------------
(* ALLOC and FREE *)

\* What is proved of a step of p.
Kept(p) == MemType' /\ AreasOnly(p) /\ (beyond => beyond') /\ ProcInv(p)'

\* The symbol table and the histories after an allocation.
LEMMA SetRegionKept ==
    ASSUME MemType, NEW p \in Proc, NEW r \in Rgid, NEW start \in Nat, NEW size \in Nat,
           SetRegion(p, r, start, size)
    PROVE  /\ symrgtbl' \in [Proc -> [Rgid -> NatRegion]]
           /\ symrgtbl'[p] = [symrgtbl[p] EXCEPT ![r] = [rg_start |-> start, rg_end |-> start + size]]
           /\ lost' \in [Proc -> SUBSET Nat] /\ lost'[p] = lost[p] \cup Bytes(symrgtbl[p][r])
           /\ wrote' \in [Proc -> [Rgid -> SUBSET Nat]] /\ wrote'[p] = [wrote[p] EXCEPT ![r] = {}]
           /\ \A q \in Proc : q # p => symrgtbl'[q] = symrgtbl[q] /\ lost'[q] = lost[q] /\ wrote'[q] = wrote[q]
<1> DEFINE x == [rg_start |-> start, rg_end |-> start + size]
<1>1. x \in NatRegion
  BY DEF NatRegion
<1>2. symrgtbl' = [symrgtbl EXCEPT ![p][r] = x]
  BY DEF SetRegion
<1> HIDE DEF x
<1>3. /\ symrgtbl' \in [Proc -> [Rgid -> NatRegion]]
      /\ symrgtbl'[p] = [symrgtbl[p] EXCEPT ![r] = x]
      /\ \A q \in Proc : q # p => symrgtbl'[q] = symrgtbl[q]
  BY <1>1, <1>2 DEF MemType
<1>4. Bytes(symrgtbl[p][r]) \subseteq Nat
  <2>1. PICK a \in Nat, b \in Nat : symrgtbl[p][r] = [rg_start |-> a, rg_end |-> b]
    BY DEF MemType, NatRegion
  <2>2. a..(b - 1) \subseteq Nat
    OBVIOUS
  <2> QED
    BY <2>1, <2>2 DEF Bytes
<1>5. lost' = [lost EXCEPT ![p] = @ \cup Bytes(symrgtbl[p][r])] /\ lost \in [Proc -> SUBSET Nat]
  BY DEF SetRegion, MemType
<1>6. /\ lost' \in [Proc -> SUBSET Nat] /\ lost'[p] = lost[p] \cup Bytes(symrgtbl[p][r])
      /\ \A q \in Proc : q # p => lost'[q] = lost[q]
  BY <1>4, <1>5
<1>7. wrote' = [wrote EXCEPT ![p][r] = {}] /\ wrote \in [Proc -> [Rgid -> SUBSET Nat]]
  BY DEF SetRegion, MemType
<1>8. /\ wrote' \in [Proc -> [Rgid -> SUBSET Nat]] /\ wrote'[p] = [wrote[p] EXCEPT ![r] = {}]
      /\ \A q \in Proc : q # p => wrote'[q] = wrote[q]
  BY <1>7
<1> QED
  BY <1>3, <1>6, <1>8 DEF x

\* The bytes written through the other indices stay.
LEMMA OtherIndices ==
    ASSUME MemType, NEW p \in Proc, NEW r \in Rgid, WrittenThrough(p), UNCHANGED beyond,
           wrote'[p] = [wrote[p] EXCEPT ![r] = {}],
           \A s \in Rgid : s # r => symrgtbl'[p][s] = symrgtbl[p][s],
           \A s \in Rgid : \A off \in wrote[p][s] :
               written'[p][PAGING_PGN(Address(p, s, off))][PAGING_OFFST(Address(p, s, off))]
                   = written[p][PAGING_PGN(Address(p, s, off))][PAGING_OFFST(Address(p, s, off))]
    PROVE  WrittenThrough(p)'
<1>1. wrote'[p][r] = {} /\ \A s \in Rgid : s # r => wrote'[p][s] = wrote[p][s]
  BY DEF MemType
<1> SUFFICES ASSUME NEW s \in Rgid, NEW off \in wrote'[p][s]
             PROVE  /\ off < RegionSize(p, s)'
                    /\ (off = 0 => ~beyond) =>
                          written'[p][PAGING_PGN((symrgtbl'[p][s]).rg_start + off)]
                                     [PAGING_OFFST((symrgtbl'[p][s]).rg_start + off)] = s
  BY DEF WrittenThrough, Address, RegionSize, PAGING_PGN, PAGING_OFFST
<1>2. s # r /\ off \in wrote[p][s] /\ symrgtbl'[p][s] = symrgtbl[p][s]
  BY <1>1
<1>3. /\ off < RegionSize(p, s)
      /\ (off = 0 => ~beyond) =>
            written[p][PAGING_PGN(Address(p, s, off))][PAGING_OFFST(Address(p, s, off))] = s
  BY <1>2 DEF WrittenThrough
<1> QED
  BY <1>2, <1>3 DEF RegionSize, Address

\* A region that ALLOC or FREE sets is not empty, or at address 0.
LEMMA EmptyKept ==
    ASSUME MemType, NEW p \in Proc, NEW r \in Rgid, EmptyAtZero(p), NEW a \in Nat, NEW b \in Nat,
           a # b \/ a = 0,
           symrgtbl'[p] = [symrgtbl[p] EXCEPT ![r] = [rg_start |-> a, rg_end |-> b]]
    PROVE  EmptyAtZero(p)'
<1>1. /\ symrgtbl'[p][r] = [rg_start |-> a, rg_end |-> b]
      /\ \A s \in Rgid : s # r => symrgtbl'[p][s] = symrgtbl[p][s]
  BY DEF MemType
<1> SUFFICES ASSUME NEW s \in Rgid, (symrgtbl'[p][s]).rg_end - (symrgtbl'[p][s]).rg_start = 0
             PROVE  (symrgtbl'[p][s]).rg_start = 0
  BY DEF EmptyAtZero, RegionSize
<1>2. CASE s = r
  <2>1. b - a = 0
    BY <1>1, <1>2
  <2>2. a = b
    BY <2>1
  <2> QED
    BY <1>1, <1>2, <2>2
<1>3. CASE s # r
  BY <1>1, <1>3 DEF EmptyAtZero, RegionSize
<1> QED
  BY <1>2, <1>3

\* pgalloc() in a free region.
LEMMA AllocFreeKept ==
    ASSUME MemInv, NEW p \in Proc, NEW r \in Rgid, NEW size \in Size, PgAllocFree(p, r, size)
    PROVE  Kept(p)
<1> DEFINE L == vm_freerg_list[p]
           i == First(Fits(L, size))
<1>0. MemType /\ ProcInv(p) /\ BreakShape(p) /\ AreaKept(p)
  BY DEF MemInv, ProcInv
<1>1. /\ mpc[p] = "idle" /\ ~dangling[p] /\ Fits(L, size) # {}
      /\ SetRegion(p, r, L[i].rg_start, size)
      /\ vm_freerg_list' = [vm_freerg_list EXCEPT ![p] = Taken(@, i, size)]
      /\ UNCHANGED <<vars, sbrk, req, dangling, mapped, beyond>>
  BY DEF PgAllocFree, Ready
<1>2. ~Pending(p) /\ Break(p) = sbrk[p]
  BY <1>1 DEF Pending, Break
<1>3. AreaInv(Rgid, symrgtbl[p], L, lost[p], sbrk[p]) /\ size \in Nat \ {0} /\ L \in Seq(NatRegion)
  BY <1>0, <1>1, <1>2, MemoryAssumption DEF AreaKept, MemType
<1>4. L[i].rg_start \in Nat
  <2>1. i \in Fits(L, size)
    BY <1>1, <1>3, FirstFits
  <2>2. i \in 1..Len(L)
    BY <2>1 DEF Fits
  <2>3. L[i] \in NatRegion
    BY <1>3, <2>2, ElementOfSeq
  <2> QED
    BY <2>3 DEF NatRegion
<1> HIDE DEF i, L
<1>5. /\ symrgtbl' \in [Proc -> [Rgid -> NatRegion]]
      /\ symrgtbl'[p] = [symrgtbl[p] EXCEPT ![r] = [rg_start |-> L[i].rg_start, rg_end |-> L[i].rg_start + size]]
      /\ lost' \in [Proc -> SUBSET Nat] /\ lost'[p] = lost[p] \cup Bytes(symrgtbl[p][r])
      /\ wrote' \in [Proc -> [Rgid -> SUBSET Nat]] /\ wrote'[p] = [wrote[p] EXCEPT ![r] = {}]
      /\ \A q \in Proc : q # p => symrgtbl'[q] = symrgtbl[q] /\ lost'[q] = lost[q] /\ wrote'[q] = wrote[q]
  BY <1>0, <1>1, <1>3, <1>4, SetRegionKept DEF L
<1>6. vm_freerg_list'[p] = Taken(L, i, size) /\ \A q \in Proc : q # p => vm_freerg_list'[q] = vm_freerg_list[q]
  BY <1>0, <1>1 DEF MemType, L
<1>7. AreaInv(Rgid, symrgtbl'[p], vm_freerg_list'[p], lost'[p], sbrk[p])
  <2>1. i = First(Fits(L, size)) /\ Fits(L, size) # {}
    BY <1>1 DEF i
  <2>2. PICK sym, sym2, list2, lo, lo2, brk :
           /\ sym = symrgtbl[p] /\ sym2 = symrgtbl'[p] /\ list2 = vm_freerg_list'[p]
           /\ lo = lost[p] /\ lo2 = lost'[p] /\ brk = sbrk[p]
    OBVIOUS
  <2>3. /\ AreaInv(Rgid, sym, L, lo, brk) /\ size \in Nat \ {0}
        /\ sym2 = [sym EXCEPT ![r] = [rg_start |-> L[i].rg_start, rg_end |-> L[i].rg_start + size]]
        /\ list2 = Taken(L, i, size) /\ lo2 = lo \cup Bytes(sym[r])
    BY <1>3, <1>5, <1>6, <2>2
  <2>4. AreaInv(Rgid, sym2, list2, lo2, brk)
    BY <2>1, <2>3, AreaTaken
  <2> QED
    BY <2>2, <2>4
<1>8. AreaShape(Rgid, symrgtbl'[p], vm_freerg_list'[p], sbrk[p]) /\ UsedApart(Rgid, symrgtbl'[p])
  BY <1>7 DEF AreaInv, AreaApart
<1>9. UNCHANGED <<sbrk, req, dangling, mapped, beyond, mpc, npages, want, fault, written>>
  BY <1>1 DEF vars, tables, locals
<1>10. MemType'
  <2>1. vm_freerg_list'[p] \in Seq(NatRegion)
    BY <1>8 DEF AreaShape
  <2>2. vm_freerg_list' \in [Proc -> Seq(NatRegion)]
    BY <1>0, <1>1, <1>6, <2>1 DEF MemType
  <2> QED
    BY <1>0, <1>5, <1>9, <2>2 DEF MemType
<1>11. BreakShape(p)' /\ FaultOfAccess(p)'
  <2>1. ~Pending(p)' /\ mpc'[p] = "idle"
    BY <1>1, <1>9 DEF Pending
  <2> QED
    BY <1>0, <1>9, <2>1 DEF BreakShape, FaultOfAccess, Pages
<1>12. AreaKept(p)'
  BY <1>2, <1>7, <1>8, <1>9 DEF AreaKept, Break, Pending
<1>13. WrittenThrough(p)'
  <2>1. WrittenThrough(p)
    BY <1>0 DEF ProcInv
  <2>2. \A s \in Rgid : s # r => symrgtbl'[p][s] = symrgtbl[p][s]
    BY <1>0, <1>5 DEF MemType
  <2> QED
    BY <1>0, <1>5, <1>9, <2>1, <2>2, OtherIndices
<1>14. EmptyAtZero(p)'
  <2>1. PICK a \in Nat, s \in Nat : a = L[i].rg_start /\ s = size /\ s # 0 /\ a + s \in Nat /\ a # a + s
    BY <1>3, <1>4
  <2>2. EmptyAtZero(p) /\ symrgtbl'[p] = [symrgtbl[p] EXCEPT ![r] = [rg_start |-> a, rg_end |-> a + s]]
    BY <1>0, <1>5, <2>1 DEF ProcInv
  <2> QED
    BY <1>0, <2>1, <2>2, EmptyKept
<1> QED
  BY <1>5, <1>6, <1>9, <1>10, <1>11, <1>12, <1>13, <1>14 DEF Kept, AreasOnly, ProcInv

\* The area of p after an allocation at the break.
LEMMA BreakArea ==
    ASSUME NEW p \in Proc, NEW r \in Rgid, NEW brk \in Nat, NEW size \in Nat \ {0},
           AreaInv(Rgid, symrgtbl[p], vm_freerg_list[p], lost[p], brk),
           symrgtbl'[p] = [symrgtbl[p] EXCEPT ![r] = [rg_start |-> brk, rg_end |-> brk + size]],
           lost'[p] = lost[p] \cup Bytes(symrgtbl[p][r])
    PROVE  AreaInv(Rgid, symrgtbl'[p], vm_freerg_list[p], lost'[p], brk + size)
<1>1. PICK sym, sym2, list, lo, lo2, brk2 :
         /\ sym = symrgtbl[p] /\ sym2 = symrgtbl'[p] /\ list = vm_freerg_list[p]
         /\ lo = lost[p] /\ lo2 = lost'[p] /\ brk2 = brk + size
  OBVIOUS
<1>2. /\ AreaInv(Rgid, sym, list, lo, brk) /\ brk2 \in Nat /\ brk < brk2
      /\ sym2 = [sym EXCEPT ![r] = [rg_start |-> brk, rg_end |-> brk2]]
      /\ lo2 = lo \cup Bytes(sym[r])
  BY <1>1
<1>3. AreaInv(Rgid, sym2, list, lo2, brk2)
  BY <1>2, AreaGrown
<1> QED
  BY <1>1, <1>3

\* pgalloc() inside the page of the break.
LEMMA AllocInPageKept ==
    ASSUME MemInv, NEW p \in Proc, NEW r \in Rgid, NEW size \in Size, PgAllocInPage(p, r, size)
    PROVE  Kept(p)
<1>0. MemType /\ ProcInv(p) /\ BreakShape(p) /\ AreaKept(p)
  BY DEF MemInv, ProcInv
<1>1. /\ mpc[p] = "idle" /\ ~dangling[p] /\ ~MustGrow(p, size)
      /\ SetRegion(p, r, sbrk[p], size)
      /\ sbrk' = [sbrk EXCEPT ![p] = @ + size]
      /\ UNCHANGED <<vars, vm_freerg_list, req, dangling, mapped, beyond>>
  BY DEF PgAllocInPage, Ready
<1>2. ~Pending(p) /\ Break(p) = sbrk[p]
  BY <1>1 DEF Pending, Break
<1>3. /\ AreaInv(Rgid, symrgtbl[p], vm_freerg_list[p], lost[p], sbrk[p])
      /\ size \in Nat \ {0} /\ sbrk[p] \in Nat /\ sbrk \in [Proc -> Nat]
  BY <1>0, <1>1, <1>2, MemoryAssumption DEF AreaKept, MemType
<1>4. /\ symrgtbl' \in [Proc -> [Rgid -> NatRegion]]
      /\ symrgtbl'[p] = [symrgtbl[p] EXCEPT ![r] = [rg_start |-> sbrk[p], rg_end |-> sbrk[p] + size]]
      /\ lost' \in [Proc -> SUBSET Nat] /\ lost'[p] = lost[p] \cup Bytes(symrgtbl[p][r])
      /\ wrote' \in [Proc -> [Rgid -> SUBSET Nat]] /\ wrote'[p] = [wrote[p] EXCEPT ![r] = {}]
      /\ \A q \in Proc : q # p => symrgtbl'[q] = symrgtbl[q] /\ lost'[q] = lost[q] /\ wrote'[q] = wrote[q]
  BY <1>0, <1>1, <1>3, SetRegionKept
<1>5. /\ sbrk' \in [Proc -> Nat] /\ sbrk'[p] = sbrk[p] + size
      /\ \A q \in Proc : q # p => sbrk'[q] = sbrk[q]
  BY <1>1, <1>3
<1>6. AreaInv(Rgid, symrgtbl'[p], vm_freerg_list[p], lost'[p], sbrk'[p])
  <2>1. PICK brk \in Nat : brk = sbrk[p]
    BY <1>3
  <2>2. AreaInv(Rgid, symrgtbl'[p], vm_freerg_list[p], lost'[p], brk + size)
    BY <1>3, <1>4, <2>1, BreakArea
  <2> QED
    BY <1>5, <2>1, <2>2
<1>7. AreaShape(Rgid, symrgtbl'[p], vm_freerg_list[p], sbrk'[p]) /\ UsedApart(Rgid, symrgtbl'[p])
  BY <1>6 DEF AreaInv, AreaApart
<1>8. UNCHANGED <<vm_freerg_list, req, dangling, mapped, beyond, mpc, npages, want, fault, written>>
  BY <1>1 DEF vars, tables, locals
<1>9. MemType'
  BY <1>0, <1>4, <1>5, <1>8 DEF MemType
<1>10. npages[p] = Pages(sbrk'[p])
  <2>1. PICK b \in Nat, s \in Nat : b = sbrk[p] /\ s = size
    BY <1>3
  <2>2. s + b <= UpTo(b, PAGING_PAGESZ) * PAGING_PAGESZ
    <3>1. ~(s + b > UpTo(b, PAGING_PAGESZ) * PAGING_PAGESZ)
      BY <1>1, <2>1, PagesUpTo DEF MustGrow
    <3>2. UpTo(b, PAGING_PAGESZ) * PAGING_PAGESZ \in Nat
      BY UpToBounds, PagingAssumption
    <3> QED
      BY <3>1, <3>2
  <2>3. s + b \in Nat /\ b <= s + b /\ sbrk'[p] = s + b
    BY <1>5, <2>1
  <2>4. UpTo(s + b, PAGING_PAGESZ) = UpTo(b, PAGING_PAGESZ)
    BY <2>2, <2>3, UpToInside, PagingAssumption
  <2> QED
    BY <1>0, <2>1, <2>3, <2>4, PagesUpTo DEF BreakShape
<1>11. BreakShape(p)' /\ FaultOfAccess(p)'
  <2>1. ~Pending(p)' /\ mpc'[p] = "idle"
    BY <1>1, <1>8 DEF Pending
  <2> QED
    BY <1>8, <1>10, <2>1 DEF BreakShape, FaultOfAccess, Pages
<1>12. AreaKept(p)'
  BY <1>2, <1>6, <1>7, <1>8 DEF AreaKept, Break, Pending
<1>13. WrittenThrough(p)'
  <2>1. WrittenThrough(p)
    BY <1>0 DEF ProcInv
  <2>2. \A s \in Rgid : s # r => symrgtbl'[p][s] = symrgtbl[p][s]
    BY <1>0, <1>4 DEF MemType
  <2> QED
    BY <1>0, <1>4, <1>8, <2>1, <2>2, OtherIndices
<1>14. EmptyAtZero(p)'
  <2>1. PICK a \in Nat, s \in Nat : a = sbrk[p] /\ s = size /\ s # 0 /\ a + s \in Nat /\ a # a + s
    BY <1>3
  <2>2. EmptyAtZero(p) /\ symrgtbl'[p] = [symrgtbl[p] EXCEPT ![r] = [rg_start |-> a, rg_end |-> a + s]]
    BY <1>0, <1>4, <2>1 DEF ProcInv
  <2> QED
    BY <1>0, <2>1, <2>2, EmptyKept
<1> QED
  BY <1>4, <1>5, <1>8, <1>9, <1>11, <1>12, <1>13, <1>14 DEF Kept, AreasOnly, ProcInv

\* pgalloc() up to vm_map_ram(): the break before the allocation is remembered.
LEMMA AllocGrowKept ==
    ASSUME MemInv, NEW p \in Proc, NEW r \in Rgid, NEW size \in Size, PgAllocGrow(p, r, size)
    PROVE  Kept(p)
<1> DEFINE k == Pages(size + sbrk[p]) - Pages(sbrk[p])
<1>0. MemType /\ ProcInv(p) /\ BreakShape(p) /\ AreaKept(p) /\ PagingTypeOK
  BY DEF MemInv, ProcInv, PagingInv, Shape
<1>1. /\ mpc[p] = "idle" /\ ~dangling[p] /\ MustGrow(p, size) /\ Fits(vm_freerg_list[p], size) = {}
      /\ IncLimit(p, k)
      /\ sbrk' = [sbrk EXCEPT ![p] = @ + size]
      /\ req' = [req EXCEPT ![p] = [rgid |-> r, arg |-> size]]
      /\ UNCHANGED <<symrgtbl, vm_freerg_list, dangling, histories>>
  BY DEF PgAllocGrow, Ready
<1>2. ~Pending(p) /\ Break(p) = sbrk[p]
  BY <1>1 DEF Pending, Break
<1>3. /\ Pages(sbrk[p]) \in Nat /\ Pages(size + sbrk[p]) \in Nat
      /\ k \in Nat \ {0} /\ size \in Nat \ {0} /\ sbrk[p] \in Nat /\ sbrk \in [Proc -> Nat]
  BY <1>0, <1>1, <1>2, GrowPages, MemoryAssumption DEF MemType
<1>4. /\ mpc'[p] = "alloc" /\ npages'[p] = npages[p] + k /\ want'[p] = k /\ UNCHANGED <<fault, written>>
  BY <1>0, <1>1 DEF IncLimit, Goto, PagingTypeOK
<1> HIDE DEF k
<1>5. /\ sbrk' \in [Proc -> Nat] /\ sbrk'[p] = sbrk[p] + size
      /\ \A q \in Proc : q # p => sbrk'[q] = sbrk[q]
  BY <1>1, <1>3
<1>6. /\ req' \in [Proc -> [rgid : Rgid \cup {None}, arg : Nat]]
      /\ req'[p].rgid = r /\ req'[p].arg = size
      /\ \A q \in Proc : q # p => req'[q] = req[q]
  BY <1>0, <1>1, <1>3 DEF MemType
<1>7. UNCHANGED <<symrgtbl, vm_freerg_list, dangling, mapped, lost, wrote, beyond>>
  BY <1>1 DEF histories
<1>8. MemType'
  BY <1>0, <1>5, <1>6, <1>7 DEF MemType
<1>9. Pending(p)' /\ Break(p)' = sbrk[p]
  <2>1. PICK b \in Nat, s \in Nat, b2 \in Nat, a \in Nat :
            b = sbrk[p] /\ s = size /\ b2 = sbrk'[p] /\ a = req'[p].arg /\ b2 = b + s /\ a = s
    BY <1>3, <1>5, <1>6
  <2>2. b2 - a = b
    BY <2>1
  <2>3. Pending(p)'
    BY <1>4 DEF Pending
  <2>4. Break(p)' = sbrk'[p] - req'[p].arg
    BY <2>3 DEF Break
  <2> QED
    BY <2>1, <2>2, <2>3, <2>4
<1>10. BreakShape(p)'
  <2>1. PICK b \in Nat, s \in Nat, n \in Nat, m \in Nat :
            b = sbrk[p] /\ s = size /\ n = Pages(b) /\ m = Pages(s + b) /\ k = m - n
    BY <1>3 DEF k
  <2>2. npages[p] = n /\ npages'[p] = n + k /\ n + k = m /\ m - k = n
    BY <1>0, <1>4, <2>1 DEF BreakShape
  <2>3. s + b = b + s /\ s <= b + s
    BY <2>1
  <2>4. sbrk'[p] = s + b /\ npages'[p] = Pages(sbrk'[p])
    BY <1>5, <2>1, <2>2, <2>3
  <2>5. npages'[p] - want'[p] = Pages(Break(p)')
    BY <1>4, <1>9, <2>1, <2>2
  <2>6. s + b > n * PAGING_PAGESZ \/ b = n * PAGING_PAGESZ
    BY <1>0, <1>1, <2>1 DEF MustGrow, BreakShape
  <2>7. \/ sbrk'[p] > Pages(Break(p)') * PAGING_PAGESZ
        \/ Break(p)' = Pages(Break(p)') * PAGING_PAGESZ
    BY <1>9, <2>1, <2>4, <2>6
  <2>8. req'[p].rgid \in Rgid /\ req'[p].arg \in Size /\ req'[p].arg <= sbrk'[p]
    BY <1>6, <2>1, <2>3, <2>4
  <2>9. ~dangling'[p] /\ Fits(vm_freerg_list'[p], req'[p].arg) = {}
    BY <1>1, <1>6, <1>7
  <2> QED
    BY <2>4, <2>5, <2>7, <2>8, <2>9 DEF BreakShape, Pages
<1>11. AreaKept(p)'
  BY <1>0, <1>2, <1>7, <1>9 DEF AreaKept
<1>12. FaultOfAccess(p)'
  BY <1>4 DEF FaultOfAccess
<1>13. /\ WrittenThrough(p) => WrittenThrough(p)'
       /\ EmptyAtZero(p) => EmptyAtZero(p)'
  BY <1>4, <1>7 DEF WrittenThrough, EmptyAtZero, RegionSize, Address, PAGING_PGN, PAGING_OFFST
<1> QED
  BY <1>0, <1>5, <1>6, <1>7, <1>8, <1>10, <1>11, <1>12, <1>13 DEF Kept, AreasOnly, ProcInv

\* The pages that vmap_page_range() maps are behind those of the regions in use.
LEMMA MapRangeWritten ==
    ASSUME MemInv, NEW p \in Proc, MapRange(p), WrittenThrough(p),
           NEW s \in Rgid, NEW off \in wrote[p][s]
    PROVE  written'[p][PAGING_PGN(Address(p, s, off))][PAGING_OFFST(Address(p, s, off))]
             = written[p][PAGING_PGN(Address(p, s, off))][PAGING_OFFST(Address(p, s, off))]
<1>0. MemType /\ BreakShape(p) /\ AreaKept(p) /\ PagingTypeOK /\ Pending(p) /\ off \in Nat
  BY DEF MemInv, ProcInv, PagingInv, Shape, MapRange, Pending, MemType
<1>1. PICK a \in Nat, b \in Nat : a = Address(p, s, off) /\ b = Break(p) /\ a < b
  <2>1. off < RegionSize(p, s)
    BY DEF WrittenThrough
  <2>2. /\ Address(p, s, off) \in Nat /\ Break(p) \in Nat
        /\ Address(p, s, off) \in 0..(Break(p) - 1)
    BY <1>0, <2>1, AddressFacts
  <2> QED
    BY <2>2
<1>2. npages[p] - want[p] = UpTo(b, PAGING_PAGESZ)
  BY <1>0, <1>1, PagesUpTo DEF BreakShape
<1>3. PAGING_PGN(a) \in 0..(UpTo(b, PAGING_PAGESZ) - 1) /\ UpTo(b, PAGING_PAGESZ) \in Nat
  BY <1>1, UpToPage, UpToBounds, PagingAssumption DEF PAGING_PGN
<1>4. PICK n \in Nat, f \in Nat, m \in Nat : n = PAGING_PGN(a) /\ f = npages[p] - want[p] /\ n < f /\ m = npages[p] /\ f <= m
  <2>1. npages[p] \in Nat /\ want[p] \in Nat
    BY <1>0 DEF PagingTypeOK
  <2>2. PAGING_PGN(a) \in Nat /\ PAGING_PGN(a) < UpTo(b, PAGING_PAGESZ)
    BY <1>3
  <2> QED
    BY <1>2, <1>3, <2>1, <2>2
<1>5. n \in Page /\ n \notin f..(m - 1)
  <2>1. m <= MaxPages /\ MaxPages \in Nat
    BY <1>0, <1>4, PagingAssumption DEF PagingTypeOK
  <2> QED
    BY <1>4, <2>1 DEF Page
<1>6. written'[p] = [x \in Page |-> IF x \in f..(m - 1) THEN Unwritten ELSE written[p][x]]
  BY <1>0, <1>4 DEF MapRange, PagingTypeOK
<1>7. written'[p][n] = written[p][n]
  BY <1>5, <1>6
<1> QED
  BY <1>1, <1>4, <1>7

\* The rest of pgalloc().
LEMMA AllocEndKept ==
    ASSUME MemInv, NEW p \in Proc, PgAllocEnd(p)
    PROVE  Kept(p)
<1> DEFINE r == req[p].rgid
           size == req[p].arg
<1>0. MemType /\ ProcInv(p) /\ BreakShape(p) /\ AreaKept(p) /\ PagingTypeOK
  BY DEF MemInv, ProcInv, PagingInv, Shape
<1>1. /\ OutOfMemory(p) \/ MapRange(p)
      /\ SetRegion(p, r, sbrk[p] - size, size)
      /\ req' = [req EXCEPT ![p] = NoReq]
      /\ UNCHANGED <<vm_freerg_list, sbrk, dangling, beyond>>
  BY DEF PgAllocEnd
<1>2. /\ mpc[p] = "alloc" /\ mpc'[p] = "idle" /\ UNCHANGED npages
      /\ want[p] \in Nat /\ npages[p] \in Nat
  BY <1>0, <1>1 DEF OutOfMemory, MapRange, Goto, tables, PagingTypeOK
<1>3. Pending(p) /\ ~Pending(p)' /\ Break(p) = sbrk[p] - size /\ Break(p)' = sbrk'[p]
  BY <1>2 DEF Pending, Break
<1>4. r \in Rgid /\ size \in Size /\ size \in Nat \ {0} /\ ~dangling[p]
  BY <1>0, <1>3, MemoryAssumption DEF BreakShape
<1>5. PICK b \in Nat : b = Break(p) /\ sbrk[p] = b + size /\ sbrk[p] \in Nat
  <2>1. PICK e \in Nat, s \in Nat : e = sbrk[p] /\ s = size /\ s <= e
    BY <1>0, <1>3, <1>4 DEF BreakShape, MemType
  <2>2. e - s \in Nat /\ e = (e - s) + s
    BY <2>1
  <2> QED
    BY <1>3, <2>1, <2>2
<1> HIDE DEF r, size
<1>6. /\ symrgtbl' \in [Proc -> [Rgid -> NatRegion]]
      /\ symrgtbl'[p] = [symrgtbl[p] EXCEPT ![r] = [rg_start |-> b, rg_end |-> b + size]]
      /\ lost' \in [Proc -> SUBSET Nat] /\ lost'[p] = lost[p] \cup Bytes(symrgtbl[p][r])
      /\ wrote' \in [Proc -> [Rgid -> SUBSET Nat]] /\ wrote'[p] = [wrote[p] EXCEPT ![r] = {}]
      /\ \A q \in Proc : q # p => symrgtbl'[q] = symrgtbl[q] /\ lost'[q] = lost[q] /\ wrote'[q] = wrote[q]
  <2>1. SetRegion(p, r, b, size)
    BY <1>1, <1>3, <1>5
  <2> QED
    BY <1>0, <1>4, <2>1, SetRegionKept
<1>7. AreaInv(Rgid, symrgtbl'[p], vm_freerg_list[p], lost'[p], sbrk[p])
  <2>1. AreaInv(Rgid, symrgtbl[p], vm_freerg_list[p], lost[p], b)
    BY <1>0, <1>4, <1>5 DEF AreaKept
  <2>2. AreaInv(Rgid, symrgtbl'[p], vm_freerg_list[p], lost'[p], b + size)
    BY <1>4, <1>6, <2>1, BreakArea
  <2> QED
    BY <1>5, <2>2
<1>8. AreaShape(Rgid, symrgtbl'[p], vm_freerg_list[p], sbrk[p]) /\ UsedApart(Rgid, symrgtbl'[p])
  BY <1>7 DEF AreaInv, AreaApart
<1>9. /\ req' \in [Proc -> [rgid : Rgid \cup {None}, arg : Nat]]
      /\ \A q \in Proc : q # p => req'[q] = req[q]
  BY <1>0, <1>1 DEF MemType, NoReq
<1>10. /\ mapped' \in [Proc -> SUBSET Nat]
       /\ \A q \in Proc : q # p => mapped'[q] = mapped[q]
  <2>1. CASE UNCHANGED mapped
    BY <1>0, <2>1 DEF MemType
  <2>2. CASE mapped' = [mapped EXCEPT ![p] = @ \cup (npages[p] - want[p])..(npages[p] - 1)]
    <3>1. npages[p] - want[p] \in Nat
      BY DEF MemInv, PagingInv, Shape, AllocShape, PagingTypeOK
    <3>2. (npages[p] - want[p])..(npages[p] - 1) \subseteq Nat
      <4>1. PICK f \in Nat, m \in Nat : f = npages[p] - want[p] /\ m = npages[p]
        BY <1>2, <3>1
      <4>2. f..(m - 1) \subseteq Nat
        OBVIOUS
      <4> QED
        BY <4>1, <4>2
    <3> QED
      BY <1>0, <2>2, <3>2 DEF MemType
  <2> QED
    BY <2>1, <2>2 DEF PgAllocEnd
<1>11. MemType'
  BY <1>0, <1>1, <1>6, <1>9, <1>10 DEF MemType
<1>12. BreakShape(p)' /\ FaultOfAccess(p)'
  <2>1. npages'[p] = Pages(sbrk'[p])
    BY <1>0, <1>1, <1>2 DEF BreakShape
  <2> QED
    BY <1>2, <1>3, <2>1 DEF BreakShape, FaultOfAccess, Pages
<1>13. AreaKept(p)'
  BY <1>1, <1>3, <1>7, <1>8 DEF AreaKept
<1>14. WrittenThrough(p)'
  <2>1. WrittenThrough(p)
    BY <1>0 DEF ProcInv
  <2>2. \A s \in Rgid : s # r => symrgtbl'[p][s] = symrgtbl[p][s]
    BY <1>0, <1>6 DEF MemType
  <2>3. \A s \in Rgid : \A off \in wrote[p][s] :
               written'[p][PAGING_PGN(Address(p, s, off))][PAGING_OFFST(Address(p, s, off))]
                   = written[p][PAGING_PGN(Address(p, s, off))][PAGING_OFFST(Address(p, s, off))]
    <3>1. CASE OutOfMemory(p)
      BY <3>1 DEF OutOfMemory
    <3>2. CASE MapRange(p)
      BY <2>1, <3>2, MapRangeWritten
    <3> QED
      BY <1>1, <3>1, <3>2
  <2> QED
    BY <1>0, <1>1, <1>4, <1>6, <2>1, <2>2, <2>3, OtherIndices
<1>15. EmptyAtZero(p)'
  <2>1. PICK s \in Nat : s = size /\ s # 0 /\ b + s \in Nat /\ b # b + s
    BY <1>4
  <2>2. EmptyAtZero(p) /\ symrgtbl'[p] = [symrgtbl[p] EXCEPT ![r] = [rg_start |-> b, rg_end |-> b + s]]
    BY <1>0, <1>6, <2>1 DEF ProcInv
  <2> QED
    BY <1>0, <1>4, <2>1, <2>2, EmptyKept
<1> QED
  BY <1>1, <1>6, <1>9, <1>10, <1>11, <1>12, <1>13, <1>14, <1>15 DEF Kept, AreasOnly, ProcInv

\* pgfree_data()
LEMMA FreeKept ==
    ASSUME MemInv, NEW p \in Proc, NEW r \in Rgid, PgFree(p, r)
    PROVE  Kept(p)
<1> DEFINE L == vm_freerg_list[p]
<1>0. MemType /\ ProcInv(p) /\ BreakShape(p) /\ AreaKept(p)
  BY DEF MemInv, ProcInv
<1>1. /\ mpc[p] = "idle" /\ ~dangling[p]
      /\ \/ dangling' = [dangling EXCEPT ![p] = TRUE] /\ UNCHANGED vm_freerg_list
         \/ /\ vm_freerg_list' = [vm_freerg_list EXCEPT ![p] = Enlisted(@, symrgtbl[p][r])]
            /\ UNCHANGED dangling
      /\ symrgtbl' = [symrgtbl EXCEPT ![p][r] = NoRegion]
      /\ wrote' = [wrote EXCEPT ![p][r] = {}]
      /\ UNCHANGED <<vars, sbrk, req, mapped, lost, beyond>>
  BY DEF PgFree, Ready
<1>2. ~Pending(p) /\ Break(p) = sbrk[p]
  BY <1>1 DEF Pending, Break
<1>3. UNCHANGED <<sbrk, req, mapped, lost, beyond, mpc, npages, want, fault, written>>
  BY <1>1 DEF vars, tables, locals
<1>4. /\ symrgtbl' \in [Proc -> [Rgid -> NatRegion]]
      /\ symrgtbl'[p] = [symrgtbl[p] EXCEPT ![r] = NoRegion]
      /\ \A q \in Proc : q # p => symrgtbl'[q] = symrgtbl[q]
  <2>1. NoRegion \in NatRegion
    BY DEF NoRegion, NatRegion
  <2> QED
    BY <1>0, <1>1, <2>1 DEF MemType
<1>5. /\ wrote' \in [Proc -> [Rgid -> SUBSET Nat]] /\ wrote'[p] = [wrote[p] EXCEPT ![r] = {}]
      /\ \A q \in Proc : q # p => wrote'[q] = wrote[q]
  BY <1>0, <1>1 DEF MemType
<1>6. PICK sym, sym2, lo, brk : sym = symrgtbl[p] /\ sym2 = symrgtbl'[p] /\ lo = lost[p] /\ brk = sbrk[p]
  OBVIOUS
<1>7. sym2 = [sym EXCEPT ![r] = NoRegion] /\ AreaInv(Rgid, sym, L, lo, brk)
  BY <1>0, <1>1, <1>2, <1>4, <1>6 DEF AreaKept
<1>8. /\ AreaShape(Rgid, sym2, vm_freerg_list'[p], brk) /\ UsedApart(Rgid, sym2)
      /\ ~dangling'[p] => AreaInv(Rgid, sym2, vm_freerg_list'[p], lo, brk)
      /\ \A q \in Proc : q # p => dangling'[q] = dangling[q] /\ vm_freerg_list'[q] = vm_freerg_list[q]
      /\ dangling' \in [Proc -> BOOLEAN] /\ DOMAIN vm_freerg_list' = Proc
      /\ \A q \in Proc : vm_freerg_list'[q] \in Seq(NatRegion)
      /\ vm_freerg_list' = [q \in Proc |-> vm_freerg_list'[q]]
  <2>1. CASE dangling' = [dangling EXCEPT ![p] = TRUE] /\ UNCHANGED vm_freerg_list
    <3>1. AreaShape(Rgid, sym, L, brk) /\ UsedApart(Rgid, sym)
      BY <1>7 DEF AreaInv, AreaApart
    <3>2. AreaShape(Rgid, sym2, L, brk) /\ UsedApart(Rgid, sym2)
      BY <1>7, <3>1, AreaCleared
    <3>3. dangling'[p] = TRUE /\ dangling' \in [Proc -> BOOLEAN] /\ \A q \in Proc : q # p => dangling'[q] = dangling[q]
      BY <1>0, <2>1 DEF MemType
    <3> QED
      BY <1>0, <2>1, <3>2, <3>3 DEF MemType
  <2>2. CASE /\ vm_freerg_list' = [vm_freerg_list EXCEPT ![p] = Enlisted(@, symrgtbl[p][r])]
             /\ UNCHANGED dangling
    <3>1. vm_freerg_list'[p] = Enlisted(L, sym[r]) /\ \A q \in Proc : q # p => vm_freerg_list'[q] = vm_freerg_list[q]
      BY <1>0, <1>6, <2>2 DEF MemType
    <3>2. PICK l2 : l2 = vm_freerg_list'[p] /\ l2 = Enlisted(L, sym[r])
      BY <3>1
    <3>3. AreaInv(Rgid, sym2, l2, lo, brk)
      BY <1>7, <3>2, AreaFreed
    <3>4. AreaShape(Rgid, sym2, l2, brk) /\ UsedApart(Rgid, sym2) /\ l2 \in Seq(NatRegion)
      BY <3>3 DEF AreaInv, AreaApart, AreaShape
    <3> QED
      BY <1>0, <2>2, <3>1, <3>2, <3>3, <3>4 DEF MemType
  <2> QED
    BY <1>1, <2>1, <2>2
<1>9. MemType'
  <2>1. vm_freerg_list' \in [Proc -> Seq(NatRegion)]
    BY <1>8
  <2> QED
    BY <1>0, <1>3, <1>4, <1>5, <1>8, <2>1 DEF MemType
<1>10. BreakShape(p)' /\ FaultOfAccess(p)'
  <2>1. ~Pending(p)' /\ mpc'[p] = "idle"
    BY <1>1, <1>3 DEF Pending
  <2> QED
    BY <1>0, <1>3, <2>1 DEF BreakShape, FaultOfAccess, Pages
<1>11. AreaKept(p)'
  BY <1>2, <1>3, <1>6, <1>8 DEF AreaKept, Break, Pending
<1>12. WrittenThrough(p)'
  <2>1. WrittenThrough(p)
    BY <1>0 DEF ProcInv
  <2>2. \A s \in Rgid : s # r => symrgtbl'[p][s] = symrgtbl[p][s]
    BY <1>0, <1>4 DEF MemType
  <2> QED
    BY <1>0, <1>3, <1>5, <2>1, <2>2, OtherIndices
<1>13. EmptyAtZero(p)'
  BY <1>0, <1>4, EmptyKept DEF ProcInv, NoRegion
<1> QED
  BY <1>3, <1>4, <1>5, <1>8, <1>9, <1>10, <1>11, <1>12, <1>13 DEF Kept, AreasOnly, ProcInv

-----------------------------------------------------------------------------
(* READ and WRITE *)

\* One byte of the pages of a process changes, from w to w2.
OneByte(w, w2, n, o, v) ==
    /\ w2[n][o] = v
    /\ \A m \in Page, q \in Offset : m # n \/ q # o => w2[m][q] = w[m][q]

\* A WRITE changes one byte of the history.
LEMMA ByteWritten ==
    ASSUME NEW w \in [Page -> [Offset -> Value \cup {None}]], NEW n \in Page, NEW o \in Offset, NEW v,
           NEW w2, w2 = [w EXCEPT ![n][o] = v]
    PROVE  OneByte(w, w2, n, o, v)
<1>1. /\ w2[n] = [w[n] EXCEPT ![o] = v] /\ w[n] \in [Offset -> Value \cup {None}]
      /\ \A m \in Page : m # n => w2[m] = w[m]
  OBVIOUS
<1>2. w2[n][o] = v /\ \A q \in Offset : q # o => w2[n][q] = w[n][q]
  BY <1>1
<1> QED
  BY <1>1, <1>2 DEF OneByte

\* The byte behind region r is no byte of a region but the first: the byte
\* before it is one of r, or it is byte 0.
LEMMA BehindRegion ==
    ASSUME MemType, NEW p \in Proc, AreaKept(p), EmptyAtZero(p), NEW r \in Rgid, NEW s \in Rgid,
           NEW x \in Nat, x # 0, x < RegionSize(p, s)
    PROVE  Address(p, s, x) # Address(p, r, RegionSize(p, r))
<1>1. PICK a \in Nat, e \in Nat, c \in Nat, d \in Nat :
          /\ a = symrgtbl[p][r].rg_start /\ e = symrgtbl[p][r].rg_end /\ a <= e
          /\ c = symrgtbl[p][s].rg_start /\ d = symrgtbl[p][s].rg_end /\ c <= d
  <2>1. /\ symrgtbl[p][r].rg_start \in Nat /\ symrgtbl[p][r].rg_end \in Nat
        /\ symrgtbl[p][r].rg_start <= symrgtbl[p][r].rg_end
    BY AddressFacts
  <2>2. /\ symrgtbl[p][s].rg_start \in Nat /\ symrgtbl[p][s].rg_end \in Nat
        /\ symrgtbl[p][s].rg_start <= symrgtbl[p][s].rg_end
    BY AddressFacts
  <2> QED
    BY <2>1, <2>2
<1>2. /\ RegionSize(p, r) = e - a /\ RegionSize(p, s) = d - c
      /\ Address(p, r, RegionSize(p, r)) = a + (e - a) /\ Address(p, s, x) = c + x
      /\ Bytes(symrgtbl[p][r]) = a..(e - 1) /\ Bytes(symrgtbl[p][s]) = c..(d - 1)
  BY <1>1 DEF RegionSize, Address, Bytes
<1> SUFFICES ASSUME c + x = e PROVE FALSE
  BY <1>1, <1>2
<1>3. x < d - c
  BY <1>2
<1>4. r # s
  <2>1. c + x < d
    BY <1>3
  <2> QED
    BY <1>1, <2>1
<1>5. a < e
  <2>1. e - a = 0 => a = 0
    BY <1>1, <1>2 DEF EmptyAtZero
  <2> QED
    BY <1>1, <2>1
<1>6. e - 1 \in a..(e - 1) /\ e - 1 \in c..(d - 1)
  BY <1>3, <1>5
<1> QED
  BY <1>2, <1>4, <1>6 DEF AreaKept, UsedApart

\* A WRITE through r changes no byte that was written through another index, but
\* for the first byte of a region.
LEMMA WroteKept ==
    ASSUME MemType, PagingTypeOK, NEW p \in Proc, AreaKept(p), WrittenThrough(p), EmptyAtZero(p),
           \A s \in Rgid : \A x \in Nat : x < RegionSize(p, s) => PAGING_PGN(Address(p, s, x)) \in Page,
           NEW r \in Rgid, NEW off \in Nat, NEW v \in {None, r}, NEW f,
           Passes(p, r, off), PAGING_PGN(Address(p, r, off)) \in Page,
           Touch(p, PAGING_PGN(Address(p, r, off)), PAGING_OFFST(Address(p, r, off)), f, v),
           Wrote(p, r, off, v), UNCHANGED symrgtbl
    PROVE  /\ wrote' \in [Proc -> [Rgid -> SUBSET Nat]] /\ beyond' \in BOOLEAN /\ (beyond => beyond')
           /\ \A q \in Proc : q # p => wrote'[q] = wrote[q]
           /\ WrittenThrough(p)'
<1>1. wrote \in [Proc -> [Rgid -> SUBSET Nat]] /\ beyond \in BOOLEAN /\ r # None
  BY MemoryAssumption, PagingAssumption DEF MemType
<1>2. CASE v = None
  <2>1. UNCHANGED <<wrote, beyond, written, symrgtbl>>
    BY <1>2 DEF Touch, Wrote
  <2>2. WrittenThrough(p) => WrittenThrough(p)'
    BY <2>1 DEF WrittenThrough, RegionSize, Address, PAGING_PGN, PAGING_OFFST
  <2> QED
    BY <1>1, <2>1, <2>2
<1>3. ASSUME v = r
      PROVE  \E n \in Page, o \in Offset :
               /\ n = PAGING_PGN(Address(p, r, off)) /\ o = PAGING_OFFST(Address(p, r, off))
               /\ written'[p][n][o] = r
               /\ \A m \in Page, q \in Offset : m # n \/ q # o => written'[p][m][q] = written[p][m][q]
  <2>1. PICK n \in Page, o \in Offset :
           /\ n = PAGING_PGN(Address(p, r, off)) /\ o = PAGING_OFFST(Address(p, r, off))
           /\ written' = [written EXCEPT ![p][n][o] = r]
    BY <1>1, <1>3, AddressFacts DEF Touch
  <2>2. written'[p] = [written[p] EXCEPT ![n][o] = r] /\ written[p] \in [Page -> [Offset -> Value \cup {None}]]
    BY <2>1 DEF PagingTypeOK
  <2>3. PICK w, w2 : w = written[p] /\ w2 = written'[p]
    OBVIOUS
  <2>4. OneByte(w, w2, n, o, r)
    BY <2>2, <2>3, ByteWritten
  <2> QED
    BY <2>1, <2>3, <2>4 DEF OneByte
<1>4. ASSUME NEW s \in Rgid, NEW x \in wrote[p][s]
      PROVE  /\ x \in Nat /\ x < RegionSize(p, s)
             /\ (x = 0 => ~beyond) => written[p][PAGING_PGN(Address(p, s, x))][PAGING_OFFST(Address(p, s, x))] = s
             /\ PAGING_PGN(Address(p, s, x)) \in Page /\ PAGING_OFFST(Address(p, s, x)) \in Offset
             /\ Address(p, s, x) \in Nat /\ Address(p, s, x) \in Bytes(symrgtbl[p][s])
  <2>1. x \in Nat
    BY <1>1
  <2>2. /\ x < RegionSize(p, s)
        /\ (x = 0 => ~beyond) => written[p][PAGING_PGN(Address(p, s, x))][PAGING_OFFST(Address(p, s, x))] = s
    BY DEF WrittenThrough
  <2> QED
    BY <2>1, <2>2, AddressFacts
<1>5. RegionSize(p, r) \in Nat /\ Address(p, r, off) \in Nat
  BY AddressFacts
<1>6. CASE v = r /\ off >= RegionSize(p, r)
  <2>1. off = RegionSize(p, r) /\ ~(off < RegionSize(p, r))
    BY <1>5, <1>6 DEF Passes
  <2>2. beyond' = TRUE /\ UNCHANGED wrote
    BY <1>1, <1>6, <2>1 DEF Wrote
  <2>3. ASSUME NEW s \in Rgid, NEW x \in wrote[p][s]
        PROVE  /\ x < RegionSize(p, s)
               /\ x # 0 => written'[p][PAGING_PGN(Address(p, s, x))][PAGING_OFFST(Address(p, s, x))] = s
    <3> SUFFICES ASSUME x # 0
                 PROVE  written'[p][PAGING_PGN(Address(p, s, x))][PAGING_OFFST(Address(p, s, x))] = s
      BY <1>4
    <3>1. x \in Nat /\ x < RegionSize(p, s) /\ Address(p, s, x) \in Nat
      BY <1>4
    <3>2. Address(p, s, x) # Address(p, r, off)
      BY <2>1, <3>1, BehindRegion
    <3>3. \/ PAGING_PGN(Address(p, s, x)) # PAGING_PGN(Address(p, r, off))
          \/ PAGING_OFFST(Address(p, s, x)) # PAGING_OFFST(Address(p, r, off))
      BY <1>5, <3>1, <3>2, SameByte
    <3>4. /\ written[p][PAGING_PGN(Address(p, s, x))][PAGING_OFFST(Address(p, s, x))] = s
          /\ PAGING_PGN(Address(p, s, x)) \in Page /\ PAGING_OFFST(Address(p, s, x)) \in Offset
      BY <1>4
    <3>5. PICK n \in Page, o \in Offset :
             /\ n = PAGING_PGN(Address(p, r, off)) /\ o = PAGING_OFFST(Address(p, r, off))
             /\ written'[p][n][o] = r
             /\ \A m \in Page, q \in Offset : m # n \/ q # o => written'[p][m][q] = written[p][m][q]
      BY <1>3, <1>6
    <3> QED
      BY <3>3, <3>4, <3>5
  <2>4. WrittenThrough(p)'
    BY <2>2, <2>3 DEF WrittenThrough, RegionSize, Address, PAGING_PGN, PAGING_OFFST
  <2> QED
    BY <1>1, <2>2, <2>4
<1>7. CASE v = r /\ off < RegionSize(p, r)
  <2>1. ~(off >= RegionSize(p, r))
    BY <1>5, <1>7
  <2>2. wrote' = [wrote EXCEPT ![p][r] = @ \cup {off}] /\ UNCHANGED beyond
    BY <1>1, <1>7, <2>1 DEF Wrote
  <2>3. /\ wrote' \in [Proc -> [Rgid -> SUBSET Nat]]
        /\ \A q \in Proc : q # p => wrote'[q] = wrote[q]
        /\ wrote'[p][r] = wrote[p][r] \cup {off}
        /\ \A s \in Rgid : s # r => wrote'[p][s] = wrote[p][s]
    BY <1>1, <2>2
  <2>4. PICK n \in Page, o \in Offset :
           /\ n = PAGING_PGN(Address(p, r, off)) /\ o = PAGING_OFFST(Address(p, r, off))
           /\ written'[p][n][o] = r
           /\ \A m \in Page, q \in Offset : m # n \/ q # o => written'[p][m][q] = written[p][m][q]
    BY <1>3, <1>7
  <2>5. ASSUME NEW s \in Rgid, NEW x \in wrote'[p][s]
        PROVE  /\ x < RegionSize(p, s)
               /\ (x = 0 => ~beyond) =>
                     written'[p][PAGING_PGN(Address(p, s, x))][PAGING_OFFST(Address(p, s, x))] = s
    <3>1. CASE s = r /\ x = off
      BY <1>7, <2>4, <3>1
    <3>2. CASE x \in wrote[p][s]
      <4> SUFFICES ASSUME x = 0 => ~beyond
                   PROVE  written'[p][PAGING_PGN(Address(p, s, x))][PAGING_OFFST(Address(p, s, x))] = s
        BY <1>4, <3>2
      <4>1. /\ written[p][PAGING_PGN(Address(p, s, x))][PAGING_OFFST(Address(p, s, x))] = s
            /\ PAGING_PGN(Address(p, s, x)) \in Page /\ PAGING_OFFST(Address(p, s, x)) \in Offset
            /\ Address(p, s, x) \in Nat /\ Address(p, s, x) \in Bytes(symrgtbl[p][s])
        BY <1>4, <3>2
      <4>2. Address(p, r, off) \in Bytes(symrgtbl[p][r])
        BY <1>7, AddressFacts
      <4>3. CASE s = r
        <5>1. CASE PAGING_PGN(Address(p, s, x)) = n /\ PAGING_OFFST(Address(p, s, x)) = o
          BY <2>4, <4>3, <5>1
        <5>2. CASE ~(PAGING_PGN(Address(p, s, x)) = n /\ PAGING_OFFST(Address(p, s, x)) = o)
          BY <2>4, <4>1, <5>2
        <5> QED
          BY <5>1, <5>2
      <4>4. CASE s # r
        <5>1. Address(p, s, x) # Address(p, r, off)
          BY <4>1, <4>2, <4>4 DEF AreaKept, UsedApart
        <5>2. PAGING_PGN(Address(p, s, x)) # n \/ PAGING_OFFST(Address(p, s, x)) # o
          BY <1>5, <2>4, <4>1, <5>1, SameByte
        <5> QED
          BY <2>4, <4>1, <5>2
      <4> QED
        BY <4>3, <4>4
    <3> QED
      BY <2>3, <3>1, <3>2
  <2>6. WrittenThrough(p)'
    BY <2>2, <2>5 DEF WrittenThrough, RegionSize, Address, PAGING_PGN, PAGING_OFFST
  <2> QED
    BY <1>1, <2>2, <2>3, <2>6
<1>8. off < RegionSize(p, r) \/ off >= RegionSize(p, r)
  BY <1>5
<1> QED
  BY <1>2, <1>6, <1>7, <1>8

\* The addresses of a region, and the byte behind it, are in pages that exist.
LEMMA AddressPage ==
    ASSUME MemType, PagingTypeOK, NEW p \in Proc, BreakShape(p), AreaKept(p), ~Pending(p),
           NEW s \in Rgid, NEW x \in Nat, Passes(p, s, x)
    PROVE  PAGING_PGN(Address(p, s, x)) \in Page
<1>1. npages[p] \in Nat /\ npages[p] <= MaxPages /\ MaxPages \in Nat
  BY PagingAssumption DEF PagingTypeOK
<1>2. Reach(p) \subseteq Page
  BY <1>1 DEF Reach, Page
<1> QED
  BY <1>2, PassesInReach

\* What an access that reaches the memory keeps.
LEMMA TouchKept ==
    ASSUME MemInv, NEW p \in Proc, NEW r \in Rgid, NEW off \in Nat, NEW v \in {None, r}, NEW f,
           ~Pending(p), Passes(p, r, off),
           Touch(p, PAGING_PGN(Address(p, r, off)), PAGING_OFFST(Address(p, r, off)), f, v),
           Wrote(p, r, off, v), mpc'[p] = "idle",
           req' \in [Proc -> [rgid : Rgid \cup {None}, arg : Nat]],
           \A q \in Proc : q # p => req'[q] = req[q],
           UNCHANGED <<npages, want, symrgtbl, vm_freerg_list, sbrk, dangling, mapped, lost>>
    PROVE  Kept(p)
<1>0. MemType /\ ProcInv(p) /\ BreakShape(p) /\ AreaKept(p) /\ PagingTypeOK
  BY DEF MemInv, ProcInv, PagingInv, Shape
<1>1. ASSUME NEW s \in Rgid, NEW x \in Nat, x < RegionSize(p, s) PROVE PAGING_PGN(Address(p, s, x)) \in Page
  <2>1. RegionSize(p, s) \in Nat
    BY <1>0, AddressFacts
  <2>2. Passes(p, s, x)
    BY <1>1, <2>1 DEF Passes
  <2> QED
    BY <1>0, <2>2, AddressPage
<1>2. PAGING_PGN(Address(p, r, off)) \in Page
  BY <1>0, AddressPage
<1>3. WrittenThrough(p) /\ EmptyAtZero(p)
  BY <1>0 DEF ProcInv
<1>4. /\ wrote' \in [Proc -> [Rgid -> SUBSET Nat]] /\ beyond' \in BOOLEAN /\ (beyond => beyond')
      /\ \A q \in Proc : q # p => wrote'[q] = wrote[q]
      /\ WrittenThrough(p)'
  BY <1>0, <1>1, <1>2, <1>3, WroteKept
<1>5. MemType'
  BY <1>0, <1>4 DEF MemType
<1>6. BreakShape(p)' /\ FaultOfAccess(p)'
  BY <1>0 DEF BreakShape, FaultOfAccess, Pages, Pending
<1>7. AreaKept(p)'
  BY <1>0 DEF AreaKept, Break, Pending
<1>8. EmptyAtZero(p)'
  BY <1>3 DEF EmptyAtZero, RegionSize
<1> QED
  BY <1>4, <1>5, <1>6, <1>7, <1>8 DEF Kept, AreasOnly, ProcInv

\* READ or WRITE of a page in RAM.
LEMMA HitKept ==
    ASSUME MemInv, NEW p \in Proc, NEW r \in Rgid, NEW off \in Offsets, NEW v \in {r, None}, PgHit(p, r, off, v)
    PROVE  Kept(p)
<1> DEFINE n == PAGING_PGN(Address(p, r, off))
           o == PAGING_OFFST(Address(p, r, off))
<1>1. Passes(p, r, off) /\ Hit(p, n, o, v) /\ Wrote(p, r, off, v) /\ UNCHANGED <<areas, mapped, lost>>
  BY DEF PgHit
<1>2. mpc[p] = "idle" /\ Touch(p, n, o, Fpn(pgd[p][n]), v) /\ UNCHANGED <<npages, mpc, want>>
  BY <1>1 DEF Hit, tables, locals
<1>3. UNCHANGED <<symrgtbl, vm_freerg_list, sbrk, req, dangling, mapped, lost>>
  BY <1>1 DEF areas
<1>4. ~Pending(p) /\ off \in Nat /\ v \in {None, r}
  BY <1>2, MemoryAssumption DEF Pending
<1>5. req' \in [Proc -> [rgid : Rgid \cup {None}, arg : Nat]]
  BY <1>3 DEF MemInv, MemType
<1> HIDE DEF n, o
<1>6. PICK f : f = Fpn(pgd[p][n])
  OBVIOUS
<1>7. Touch(p, PAGING_PGN(Address(p, r, off)), PAGING_OFFST(Address(p, r, off)), f, v) /\ mpc'[p] = "idle"
  BY <1>2, <1>6 DEF n, o
<1> QED
  BY <1>1, <1>2, <1>3, <1>4, <1>5, <1>7, TouchKept

\* The access behind a page fault, on the region that was checked before it.
LEMMA FinishKept ==
    ASSUME MemInv, NEW p \in Proc, PgFinish(p)
    PROVE  Kept(p)
<1>0. MemType /\ PagingTypeOK /\ FaultOfAccess(p)
  BY DEF MemInv, ProcInv, PagingInv, Shape
<1>1. /\ Finish(p) /\ Wrote(p, req[p].rgid, req[p].arg, fault[p].data)
      /\ req' = [req EXCEPT ![p] = NoReq]
      /\ UNCHANGED <<symrgtbl, vm_freerg_list, sbrk, dangling, mapped, lost>>
  BY DEF PgFinish
<1>2. /\ mpc[p] = "access" /\ mpc'[p] = "idle" /\ UNCHANGED <<npages, want>>
      /\ Touch(p, fault[p].pgn, fault[p].off, fault[p].fpn, fault[p].data)
  BY <1>0, <1>1 DEF Finish, Goto, tables, locals, PagingTypeOK
<1>3. ~Pending(p)
  BY <1>2 DEF Pending
<1>4. PICK r, off, v, f :
         /\ r \in Rgid /\ off \in Nat /\ v \in {None, r}
         /\ r = req[p].rgid /\ off = req[p].arg /\ v = fault[p].data /\ f = fault[p].fpn
         /\ Passes(p, r, off)
         /\ Touch(p, PAGING_PGN(Address(p, r, off)), PAGING_OFFST(Address(p, r, off)), f, v)
  <2>1. req[p].rgid \in Rgid /\ req[p].arg \in Nat /\ fault[p].data \in {None, req[p].rgid}
    BY <1>0, <1>2 DEF FaultOfAccess, MemType
  <2>2. /\ Passes(p, req[p].rgid, req[p].arg)
        /\ Touch(p, PAGING_PGN(Address(p, req[p].rgid, req[p].arg)),
                 PAGING_OFFST(Address(p, req[p].rgid, req[p].arg)), fault[p].fpn, fault[p].data)
    BY <1>0, <1>2 DEF FaultOfAccess
  <2> QED
    BY <2>1, <2>2
<1>5. /\ req' \in [Proc -> [rgid : Rgid \cup {None}, arg : Nat]]
      /\ \A q \in Proc : q # p => req'[q] = req[q]
  BY <1>0, <1>1 DEF MemType, NoReq
<1>6. /\ r \in Rgid /\ off \in Nat /\ v \in {None, r}
      /\ Wrote(p, r, off, v) /\ Passes(p, r, off)
      /\ Touch(p, PAGING_PGN(Address(p, r, off)), PAGING_OFFST(Address(p, r, off)), f, v)
  BY <1>1, <1>4
<1> QED
  BY <1>1, <1>2, <1>3, <1>5, <1>6, TouchKept

\* READ or WRITE that begins a page fault.
LEMMA MissKept ==
    ASSUME MemInv, NEW p \in Proc, NEW r \in Rgid, NEW off \in Offsets, NEW v \in {r, None}, PgMiss(p, r, off, v)
    PROVE  Kept(p)
<1>0. MemType /\ PagingTypeOK /\ ProcInv(p) /\ BreakShape(p) /\ AreaKept(p) /\ off \in Nat
  BY MemoryAssumption DEF MemInv, ProcInv, PagingInv, Shape
<1>1. /\ Passes(p, r, off)
      /\ req' = [req EXCEPT ![p] = [rgid |-> r, arg |-> off]]
      /\ UNCHANGED <<symrgtbl, vm_freerg_list, sbrk, dangling, histories>>
  BY DEF PgMiss
<1>2. PICK vic \in Page : Miss(p, PAGING_PGN(Address(p, r, off)), PAGING_OFFST(Address(p, r, off)), v, vic)
  BY DEF PgMiss
<1>3. /\ mpc[p] = "idle" /\ mpc'[p] = "out" /\ UNCHANGED <<npages, want, written>>
      /\ fault'[p].pgn = PAGING_PGN(Address(p, r, off)) /\ fault'[p].off = PAGING_OFFST(Address(p, r, off))
      /\ fault'[p].data = v
  BY <1>0, <1>2 DEF Miss, Goto, tables, locals, PagingTypeOK
<1>4. /\ req' \in [Proc -> [rgid : Rgid \cup {None}, arg : Nat]]
      /\ \A q \in Proc : q # p => req'[q] = req[q]
      /\ req'[p].rgid = r /\ req'[p].arg = off
  BY <1>0, <1>1 DEF MemType
<1>5. UNCHANGED <<symrgtbl, vm_freerg_list, sbrk, dangling, mapped, lost, wrote, beyond>>
  BY <1>1 DEF histories
<1>6. MemType'
  BY <1>0, <1>4, <1>5 DEF MemType
<1>7. BreakShape(p)' /\ AreaKept(p)'
  BY <1>0, <1>3, <1>5 DEF BreakShape, AreaKept, Break, Pending, Pages
<1>8. FaultOfAccess(p)'
  BY <1>1, <1>3, <1>4, <1>5 DEF FaultOfAccess, Passes, RegionSize, Address, PAGING_PGN, PAGING_OFFST
<1>9. /\ WrittenThrough(p) => WrittenThrough(p)'
      /\ EmptyAtZero(p) => EmptyAtZero(p)'
  BY <1>3, <1>5 DEF WrittenThrough, EmptyAtZero, RegionSize, Address, PAGING_PGN, PAGING_OFFST
<1> QED
  BY <1>0, <1>4, <1>5, <1>6, <1>7, <1>8, <1>9 DEF Kept, AreasOnly, ProcInv

\* Steps that leave the areas and their histories alone.
LEMMA PagingKept ==
    ASSUME MemInv, NEW p \in Proc, UNCHANGED <<areas, histories>>,
           \/ GetRamFrame(p) \/ GetSwpFrame(p) \/ SwapOut(p) \/ SwapIn(p) \/ UNCHANGED vars
           \/ \E n, vic \in Page : MissOutside(p, n, vic)
    PROVE  Kept(p)
<1>0. MemType /\ PagingTypeOK /\ ProcInv(p)
  BY DEF MemInv, PagingInv, Shape
<1>1. UNCHANGED <<symrgtbl, vm_freerg_list, sbrk, req, dangling, mapped, lost, wrote, beyond>>
  BY DEF areas, histories
<1>2. MemType' /\ AreasOnly(p)
  BY <1>0, <1>1 DEF MemType, AreasOnly
<1>3. CASE GetRamFrame(p) \/ GetSwpFrame(p) \/ UNCHANGED vars \/ \E n, vic \in Page : MissOutside(p, n, vic)
  <2>1. UNCHANGED <<mpc, npages, want, fault, written>>
    BY <1>3 DEF GetRamFrame, GetSwpFrame, MissOutside, vars, tables, locals
  <2> QED
    BY <1>0, <1>1, <1>2, <2>1, SlotsKept DEF Slots, Kept
<1>4. CASE SwapOut(p) \/ SwapIn(p)
  <2>1. UNCHANGED <<npages, want, fault, written>>
    BY <1>4 DEF SwapOut, SwapIn, tables, locals
  <2>2. mpc[p] \in {"out", "in"} /\ mpc'[p] \in {"in", "access"}
    BY <1>0, <1>4 DEF SwapOut, SwapIn, Goto, PagingTypeOK
  <2>3. /\ BreakShape(p) => BreakShape(p)'
        /\ AreaKept(p) => AreaKept(p)'
    BY <1>1, <2>1, <2>2 DEF BreakShape, AreaKept, Break, Pending
  <2>4. /\ FaultOfAccess(p) => FaultOfAccess(p)'
        /\ WrittenThrough(p) => WrittenThrough(p)'
        /\ EmptyAtZero(p) => EmptyAtZero(p)'
    BY <1>1, <2>1, <2>2 DEF FaultOfAccess, WrittenThrough, EmptyAtZero, Passes, RegionSize, Address, PAGING_PGN, PAGING_OFFST
  <2> QED
    BY <1>0, <1>1, <1>2, <2>3, <2>4 DEF ProcInv, Kept
<1> QED
  BY <1>3, <1>4

-----------------------------------------------------------------------------
(* The invariant holds *)

\* The invariant holds before the first instruction.
LEMMA MemInvInit == MemInit => MemInv
<1> SUFFICES ASSUME MemInit PROVE MemInv
  OBVIOUS
<1>1. PagingInv
  BY PagingInvInit DEF MemInit
<1>2. MemType
  <2>1. NoRegion \in NatRegion /\ <<>> \in Seq(NatRegion)
    BY DEF NoRegion, NatRegion
  <2>2. NoReq \in [rgid : Rgid \cup {None}, arg : Nat]
    BY DEF NoReq
  <2>3. [r \in Rgid |-> NoRegion] \in [Rgid -> NatRegion]
    BY <2>1
  <2>4. /\ symrgtbl \in [Proc -> [Rgid -> NatRegion]]
        /\ vm_freerg_list \in [Proc -> Seq(NatRegion)]
        /\ req \in [Proc -> [rgid : Rgid \cup {None}, arg : Nat]]
    BY <2>1, <2>2, <2>3 DEF MemInit
  <2> QED
    BY <2>4 DEF MemInit, MemType
<1>3. ASSUME NEW p \in Proc PROVE ProcInv(p)
  <2>1. mpc[p] = "idle" /\ npages[p] = 0 /\ want[p] = 0
    BY DEF MemInit, Init
  <2>2. ~Pending(p) /\ Break(p) = 0 /\ sbrk[p] = 0
    BY <2>1 DEF Pending, Break, MemInit
  <2>3. Pages(0) = 0
    BY PagesUpTo, UpToZero, PagingAssumption
  <2>4. BreakShape(p) /\ FaultOfAccess(p)
    BY <2>1, <2>2, <2>3 DEF BreakShape, FaultOfAccess
  <2>5. symrgtbl[p] = [r \in Rgid |-> NoRegion] /\ vm_freerg_list[p] = <<>> /\ lost[p] = {}
    BY DEF MemInit
  <2>6. AreaInv(Rgid, symrgtbl[p], vm_freerg_list[p], lost[p], 0)
    BY <2>5, AreaNew
  <2>7. AreaKept(p)
    BY <2>2, <2>6 DEF AreaKept, AreaInv, AreaApart
  <2>8. WrittenThrough(p)
    BY DEF WrittenThrough, MemInit
  <2>9. EmptyAtZero(p)
    BY <2>5 DEF EmptyAtZero, NoRegion
  <2> QED
    BY <2>4, <2>7, <2>8, <2>9 DEF ProcInv
<1> QED
  BY <1>1, <1>2, <1>3 DEF MemInv

\* An instruction keeps the invariant of its process,
LEMMA InstructionKept ==
    ASSUME MemInv, NEW p \in Proc, NEW r \in Rgid, Instruction(p, r)
    PROVE  Kept(p)
<1>1. ASSUME NEW off \in Offsets, PgMissOutside(p, r, off) PROVE Kept(p)
  <2>1. PICK vic \in Page : MissOutside(p, PAGING_PGN(Address(p, r, off)), vic)
    BY <1>1 DEF PgMissOutside
  <2>2. UNCHANGED <<areas, histories>>
    BY <1>1 DEF PgMissOutside
  <2>3. PAGING_PGN(Address(p, r, off)) \in Page
    <3>1. MemType /\ PagingTypeOK /\ BreakShape(p) /\ AreaKept(p)
      BY DEF MemInv, ProcInv, PagingInv, Shape
    <3>2. ~Pending(p) /\ off \in Nat /\ Passes(p, r, off)
      BY <1>1, <2>1, MemoryAssumption DEF MissOutside, Pending, PgMissOutside
    <3> QED
      BY <3>1, <3>2, AddressPage
  <2> QED
    BY <2>1, <2>2, <2>3, PagingKept
<1>2. ASSUME NEW off \in Offsets, PgNothing(p, r, off) PROVE Kept(p)
  <2>1. UNCHANGED vars /\ UNCHANGED <<areas, histories>>
    BY <1>2 DEF PgNothing, memvars
  <2> QED
    BY <2>1, PagingKept
<1> QED
  BY <1>1, <1>2, AllocFreeKept, AllocInPageKept, AllocGrowKept, FreeKept, HitKept, MissKept DEF Instruction

\* and so does each of its later steps.
LEMMA ContinueKept ==
    ASSUME MemInv, NEW p \in Proc, Continue(p)
    PROVE  Kept(p)
  BY PagingKept, AllocEndKept, FinishKept DEF Continue

\* Every step of every process keeps the invariant.
LEMMA MemInvStep == MemInv /\ [MemNext]_memvars => MemInv'
<1> SUFFICES ASSUME MemInv, [MemNext]_memvars PROVE MemInv'
  OBVIOUS
<1>1. PagingInv'
  BY MemStepPaging, PagingInvStep DEF MemInv
<1>2. CASE UNCHANGED <<vars, areas, histories>>
  <2>1. UNCHANGED <<symrgtbl, vm_freerg_list, sbrk, req, dangling, mapped, lost, wrote, beyond>>
    BY <1>2 DEF areas, histories
  <2>2. UNCHANGED <<mpc, npages, want, fault, written>>
    BY <1>2 DEF vars, tables, locals
  <2>3. MemType'
    BY <2>1 DEF MemInv, MemType
  <2>4. \A p \in Proc : ProcInv(p)'
    BY <2>1, <2>2, SlotsKept DEF MemInv, Slots
  <2> QED
    BY <1>1, <2>3, <2>4 DEF MemInv
<1>3. ASSUME NEW p \in Proc, Continue(p) \/ \E r \in Rgid : Instruction(p, r) PROVE MemInv'
  <2>1. Kept(p)
    BY <1>3, InstructionKept, ContinueKept
  <2>2. PagingTypeOK /\ \A q \in Proc : ProcInv(q)
    BY DEF MemInv, PagingInv, Shape
  <2>3. Alloc(p) \/ Access(p) \/ UNCHANGED vars
    BY <1>3, InstructionPaging, ContinuePaging
  <2>4. PagingOnly(p)
    BY <2>2, <2>3, PagingOthers
  <2>5. MemType' /\ AreasOnly(p) /\ (beyond => beyond') /\ ProcInv(p)'
    BY <2>1 DEF Kept
  <2>6. \A q \in Proc : ProcInv(q)'
    BY <2>2, <2>4, <2>5, OthersKept
  <2> QED
    BY <1>1, <2>5, <2>6 DEF MemInv
<1> QED
  BY <1>2, <1>3 DEF MemNext, Undefined, memvars

\* The areas of all processes, their page faults and what was written through
\* their indices fit together after every step of every process.
THEOREM MemInvariant == MemSpec => []MemInv
  BY MemInvInit, MemInvStep, PTL DEF MemSpec

-----------------------------------------------------------------------------
(* What the runs check *)

\* The processes and their memory instructions take the steps that module Paging
\* allows, so all that is proved there holds here: the page and the byte that an
\* index and an offset lead to are always among those of Paging.
THEOREM MemoryImplementsPaging == MemSpec => Spec
<1>1. MemInit => Init
  BY DEF MemInit
<1>2. MemInv /\ [MemNext]_memvars => [Next]_vars
  BY MemStepPaging
<1> QED
  BY <1>1, <1>2, MemInvariant, PTL DEF MemSpec, Spec

\* Every READ and WRITE that passes the test of pgread() and pgwrite() reaches a
\* page of its process or the one behind them.
THEOREM AccessesInReach == MemSpec => []AccessInReach
<1>1. MemInv => AccessInReach
  <2> SUFFICES ASSUME MemInv, NEW p \in Proc, NEW r \in Rgid, NEW off \in Offsets,
                      mpc[p] = "idle", Passes(p, r, off)
               PROVE  PAGING_PGN(Address(p, r, off)) \in Reach(p)
    BY DEF AccessInReach
  <2>1. MemType /\ BreakShape(p) /\ AreaKept(p) /\ ~Pending(p) /\ off \in Nat
    BY MemoryAssumption DEF MemInv, ProcInv, Pending
  <2> QED
    BY <2>1, PassesInReach
<1> QED
  BY <1>1, MemInvariant, PTL

\* A byte of a region is in a page of its process.
LEMMA BytePage ==
    ASSUME MemType, PagingTypeOK, NEW p \in Proc, BreakShape(p), AreaKept(p),
           NEW r \in Rgid, NEW off \in Nat, off < RegionSize(p, r)
    PROVE  PAGING_PGN(Address(p, r, off)) \in Page /\ PAGING_OFFST(Address(p, r, off)) \in Offset
<1>1. PICK a \in Nat, b \in Nat : a = Address(p, r, off) /\ b = Break(p) /\ a < b
  <2>1. Address(p, r, off) \in Nat /\ Break(p) \in Nat /\ Address(p, r, off) \in 0..(Break(p) - 1)
    BY AddressFacts
  <2> QED
    BY <2>1
<1>2. PICK k \in Nat : k = UpTo(b, PAGING_PAGESZ) /\ k = Pages(Break(p))
  BY <1>1, UpToBounds, PagesUpTo, PagingAssumption
<1>3. PAGING_PGN(a) \in 0..(k - 1)
  BY <1>1, <1>2, UpToPage, PagingAssumption DEF PAGING_PGN
<1>4. PICK n \in Nat, w \in Nat : n = npages[p] /\ w = want[p] /\ n <= MaxPages /\ MaxPages \in Nat
  BY PagingAssumption DEF PagingTypeOK
<1>5. k = n \/ k = n - w
  BY <1>2, <1>4 DEF BreakShape, Break
<1>6. PAGING_PGN(a) \in 0..MaxPages
  BY <1>3, <1>4, <1>5
<1> QED
  BY <1>1, <1>6, AddressFacts DEF Page

\* A byte that was written through an index holds it, unless it is the first of
\* its region and some WRITE went behind its own.
LEMMA ByteHolds ==
    ASSUME MemInv, ~stray, ~wild, NEW p \in Proc, NEW r \in Rgid, NEW off \in wrote[p][r],
           off = 0 => ~beyond
    PROVE  AsWritten(p, r, off)
<1>1. /\ MemType /\ PagingTypeOK /\ BreakShape(p) /\ AreaKept(p) /\ WrittenThrough(p)
      /\ DataKept /\ off \in Nat
  BY DEF MemInv, ProcInv, PagingInv, Shape, MemType
<1>2. PICK n, o : n = PAGING_PGN(Address(p, r, off)) /\ o = PAGING_OFFST(Address(p, r, off))
  OBVIOUS
<1>3. off < RegionSize(p, r) /\ written[p][n][o] = r
  BY <1>1, <1>2 DEF WrittenThrough
<1>4. n \in Page /\ o \in Offset
  BY <1>1, <1>2, <1>3, BytePage
<1>5. r # None
  BY MemoryAssumption, PagingAssumption
<1>6. Contents(p, n)[o] = Datum(p, n, r)
  BY <1>1, <1>3, <1>4, <1>5 DEF DataKept
<1> QED
  BY <1>2, <1>6 DEF AsWritten, Stored

\* What was written through an index is what is stored in its region: no other
\* region, no other process and no exchange with swap changes it, until one of
\* the three defects that RegionsHold names.
THEOREM RegionsAlwaysHold == MemSpec => []RegionsHold
<1>1. MemInv => RegionsHold
  BY ByteHolds DEF RegionsHold
<1> QED
  BY <1>1, MemInvariant, PTL

\* A WRITE at the offset behind its region, which pgwrite() lets through, harms
\* no byte of a region of its process but the first.
THEOREM FirstByteTheorem == MemSpec => []FirstByteHarmed
<1>1. MemInv => FirstByteHarmed
  BY ByteHolds DEF FirstByteHarmed
<1> QED
  BY <1>1, MemInvariant, PTL

-----------------------------------------------------------------------------
(* Every step is a step of Region, for the area of each process *)

\* Region has the free list of this module.
LEMMA AreaFreeList ==
    ASSUME NEW q
    PROVE  /\ \A rg : Area(q)!Bytes(rg) = Bytes(rg)
           /\ Area(q)!NoRegion = NoRegion
           /\ \A list, size : Area(q)!Fits(list, size) = Fits(list, size)
           /\ \A S : Area(q)!First(S) = First(S)
           /\ \A list, i, size : Area(q)!Taken(list, i, size) = Taken(list, i, size)
           /\ \A list, rg : Area(q)!Dangles(list, rg) = Dangles(list, rg)
           /\ \A list, rg : Area(q)!Enlisted(list, rg) = Enlisted(list, rg)
<1>1. \A rg : Area(q)!Bytes(rg) = Bytes(rg)
  BY DEF Area!Bytes, Bytes
<1>2. Area(q)!NoRegion = NoRegion
  BY DEF Area!NoRegion, NoRegion
<1>3. \A list, size : Area(q)!Fits(list, size) = Fits(list, size)
  BY DEF Area!Fits, Fits
<1>4. \A S : Area(q)!First(S) = First(S)
  BY Zenon DEF Area!First, First
<1>5. \A list, i, size : Area(q)!Taken(list, i, size) = Taken(list, i, size)
  BY DEF Area!Taken, Taken, Area!Delete, Delete
<1>6. \A S : Area(q)!Last(S) = Last(S)
  BY Zenon DEF Area!Last, Last
<1>7. \A list, rg : Area(q)!MergeUp(list, rg) = MergeUp(list, rg) /\ Area(q)!MergeDown(list, rg) = MergeDown(list, rg)
  BY DEF Area!MergeUp, MergeUp, Area!MergeDown, MergeDown
<1>8. \A list, rg : Area(q)!Dangles(list, rg) = Dangles(list, rg)
  BY <1>6, <1>7 DEF Area!Dangles, Dangles
<1>9. \A list, d, i : Area(q)!MergeBoth(list, d, i) = MergeBoth(list, d, i)
  BY DEF Area!MergeBoth, MergeBoth, Area!Delete, Delete
<1>10. \A list, rg : Area(q)!Enlisted(list, rg) = Enlisted(list, rg)
  BY <1>6, <1>7, <1>9 DEF Area!Enlisted, Enlisted
<1> QED
  BY <1>1, <1>2, <1>3, <1>4, <1>5, <1>8, <1>10

\* The frames in the free lists, and those that are free for Region when q asks
\* for frames: the ones that q has got but not mapped yet are.
FreeCount == Len(ram_free) + Len(swp_free)
FreeFrames(q) == FreeCount + Got(q)

\* What else Region sees of the area of q.
View(q) == <<symrgtbl[q], vm_freerg_list[q], Break(q), NextPage(q), mapped[q], dangling[q], lost[q]>>

\* One frame is taken from a free list, or none.
OneTaken == FreeCount \in Nat \ {0} /\ FreeCount' = FreeCount - 1

Implemented(q) == UNCHANGED Area(q)!vars \/ Area(q)!Next

\* Nothing that Region sees happens.
LEMMA SameView ==
    ASSUME NEW q, UNCHANGED View(q), UNCHANGED FreeFrames(q)
    PROVE  Implemented(q)
  BY DEF View, Implemented, Area!vars, Break, NextPage, FreeFrames, FreeCount

\* Another process takes a frame, or not even that.
LEMMA ViewKept ==
    ASSUME NEW q, Got(q) \in Nat, UNCHANGED View(q), UNCHANGED Got(q), OneTaken \/ UNCHANGED FreeCount
    PROVE  Implemented(q)
<1>1. CASE UNCHANGED FreeCount
  BY <1>1, SameView DEF FreeFrames
<1>2. CASE OneTaken
  <2>1. FreeFrames(q) > 0 /\ FreeFrames(q)' = FreeFrames(q) - 1
    <3>1. PICK c \in Nat, g \in Nat, c2 \in Int : c = FreeCount /\ g = Got(q) /\ c > 0 /\ c2 = FreeCount' /\ c2 = c - 1
      BY <1>2 DEF OneTaken
    <3>2. c + g > 0 /\ c2 + g = (c + g) - 1
      BY <3>1
    <3> QED
      BY <3>1, <3>2 DEF FreeFrames
  <2>2. Area(q)!OtherProcess
    BY <2>1 DEF View, Area!OtherProcess, Break, NextPage, FreeFrames, FreeCount
  <2> QED
    BY <2>2 DEF Implemented, Area!Next
<1> QED
  BY <1>1, <1>2

\* The free lists and the lists of the processes that are allocating: a step of
\* p takes one frame at most, and none from another process.
LEMMA FramesStep ==
    ASSUME PagingTypeOK, NEW p \in Proc, Alloc(p) \/ Access(p) \/ UNCHANGED vars
    PROVE  /\ OneTaken \/ UNCHANGED FreeCount
           /\ \A q \in Proc : q # p => UNCHANGED Got(q)
<1>0. /\ ram_free \in Seq(RamFrame) /\ swp_free \in Seq(SwpFrame)
      /\ frm_lst \in [Proc -> Seq(RamFrame)] /\ frm_lst_swap \in [Proc -> Seq(SwpFrame)]
      /\ Len(ram_free) \in Nat /\ Len(swp_free) \in Nat
  BY DEF PagingTypeOK
<1>1. CASE UNCHANGED <<ram_free, swp_free, frm_lst, frm_lst_swap>>
  BY <1>1 DEF FreeCount, Got
<1>2. ASSUME NEW a, NEW s \in Seq(a), s # <<>> PROVE Len(s) \in Nat \ {0} /\ Len(Tail(s)) = Len(s) - 1
  BY <1>2
<1>3. CASE GetRamFrame(p)
  <2>1. /\ ram_free # <<>> /\ ram_free' = Tail(ram_free) /\ UNCHANGED <<swp_free, frm_lst_swap>>
        /\ frm_lst' = [frm_lst EXCEPT ![p] = <<Head(ram_free)>> \o @]
    BY <1>3 DEF GetRamFrame
  <2>2. Len(ram_free) \in Nat \ {0} /\ Len(ram_free') = Len(ram_free) - 1
    BY <1>0, <1>2, <2>1
  <2>3. OneTaken
    BY <1>0, <2>1, <2>2 DEF OneTaken, FreeCount
  <2> QED
    BY <1>0, <2>1, <2>3 DEF Got
<1>4. CASE GetSwpFrame(p)
  <2>1. /\ swp_free # <<>> /\ swp_free' = Tail(swp_free) /\ UNCHANGED <<ram_free, frm_lst>>
        /\ frm_lst_swap' = [frm_lst_swap EXCEPT ![p] = <<Head(swp_free)>> \o @]
    BY <1>4 DEF GetSwpFrame
  <2>2. Len(swp_free) \in Nat \ {0} /\ Len(swp_free') = Len(swp_free) - 1
    BY <1>0, <1>2, <2>1
  <2>3. OneTaken
    BY <1>0, <2>1, <2>2 DEF OneTaken, FreeCount
  <2> QED
    BY <1>0, <2>1, <2>3 DEF Got
<1>5. CASE OutOfMemory(p) \/ MapRange(p)
  <2>1. UNCHANGED <<ram_free, swp_free>> /\ EmptyLists(p)
    BY <1>5 DEF OutOfMemory, MapRange, memory
  <2> QED
    BY <1>0, <2>1 DEF EmptyLists, Got, FreeCount
<1>6. CASE \E n \in Page, o \in Offset, v \in Value \cup {None}, vic \in Page : Miss(p, n, o, v, vic)
  <2>1. UNCHANGED <<ram_free, frm_lst, frm_lst_swap>>
    BY <1>6 DEF Miss, locals
  <2>2. CASE swp_free # <<>> /\ swp_free' = Tail(swp_free)
    <3>1. Len(swp_free) \in Nat \ {0} /\ Len(swp_free') = Len(swp_free) - 1
      BY <1>0, <1>2, <2>2
    <3>2. OneTaken
      BY <1>0, <2>1, <3>1 DEF OneTaken, FreeCount
    <3> QED
      BY <2>1, <3>2 DEF Got
  <2>3. CASE UNCHANGED swp_free
    BY <1>1, <2>1, <2>3
  <2> QED
    BY <1>6, <2>2, <2>3 DEF Miss
<1>7. ASSUME \/ UNCHANGED vars
             \/ \E k \in 1..MaxPages : IncLimit(p, k)
             \/ \E n \in Page, o \in Offset, v \in Value \cup {None} : Hit(p, n, o, v)
             \/ \E n, vic \in Page : MissOutside(p, n, vic)
             \/ \E n \in Page : Drop(p, n)
             \/ SwapOut(p) \/ SwapIn(p) \/ Finish(p)
      PROVE  UNCHANGED <<ram_free, swp_free, frm_lst, frm_lst_swap>>
  BY <1>7 DEF vars, memory, locals, IncLimit, Hit, MissOutside, Drop, SwapOut, SwapIn, Finish
<1> QED
  BY <1>1, <1>3, <1>4, <1>5, <1>6, <1>7 DEF Alloc, Access

\* A step of p is a step of the area of every other process.
LEMMA OthersImplemented ==
    ASSUME MemInv, NEW p \in Proc, Alloc(p) \/ Access(p) \/ UNCHANGED vars, AreasOnly(p),
           NEW q \in Proc, q # p
    PROVE  Implemented(q)
<1>0. PagingTypeOK
  BY DEF MemInv, PagingInv, Shape
<1>1. PagingOnly(p)
  BY <1>0, PagingOthers
<1>2. UNCHANGED View(q)
  BY <1>1 DEF PagingOnly, AreasOnly, View, Break, Pending, NextPage
<1>3. Got(q) \in Nat
  BY <1>0 DEF Got, PagingTypeOK
<1>4. (OneTaken \/ UNCHANGED FreeCount) /\ UNCHANGED Got(q)
  BY <1>0, FramesStep
<1> QED
  BY <1>2, <1>3, <1>4, ViewKept

\* A step of p that is not an allocation or a FREE.
LEMMA OwnFrames ==
    ASSUME MemInv, NEW p \in Proc, GetRamFrame(p) \/ GetSwpFrame(p), UNCHANGED <<areas, histories>>
    PROVE  Implemented(p)
<1>0. /\ ram_free \in Seq(RamFrame) /\ swp_free \in Seq(SwpFrame)
      /\ frm_lst \in [Proc -> Seq(RamFrame)] /\ frm_lst_swap \in [Proc -> Seq(SwpFrame)]
  BY DEF MemInv, PagingInv, Shape, PagingTypeOK
<1>1. UNCHANGED View(p)
  BY DEF GetRamFrame, GetSwpFrame, tables, areas, histories, View, Break, Pending, NextPage
<1>2. PICK r \in Nat, s \in Nat, a \in Nat, b \in Nat :
         r = Len(ram_free) /\ s = Len(swp_free) /\ a = Len(frm_lst[p]) /\ b = Len(frm_lst_swap[p])
  BY <1>0
<1>3. CASE GetRamFrame(p)
  <2>1. Len(ram_free') = r - 1 /\ Len(frm_lst'[p]) = a + 1 /\ UNCHANGED <<swp_free, frm_lst_swap>>
    BY <1>0, <1>2, <1>3 DEF GetRamFrame
  <2>2. (r - 1) + s + ((a + 1) + b) = r + s + (a + b)
    OBVIOUS
  <2>3. UNCHANGED FreeFrames(p)
    BY <1>2, <2>1, <2>2 DEF FreeFrames, FreeCount, Got
  <2> QED
    BY <1>1, <2>3, SameView
<1>4. CASE GetSwpFrame(p)
  <2>1. Len(swp_free') = s - 1 /\ Len(frm_lst_swap'[p]) = b + 1 /\ UNCHANGED <<ram_free, frm_lst>>
    BY <1>0, <1>2, <1>4 DEF GetSwpFrame
  <2>2. r + (s - 1) + (a + (b + 1)) = r + s + (a + b)
    OBVIOUS
  <2>3. UNCHANGED FreeFrames(p)
    BY <1>2, <2>1, <2>2 DEF FreeFrames, FreeCount, Got
  <2> QED
    BY <1>1, <2>3, SameView
<1> QED
  BY <1>3, <1>4

\* A READ, a WRITE, or nothing.
LEMMA AccessImplemented ==
    ASSUME MemInv, NEW p \in Proc, Access(p) \/ UNCHANGED vars,
           UNCHANGED <<symrgtbl, vm_freerg_list, sbrk, dangling, mapped, lost>>,
           mpc[p] # "alloc" \/ UNCHANGED req
    PROVE  Implemented(p)
<1>0. PagingTypeOK
  BY DEF MemInv, PagingInv, Shape
<1>1. /\ UNCHANGED <<npages, want, frm_lst, frm_lst_swap>>
      /\ \/ mpc[p] # "alloc" /\ mpc'[p] # "alloc"
         \/ UNCHANGED mpc
  <2>1. CASE UNCHANGED vars
    BY <2>1 DEF vars, tables, locals
  <2>2. CASE Access(p)
    BY <1>0, <2>2 DEF Access, Hit, Miss, MissOutside, Drop, SwapOut, SwapIn, Finish, Goto, vars, tables, locals, PagingTypeOK
  <2> QED
    BY <2>1, <2>2
<1>2. UNCHANGED View(p)
  <2>1. CASE mpc[p] # "alloc" /\ mpc'[p] # "alloc"
    BY <1>1, <2>1 DEF View, Break, Pending, NextPage
  <2>2. CASE UNCHANGED mpc
    BY <1>1, <2>2 DEF View, Break, Pending, NextPage
  <2> QED
    BY <1>1, <2>1, <2>2
<1>3. UNCHANGED Got(p)
  BY <1>1 DEF Got
<1>4. OneTaken \/ UNCHANGED FreeCount
  BY <1>0, FramesStep
<1>5. Got(p) \in Nat
  BY <1>0, GotType
<1> QED
  BY <1>2, <1>3, <1>4, <1>5, ViewKept

\* The break moves, but Region does not see it yet.
LEMMA GrowImplemented ==
    ASSUME MemInv, NEW p \in Proc, NEW r \in Rgid, NEW size \in Size, PgAllocGrow(p, r, size)
    PROVE  Implemented(p)
<1> DEFINE k == Pages(size + sbrk[p]) - Pages(sbrk[p])
<1>0. MemType /\ PagingTypeOK /\ BreakShape(p) /\ want[p] = 0
  BY DEF MemInv, ProcInv, PagingInv, Shape, AllocShape, PgAllocGrow, Ready
<1>1. /\ mpc[p] = "idle" /\ MustGrow(p, size) /\ IncLimit(p, k)
      /\ sbrk' = [sbrk EXCEPT ![p] = @ + size]
      /\ req' = [req EXCEPT ![p] = [rgid |-> r, arg |-> size]]
      /\ UNCHANGED <<symrgtbl, vm_freerg_list, dangling, mapped, lost>>
  BY DEF PgAllocGrow, Ready, histories
<1>2. ~Pending(p) /\ Break(p) = sbrk[p]
  BY <1>1 DEF Pending, Break
<1>3. k \in Nat \ {0}
  BY <1>0, <1>1, <1>2, GrowPages
<1> HIDE DEF k
<1>4. /\ mpc'[p] = "alloc" /\ npages'[p] = npages[p] + k /\ want'[p] = k
      /\ UNCHANGED <<ram_free, swp_free, frm_lst, frm_lst_swap>>
  BY <1>0, <1>1 DEF IncLimit, Goto, memory, PagingTypeOK
<1>5. NextPage(p)' = NextPage(p)
  <2>1. PICK n \in Nat : n = npages[p]
    BY <1>0 DEF PagingTypeOK
  <2>2. (n + k) - k = n - 0
    BY <1>3, <2>1
  <2> QED
    BY <1>0, <1>4, <2>1, <2>2 DEF NextPage
<1>6. Break(p)' = Break(p)
  <2>1. PICK b \in Nat, s \in Nat : b = sbrk[p] /\ s = size
    BY <1>0, MemoryAssumption DEF MemType
  <2>2. sbrk'[p] = b + s /\ req'[p].arg = s /\ (b + s) - s = b
    BY <1>0, <1>1, <2>1 DEF MemType
  <2>3. Pending(p)'
    BY <1>4 DEF Pending
  <2> QED
    BY <1>2, <2>1, <2>2, <2>3 DEF Break
<1>7. UNCHANGED View(p) /\ UNCHANGED FreeFrames(p)
  BY <1>1, <1>4, <1>5, <1>6 DEF View, FreeFrames, FreeCount, Got
<1> QED
  BY <1>7, SameView

\* The region of index r of p becomes [a, b], and Region sees it.
RegionNew(p, r, a, b) ==
    /\ symrgtbl'[p] = [symrgtbl[p] EXCEPT ![r] = [rg_start |-> a, rg_end |-> b]]
    /\ lost'[p] = lost[p] \cup Bytes(symrgtbl[p][r])

\* The symbol table of process p after a region was stored in it.
LEMMA SetRegionNew ==
    ASSUME MemType, NEW p \in Proc, NEW r \in Rgid, NEW start, NEW size, SetRegion(p, r, start, size)
    PROVE  RegionNew(p, r, start, start + size)
  BY DEF SetRegion, MemType, RegionNew

\* pgalloc() in a free region.
LEMMA AllocFreeImplemented ==
    ASSUME MemInv, NEW p \in Proc, NEW r \in Rgid, NEW size \in Size, PgAllocFree(p, r, size)
    PROVE  Implemented(p)
<1> DEFINE L == vm_freerg_list[p]
           i == First(Fits(L, size))
<1>0. MemType
  BY DEF MemInv
<1>1. /\ ~dangling[p] /\ Fits(L, size) # {}
      /\ SetRegion(p, r, L[i].rg_start, size)
      /\ vm_freerg_list' = [vm_freerg_list EXCEPT ![p] = Taken(@, i, size)]
      /\ UNCHANGED <<vars, sbrk, req, dangling, mapped>>
  BY DEF PgAllocFree, Ready
<1> HIDE DEF i, L
<1>2. PICK a : a = L[i].rg_start /\ SetRegion(p, r, a, size)
  BY <1>1
<1>3. RegionNew(p, r, a, a + size)
  BY <1>0, <1>2, SetRegionNew
<1>4. vm_freerg_list'[p] = Taken(L, i, size)
  BY <1>0, <1>1 DEF MemType, L
<1>5. UNCHANGED <<Break(p), NextPage(p), mapped[p], FreeFrames(p), dangling[p]>>
  BY <1>1 DEF vars, memory, tables, locals, Break, Pending, NextPage, FreeFrames, FreeCount, Got
<1>6. Area(p)!SetRegion(r, a, a + size)
  BY <1>3, AreaFreeList DEF Area!SetRegion, RegionNew
<1>7. /\ Area(p)!Fits(L, size) # {} /\ i = Area(p)!First(Area(p)!Fits(L, size))
      /\ vm_freerg_list'[p] = Area(p)!Taken(L, i, size)
  BY <1>1, <1>4, AreaFreeList DEF i
<1>8. Area(p)!AllocFree(r, size)
  BY <1>1, <1>2, <1>5, <1>6, <1>7 DEF Area!AllocFree, L, Break, NextPage, FreeFrames, FreeCount
<1> QED
  BY <1>8 DEF Implemented, Area!Next

\* pgfree_data()
LEMMA FreeImplemented ==
    ASSUME MemInv, NEW p \in Proc, NEW r \in Rgid, PgFree(p, r)
    PROVE  Implemented(p)
<1>0. MemType
  BY DEF MemInv
<1>1. /\ ~dangling[p] /\ UNCHANGED <<vars, sbrk, req, mapped, lost>>
      /\ symrgtbl' = [symrgtbl EXCEPT ![p][r] = NoRegion]
  BY DEF PgFree, Ready
<1>2. symrgtbl'[p] = [symrgtbl[p] EXCEPT ![r] = NoRegion]
  BY <1>0, <1>1 DEF MemType
<1>3. UNCHANGED <<Break(p), NextPage(p), mapped[p], FreeFrames(p), lost[p]>>
  BY <1>1 DEF vars, memory, tables, locals, Break, Pending, NextPage, FreeFrames, FreeCount, Got
<1>4. \/ /\ Dangles(vm_freerg_list[p], symrgtbl[p][r])
         /\ dangling'[p] = TRUE /\ vm_freerg_list'[p] = vm_freerg_list[p]
      \/ /\ ~Dangles(vm_freerg_list[p], symrgtbl[p][r])
         /\ vm_freerg_list'[p] = Enlisted(vm_freerg_list[p], symrgtbl[p][r]) /\ dangling'[p] = dangling[p]
  BY <1>0 DEF PgFree, MemType
<1>5. \/ /\ Area(p)!Dangles(vm_freerg_list[p], symrgtbl[p][r])
         /\ dangling'[p] = TRUE /\ vm_freerg_list'[p] = vm_freerg_list[p]
      \/ /\ ~Area(p)!Dangles(vm_freerg_list[p], symrgtbl[p][r])
         /\ vm_freerg_list'[p] = Area(p)!Enlisted(vm_freerg_list[p], symrgtbl[p][r])
         /\ dangling'[p] = dangling[p]
  BY <1>4, AreaFreeList
<1>6. symrgtbl'[p] = [symrgtbl[p] EXCEPT ![r] = Area(p)!NoRegion]
  BY <1>2, AreaFreeList
<1>7. Area(p)!Free(r)
  BY <1>1, <1>3, <1>5, <1>6 DEF Area!Free, Break, NextPage, FreeFrames, FreeCount
<1> QED
  BY <1>7 DEF Implemented, Area!Next

\* Whether Region moves vm_end.
RegionGrows(p, size) ==
    \/ size + Break(p) > Pages(Break(p)) * PAGING_PAGESZ
    \/ Break(p) = NextPage(p) * PAGING_PAGESZ

\* pgalloc() at the break, as Region sees it.
LEMMA AreaAllocBreak ==
    ASSUME NEW p \in Proc, NEW r \in Rgid, NEW size \in Size,
           ~dangling[p], Fits(vm_freerg_list[p], size) = {}, UNCHANGED <<vm_freerg_list[p], dangling[p]>>,
           Break(p) + size <= MaxPages * PAGING_PAGESZ,
           RegionNew(p, r, Break(p), Break(p) + size), Break(p)' = Break(p) + size,
           NEW inc, inc = Pages(size + Break(p)) * PAGING_PAGESZ - Pages(Break(p)) * PAGING_PAGESZ,
           \/ /\ RegionGrows(p, size)
              /\ NextPage(p)' * PAGING_PAGESZ = NextPage(p) * PAGING_PAGESZ + inc
              /\ Area(p)!MapPages((NextPage(p) * PAGING_PAGESZ) \div PAGING_PAGESZ, inc \div PAGING_PAGESZ)
           \/ ~RegionGrows(p, size) /\ UNCHANGED <<NextPage(p), mapped[p], FreeFrames(p)>>
    PROVE  Implemented(p)
<1>1. Area(p)!SetRegion(r, Break(p), Break(p) + size)
  BY AreaFreeList DEF Area!SetRegion, RegionNew
<1>2. Area(p)!Fits(vm_freerg_list[p], size) = {}
  BY AreaFreeList
<1>3. \A n : Area(p)!Align(n) = Pages(n) * PAGING_PAGESZ
  BY DEF Area!Align, Pages
<1>4. CASE /\ RegionGrows(p, size)
           /\ NextPage(p)' * PAGING_PAGESZ = NextPage(p) * PAGING_PAGESZ + inc
           /\ Area(p)!MapPages((NextPage(p) * PAGING_PAGESZ) \div PAGING_PAGESZ, inc \div PAGING_PAGESZ)
  <2>1. inc = Area(p)!Align(size + Break(p)) - Area(p)!Align(Break(p))
    BY <1>3
  <2>2. size + Break(p) > Area(p)!Align(Break(p)) \/ Break(p) = NextPage(p) * PAGING_PAGESZ
    BY <1>3, <1>4 DEF RegionGrows
  <2>3. Area(p)!IncVmaLimit(size)
    BY <1>4, <2>1 DEF Area!IncVmaLimit, Break, NextPage
  <2>4. Area(p)!AllocBreak(r, size)
    BY <1>1, <1>2, <2>2, <2>3 DEF Area!AllocBreak, Break, NextPage
  <2> QED
    BY <2>4 DEF Implemented, Area!Next
<1>5. CASE ~RegionGrows(p, size) /\ UNCHANGED <<NextPage(p), mapped[p], FreeFrames(p)>>
  <2>1. ~(size + Break(p) > Area(p)!Align(Break(p)) \/ Break(p) = NextPage(p) * PAGING_PAGESZ)
    BY <1>3, <1>5 DEF RegionGrows
  <2>2. Area(p)!AllocBreak(r, size)
    BY <1>1, <1>2, <1>5, <2>1 DEF Area!AllocBreak, Break, NextPage, FreeFrames, FreeCount
  <2> QED
    BY <2>2 DEF Implemented, Area!Next
<1> QED
  BY <1>4, <1>5

\* The pages of a process are below the bound on the break.
LEMMA BelowBound ==
    ASSUME PagingTypeOK, NEW p \in Proc, NEW b \in Nat, b <= npages[p] * PAGING_PAGESZ
    PROVE  b <= MaxPages * PAGING_PAGESZ
<1>1. PICK n \in Nat, m \in Nat, d \in Nat \ {0} :
         n = npages[p] /\ m = MaxPages /\ d = PAGING_PAGESZ /\ n <= m
  BY PagingAssumption DEF PagingTypeOK
<1>2. n * d <= m * d /\ n * d \in Int /\ m * d \in Int
  BY <1>1, TimesMonotone
<1> QED
  BY <1>1, <1>2

\* pgalloc() inside the page of the break.
LEMMA InPageImplemented ==
    ASSUME MemInv, NEW p \in Proc, NEW r \in Rgid, NEW size \in Size, PgAllocInPage(p, r, size)
    PROVE  Implemented(p)
<1>0. MemType /\ PagingTypeOK /\ BreakShape(p) /\ want[p] = 0 /\ size \in Nat
  BY MemoryAssumption DEF MemInv, ProcInv, PagingInv, Shape, AllocShape, PgAllocInPage, Ready
<1>1. /\ mpc[p] = "idle" /\ ~dangling[p] /\ ~MustGrow(p, size) /\ Fits(vm_freerg_list[p], size) = {}
      /\ SetRegion(p, r, sbrk[p], size)
      /\ sbrk' = [sbrk EXCEPT ![p] = @ + size]
      /\ UNCHANGED <<vars, vm_freerg_list, req, dangling, mapped>>
  BY DEF PgAllocInPage, Ready
<1>2. ~Pending(p) /\ ~Pending(p)' /\ Break(p) = sbrk[p] /\ Break(p)' = sbrk'[p]
  BY <1>1 DEF Pending, Break, vars
<1>3. NextPage(p) = npages[p] /\ npages[p] \in Nat
  BY <1>0 DEF NextPage, PagingTypeOK
<1>4. PICK b \in Nat : b = Break(p) /\ sbrk'[p] = b + size
  BY <1>0, <1>1, <1>2 DEF MemType
<1>5. ~RegionGrows(p, size)
  BY <1>0, <1>1, <1>2, <1>3 DEF RegionGrows, MustGrow
<1>6. b + size <= MaxPages * PAGING_PAGESZ
  <2>1. ~(size + b > npages[p] * PAGING_PAGESZ)
    BY <1>0, <1>2, <1>4, <1>5 DEF RegionGrows, BreakShape
  <2>2. npages[p] * PAGING_PAGESZ \in Int
    BY <1>3, PagingAssumption
  <2>3. b + size \in Nat /\ b + size <= npages[p] * PAGING_PAGESZ
    BY <1>0, <2>1, <2>2
  <2> QED
    BY <1>0, <2>3, BelowBound
<1>7. RegionNew(p, r, b, b + size)
  BY <1>0, <1>1, <1>2, <1>4, SetRegionNew
<1>8. UNCHANGED <<NextPage(p), mapped[p], FreeFrames(p), vm_freerg_list[p], dangling[p]>>
  BY <1>1 DEF vars, memory, tables, locals, NextPage, FreeFrames, FreeCount, Got
<1>9. PICK inc : inc = Pages(size + Break(p)) * PAGING_PAGESZ - Pages(Break(p)) * PAGING_PAGESZ
  OBVIOUS
<1>10. /\ Break(p) + size <= MaxPages * PAGING_PAGESZ
       /\ RegionNew(p, r, Break(p), Break(p) + size) /\ Break(p)' = Break(p) + size
  BY <1>2, <1>4, <1>6, <1>7
<1> QED
  BY <1>1, <1>5, <1>8, <1>9, <1>10, AreaAllocBreak

\* The frames that an allocation got, and the pages that it maps.
LEMMA EndPages ==
    ASSUME MemInv, NEW p \in Proc, PgAllocEnd(p)
    PROVE  /\ NextPage(p) \in Nat /\ want[p] \in Nat /\ NextPage(p)' = NextPage(p) + want[p]
           /\ Area(p)!MapPages(NextPage(p), want[p])
<1>0. PagingTypeOK /\ AllocShape
  BY DEF MemInv, PagingInv, Shape
<1>1. /\ OutOfMemory(p) \/ MapRange(p)
      /\ UNCHANGED <<ram_free, swp_free, npages>> /\ EmptyLists(p)
  BY DEF PgAllocEnd, OutOfMemory, MapRange, memory, tables
<1>2. PICK n \in Nat, w \in Nat, g \in Nat :
         n = npages[p] /\ w = want[p] /\ g = Got(p) /\ w <= n /\ g <= w
  BY <1>0, GotType DEF AllocShape, PagingTypeOK
<1>3. want'[p] = 0 /\ frm_lst'[p] = <<>> /\ frm_lst_swap'[p] = <<>>
  BY <1>0, <1>1 DEF EmptyLists, PagingTypeOK
<1>4. n - w \in Nat /\ n - 0 = (n - w) + w /\ ((n - w) + w) - 1 = n - 1
  BY <1>2
<1>5. NextPage(p) = n - w /\ NextPage(p)' = n - 0
  BY <1>1, <1>2, <1>3 DEF NextPage
<1>6. PICK c \in Nat : c = FreeCount
  BY <1>0 DEF FreeCount, PagingTypeOK
<1>7. FreeFrames(p) = c + g /\ FreeFrames(p)' = c
  <2>1. Got(p)' = 0
    BY <1>3 DEF Got
  <2>2. FreeCount' = c /\ c + 0 = c
    BY <1>1, <1>6 DEF FreeCount
  <2> QED
    BY <1>2, <1>6, <2>1, <2>2 DEF FreeFrames
<1>8. CASE MapRange(p)
  <2>1. g = w
    BY <1>2, <1>8 DEF MapRange
  <2>2. mapped'[p] = mapped[p] \cup (n - w)..(n - 1)
    <3>1. ~OutOfMemory(p)
      BY <1>2, <2>1 DEF OutOfMemory
    <3>2. mapped' = [mapped EXCEPT ![p] = @ \cup (npages[p] - want[p])..(npages[p] - 1)]
      BY <3>1 DEF PgAllocEnd
    <3> QED
      BY <1>2, <3>2 DEF MemInv, MemType
  <2>3. w <= FreeFrames(p) /\ FreeFrames(p)' = FreeFrames(p) - w
    BY <1>7, <2>1
  <2>4. mapped'[p] = mapped[p] \cup NextPage(p)..(NextPage(p) + w - 1)
    BY <1>4, <1>5, <2>2
  <2>5. Area(p)!MapPages(NextPage(p), w)
    BY <2>3, <2>4 DEF Area!MapPages, FreeFrames, FreeCount
  <2> QED
    BY <1>2, <1>4, <1>5, <2>5
<1>9. CASE OutOfMemory(p)
  <2>1. g < w /\ ram_free = <<>> /\ swp_free = <<>> /\ mpc[p] = "alloc"
    BY <1>2, <1>9 DEF OutOfMemory
  <2>2. c = 0
    BY <1>6, <2>1 DEF FreeCount
  <2>3. mapped' = mapped
    BY <1>2, <1>9, <2>1 DEF PgAllocEnd, MapRange
  <2>4. ~(w <= FreeFrames(p)) /\ FreeFrames(p)' = 0
    BY <1>7, <2>1, <2>2
  <2>5. Area(p)!MapPages(NextPage(p), w)
    BY <2>3, <2>4 DEF Area!MapPages, FreeFrames, FreeCount
  <2> QED
    BY <1>2, <1>4, <1>5, <2>5
<1> QED
  BY <1>1, <1>8, <1>9

\* The rest of pgalloc() is the whole allocation for Region.
LEMMA AllocEndImplemented ==
    ASSUME MemInv, NEW p \in Proc, PgAllocEnd(p)
    PROVE  Implemented(p)
<1>0. MemType /\ PagingTypeOK /\ BreakShape(p)
  BY DEF MemInv, ProcInv, PagingInv, Shape
<1>1. /\ SetRegion(p, req[p].rgid, sbrk[p] - req[p].arg, req[p].arg)
      /\ UNCHANGED <<vm_freerg_list, sbrk, dangling, npages>>
      /\ mpc[p] = "alloc" /\ mpc'[p] = "idle"
  BY <1>0 DEF PgAllocEnd, OutOfMemory, MapRange, Goto, tables, PagingTypeOK
<1>2. Pending(p) /\ ~Pending(p)' /\ Break(p) = sbrk[p] - req[p].arg /\ Break(p)' = sbrk[p]
  BY <1>1 DEF Pending, Break
<1>3. PICK r \in Rgid, size \in Size :
         /\ r = req[p].rgid /\ size = req[p].arg /\ size <= sbrk[p]
         /\ ~dangling[p] /\ Fits(vm_freerg_list[p], size) = {}
  BY <1>0, <1>2 DEF BreakShape
<1>4. PICK b \in Nat : b = Break(p) /\ Break(p)' = b + size /\ sbrk[p] = b + size /\ size \in Nat
  <2>1. PICK e \in Nat, s \in Nat : e = sbrk[p] /\ s = size /\ s <= e
    BY <1>0, <1>3, MemoryAssumption DEF MemType
  <2>2. e - s \in Nat /\ (e - s) + s = e
    BY <2>1
  <2> QED
    BY <1>2, <1>3, <2>1, <2>2
<1>5. RegionNew(p, r, b, b + size)
  BY <1>0, <1>1, <1>2, <1>3, <1>4, SetRegionNew
<1>6. /\ NextPage(p) \in Nat /\ want[p] \in Nat /\ NextPage(p)' = NextPage(p) + want[p]
      /\ Area(p)!MapPages(NextPage(p), want[p])
  BY EndPages
<1>7. PICK f \in Nat, w \in Nat, d \in Nat \ {0}, n \in Nat :
         /\ f = NextPage(p) /\ w = want[p] /\ d = PAGING_PAGESZ /\ n = npages[p] /\ f = n - w /\ n = f + w
  <2>1. npages[p] \in Nat
    BY <1>0 DEF PagingTypeOK
  <2>2. PICK f \in Nat, w \in Nat, n \in Nat : f = NextPage(p) /\ w = want[p] /\ n = npages[p] /\ f = n - w
    BY <1>6, <2>1 DEF NextPage
  <2>3. n = f + w
    BY <2>2
  <2> QED
    BY <2>2, <2>3, PagingAssumption
<1>8. /\ size + b = b + size /\ Pages(size + b) = n /\ Pages(b) = f
  <2>1. size + b = b + size
    BY <1>4
  <2>2. n = Pages(sbrk[p]) /\ npages[p] - want[p] = Pages(Break(p))
    BY <1>0, <1>2, <1>7 DEF BreakShape
  <2> QED
    BY <1>4, <1>7, <2>1, <2>2
<1>9. PICK inc \in Int : inc = n * d - f * d /\ inc = w * d
  <2>1. (f + w) * d = f * d + w * d /\ f * d \in Int /\ w * d \in Int
    BY TimesSum
  <2>2. n * d - f * d = w * d
    BY <1>7, <2>1
  <2> QED
    BY <2>1, <2>2
<1>10. (f * d) \div d = f /\ inc \div d = w
  BY <1>9, DivMultiple
<1>11. RegionGrows(p, size)
  <2>1. sbrk[p] > f * d \/ b = f * d
    BY <1>0, <1>2, <1>4, <1>7, <1>8 DEF BreakShape
  <2> QED
    BY <1>4, <1>7, <1>8, <2>1 DEF RegionGrows
<1>12. NextPage(p)' * PAGING_PAGESZ = NextPage(p) * PAGING_PAGESZ + inc
  <2>1. (f + w) * d = f * d + w * d
    BY TimesSum
  <2> QED
    BY <1>6, <1>7, <1>9, <2>1
<1>13. Area(p)!MapPages((NextPage(p) * PAGING_PAGESZ) \div PAGING_PAGESZ, inc \div PAGING_PAGESZ)
  BY <1>6, <1>7, <1>10
<1>14. b + size <= MaxPages * PAGING_PAGESZ
  <2>1. n = UpTo(b + size, d) /\ b + size \in Nat
    BY <1>4, <1>7, <1>8, PagesUpTo
  <2>2. b + size <= n * d
    BY <2>1, UpToBounds
  <2> QED
    BY <1>0, <1>7, <2>1, <2>2, BelowBound
<1>15. /\ inc = Pages(size + Break(p)) * PAGING_PAGESZ - Pages(Break(p)) * PAGING_PAGESZ
       /\ Break(p) + size <= MaxPages * PAGING_PAGESZ
       /\ RegionNew(p, r, Break(p), Break(p) + size) /\ Break(p)' = Break(p) + size
       /\ ~dangling[p] /\ Fits(vm_freerg_list[p], size) = {}
       /\ UNCHANGED <<vm_freerg_list[p], dangling[p]>>
  BY <1>1, <1>3, <1>4, <1>5, <1>7, <1>8, <1>9, <1>14
<1> QED
  BY <1>11, <1>12, <1>13, <1>15, AreaAllocBreak

\* A step of p is a step of its area.
LEMMA OwnImplemented ==
    ASSUME MemInv, NEW p \in Proc, Continue(p) \/ \E r \in Rgid : Instruction(p, r)
    PROVE  Implemented(p)
<1>1. CASE (GetRamFrame(p) \/ GetSwpFrame(p)) /\ UNCHANGED <<areas, histories>>
  BY <1>1, OwnFrames
<1>2. CASE PgAllocEnd(p)
  BY <1>2, AllocEndImplemented
<1>3. CASE (SwapOut(p) \/ SwapIn(p)) /\ UNCHANGED <<areas, histories>>
  BY <1>3, AccessImplemented DEF Access, areas, histories
<1>4. CASE PgFinish(p)
  BY <1>4, AccessImplemented DEF PgFinish, Access, Finish
<1>5. ASSUME NEW r \in Rgid, Instruction(p, r) PROVE Implemented(p)
  <2>1. ASSUME NEW size \in Size,
               PgAllocFree(p, r, size) \/ PgAllocInPage(p, r, size) \/ PgAllocGrow(p, r, size)
        PROVE  Implemented(p)
    BY <2>1, AllocFreeImplemented, InPageImplemented, GrowImplemented
  <2>2. CASE PgFree(p, r)
    BY <2>2, FreeImplemented
  <2>3. ASSUME NEW off \in Offsets,
               \/ \E v \in {r, None} : PgHit(p, r, off, v) \/ PgMiss(p, r, off, v)
               \/ PgMissOutside(p, r, off)
               \/ PgNothing(p, r, off)
        PROVE  Implemented(p)
    <3>1. mpc[p] = "idle"
      BY <2>3 DEF PgHit, Hit, PgMiss, Miss, PgMissOutside, MissOutside, PgNothing
    <3>2. UNCHANGED <<symrgtbl, vm_freerg_list, sbrk, dangling, mapped, lost>>
      BY <2>3 DEF PgHit, PgMiss, PgMissOutside, PgNothing, memvars, areas, histories
    <3>3. Access(p) \/ UNCHANGED vars
      BY <2>3, AccessPaging
    <3> QED
      BY <3>1, <3>2, <3>3, AccessImplemented
  <2> QED
    BY <1>5, <2>1, <2>2, <2>3 DEF Instruction
<1> QED
  BY <1>1, <1>2, <1>3, <1>4, <1>5 DEF Continue

\* The area of every process behaves as module Region says, step by step, although
\* an allocation takes its frames one by one while other processes take theirs:
\* for Region it happens as a whole when it ends.
THEOREM MemoryRefinesRegion == MemSpec => MemoryImplementsRegion
<1>1. MemInit => \A p \in Proc : Area(p)!Init
  <2> SUFFICES ASSUME MemInit, NEW p \in Proc PROVE Area(p)!Init
    OBVIOUS
  <2>1. /\ symrgtbl[p] = [r \in Rgid |-> NoRegion] /\ vm_freerg_list[p] = <<>> /\ sbrk[p] = 0
        /\ mapped[p] = {} /\ dangling[p] = FALSE /\ lost[p] = {} /\ ~Pending(p)
    BY DEF MemInit, Init, Pending
  <2>2. /\ npages[p] = 0 /\ want[p] = 0 /\ frm_lst[p] = <<>> /\ frm_lst_swap[p] = <<>>
        /\ ram_free = [i \in 1..RamFrames |-> i - 1] /\ swp_free = [i \in 1..SwpFrames |-> i - 1]
    BY DEF MemInit, Init
  <2>3. Len(ram_free) = RamFrames /\ Len(swp_free) = SwpFrames /\ Got(p) = 0
    BY <2>2, PagingAssumption DEF Got
  <2>4. (npages[p] - want[p]) * PAGING_PAGESZ = 0
    BY <2>2, PagingAssumption
  <2>5. Len(ram_free) + Len(swp_free) + Got(p) = RamFrames + SwpFrames
    BY <2>3, PagingAssumption
  <2> QED
    BY <2>1, <2>4, <2>5, AreaFreeList DEF Area!Init
<1>2. MemInv /\ [MemNext]_memvars =>
          [\A p \in Proc : UNCHANGED Area(p)!vars \/ Area(p)!Next]_memvars
  <2> SUFFICES ASSUME MemInv, MemNext, ~UNCHANGED memvars, NEW q \in Proc
               PROVE  Implemented(q)
    BY DEF Implemented
  <2>1. ~(Undefined /\ UNCHANGED <<areas, histories>>)
    BY DEF Undefined, memvars
  <2>2. PICK p \in Proc : Continue(p) \/ \E r \in Rgid : Instruction(p, r)
    BY <2>1 DEF MemNext
  <2>3. Alloc(p) \/ Access(p) \/ UNCHANGED vars
    BY <2>2, InstructionPaging, ContinuePaging
  <2>4. AreasOnly(p)
    BY <2>2, InstructionKept, ContinueKept DEF Kept
  <2>5. CASE q = p
    BY <2>2, <2>5, OwnImplemented
  <2>6. CASE q # p
    BY <2>3, <2>4, <2>6, OthersImplemented
  <2> QED
    BY <2>5, <2>6
<1> QED
  BY <1>1, <1>2, MemInvariant, PTL DEF MemSpec, MemoryImplementsRegion

-----------------------------------------------------------------------------
(* Enough RAM *)

\* The programs stay inside their regions: no WRITE at the offset that equals the
\* size of its region, and no page fault for an access there.
InBounds == ~beyond /\ \A p \in Proc : mpc[p] = "out" => req[p].arg < RegionSize(p, req[p].rgid)

\* Every byte that was written through an index is in RAM, in the frame of its page.
RegionsInRam ==
    \A p \in Proc, r \in Rgid : \A off \in wrote[p][r] :
        LET n == PAGING_PGN(Address(p, r, off))
            o == PAGING_OFFST(Address(p, r, off))
        IN  pgd[p][n].present /\ ram[pgd[p][n].val][o] = Datum(p, n, r)

\* A fault for a byte of a region is not one for the page behind the area.
LEMMA BoundsInside == ASSUME MemInv, InBounds PROVE InsideArea
<1> SUFFICES ASSUME NEW p \in Proc, mpc[p] = "out" PROVE fault[p].pgn < npages[p]
  BY DEF InsideArea
<1>1. PICK r \in Rgid, off \in Nat : r = req[p].rgid /\ off = req[p].arg
  BY DEF MemInv, MemType, ProcInv, FaultOfAccess
<1>2. /\ MemType /\ AreaKept(p) /\ npages[p] = Pages(sbrk[p]) /\ Break(p) = sbrk[p]
      /\ fault[p].pgn = PAGING_PGN(Address(p, r, off)) /\ off < RegionSize(p, r)
  BY <1>1 DEF MemInv, ProcInv, BreakShape, FaultOfAccess, InBounds, Break, Pending
<1>3. PICK a \in Nat, b \in Nat : a = Address(p, r, off) /\ b = Break(p) /\ a < b
  <2>1. Address(p, r, off) \in Nat /\ Break(p) \in Nat /\ Address(p, r, off) \in 0..(Break(p) - 1)
    BY <1>2, AddressFacts
  <2> QED
    BY <2>1
<1>4. PICK k \in Nat : k = UpTo(b, PAGING_PAGESZ) /\ k = npages[p]
  BY <1>2, <1>3, UpToBounds, PagesUpTo, PagingAssumption
<1>5. PAGING_PGN(a) \in 0..(k - 1)
  BY <1>3, <1>4, UpToPage, PagingAssumption DEF PAGING_PGN
<1> QED
  BY <1>2, <1>3, <1>4, <1>5

\* In RAM that suffices, the bytes of the regions are where their pages are.
LEMMA SufficesRegions == ASSUME MemInv, InBounds, RamSuffices PROVE RegionsInRam
<1> SUFFICES ASSUME NEW p \in Proc, NEW r \in Rgid, NEW off \in wrote[p][r]
             PROVE  LET n == PAGING_PGN(Address(p, r, off))
                        o == PAGING_OFFST(Address(p, r, off))
                    IN  pgd[p][n].present /\ ram[pgd[p][n].val][o] = Datum(p, n, r)
  BY DEF RegionsInRam
<1>1. MemType /\ PagingTypeOK /\ BreakShape(p) /\ AreaKept(p) /\ WrittenThrough(p) /\ off \in Nat
  BY DEF MemInv, ProcInv, PagingInv, Shape, MemType, InBounds
<1>2. PICK n, o : n = PAGING_PGN(Address(p, r, off)) /\ o = PAGING_OFFST(Address(p, r, off))
  OBVIOUS
<1>3. off < RegionSize(p, r) /\ written[p][n][o] = r
  BY <1>1, <1>2 DEF WrittenThrough, InBounds
<1>4. n \in Page /\ o \in Offset
  BY <1>1, <1>2, <1>3, BytePage
<1>5. r # None
  BY MemoryAssumption, PagingAssumption
<1>6. pgd[p][n].present /\ ram[pgd[p][n].val][o] = Datum(p, n, r)
  BY <1>3, <1>4, <1>5 DEF RamSuffices
<1> QED
  BY <1>2, <1>6

\* With a frame of RAM for each page of each process, programs that stay inside
\* their regions always find in RAM what they wrote, through ALLOC, FREE and the
\* instructions of the others; no allocation fails and swap is never used.
THEOREM RegionsAlwaysInRam ==
    ASSUME IsFiniteSet(Proc), Cardinality(Proc) * MaxPages <= RamFrames
    PROVE  MemSpec /\ []InBounds => [](RamSuffices /\ RegionsInRam)
<1>1. MemInv /\ InBounds => InsideArea
  BY BoundsInside
<1>2. MemInv /\ InBounds /\ RamSuffices => RegionsInRam
  BY SufficesRegions
<1>3. Spec /\ []InsideArea => []RamSuffices
  BY RamSufficesTheorem
<1> QED
  BY <1>1, <1>2, <1>3, MemInvariant, MemoryImplementsPaging, PTL

=============================================================================
