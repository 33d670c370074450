-------------------------------- MODULE Memory --------------------------------
(***************************************************************************)
(* The memory instructions of the processes, from the index and the offset *)
(* that run() passes to a byte of a frame: the virtual memory areas        *)
(* (module Region, one per process) on top of the pages and the devices    *)
(* (module Paging, whose steps are the steps here).                        *)
(*                                                                         *)
(* What Region does in one step takes several here, between which other    *)
(* processes run: the break moves, frames are taken one by one, the pages  *)
(* are mapped and the symbol table is set.  What Paging leaves open, the   *)
(* page and the byte that an access reaches, follows here from the index   *)
(* and the offset of the instruction.                                      *)
(*                                                                         *)
(* A WRITE through index r writes the value r, so a byte tells through     *)
(* which index it was written last.                                        *)
(***************************************************************************)
EXTENDS Paging, FreeList

CONSTANTS
    Rgid,    \* indices of the symbol table that the processes use
    Size,    \* sizes that they ask for, none of them 0
    Offsets  \* offsets at which they read and write

ASSUME MemoryAssumption ==
    /\ Rgid \subseteq Value
    /\ Size \subseteq Nat \ {0}
    /\ Offsets \subseteq Nat

VARIABLES
    symrgtbl,       \* symrgtbl[p][r]: the region of index r of process p
    vm_freerg_list, \* vm_freerg_list[p]: its free regions
    sbrk,           \* sbrk[p]: its break
    req,            \* req[p]: arguments of the instruction under way
    dangling,       \* dangling[p]: a freed node is linked in its free list
    mapped,         \* history: mapped[p]: the pages that were mapped
    lost,           \* history: lost[p]: bytes of regions whose index was allocated again
    wrote,          \* history: wrote[p][r]: offsets written since r was allocated
    beyond          \* history: a WRITE passed at the offset behind its region

areas == <<symrgtbl, vm_freerg_list, sbrk, req, dangling>>
histories == <<mapped, lost, wrote, beyond>>
memvars == <<vars, areas, histories>>

NoReq == [rgid |-> None, arg |-> 0]

MemInit ==
    /\ Init
    /\ symrgtbl = [p \in Proc |-> [r \in Rgid |-> NoRegion]]
    /\ vm_freerg_list = [p \in Proc |-> <<>>]
    /\ sbrk = [p \in Proc |-> 0]
    /\ req = [p \in Proc |-> NoReq]
    /\ dangling = [p \in Proc |-> FALSE]
    /\ mapped = [p \in Proc |-> {}]
    /\ lost = [p \in Proc |-> {}]
    /\ wrote = [p \in Proc |-> [r \in Rgid |-> {}]]
    /\ beyond = FALSE

-----------------------------------------------------------------------------
(* ALLOC *)

\* PAGING_PAGE_ALIGNSZ, in pages
Pages(n) == (n + PAGING_PAGESZ - 1) \div PAGING_PAGESZ

\* No instruction of p is under way, and its free list can be walked.
Ready(p) == mpc[p] = "idle" /\ ~dangling[p]

SetRegion(p, r, start, size) ==
    /\ symrgtbl' = [symrgtbl EXCEPT ![p][r] = [rg_start |-> start, rg_end |-> start + size]]
    /\ lost' = [lost EXCEPT ![p] = @ \cup Bytes(symrgtbl[p][r])]
    /\ wrote' = [wrote EXCEPT ![p][r] = {}]

\* pgalloc() when a free region fits.
PgAllocFree(p, r, size) ==
    /\ Ready(p)
    /\ Fits(vm_freerg_list[p], size) # {}
    /\ LET i == First(Fits(vm_freerg_list[p], size)) IN
       /\ SetRegion(p, r, vm_freerg_list[p][i].rg_start, size)
       /\ vm_freerg_list' = [vm_freerg_list EXCEPT ![p] = Taken(@, i, size)]
    /\ UNCHANGED <<vars, sbrk, req, dangling, mapped, beyond>>

\* Whether pgalloc() has to move vm_end; both tests of __alloc().
MustGrow(p, size) ==
    \/ size + sbrk[p] > Pages(sbrk[p]) * PAGING_PAGESZ
    \/ sbrk[p] = npages[p] * PAGING_PAGESZ

\* pgalloc() at a break inside a page that has room.
PgAllocInPage(p, r, size) ==
    /\ Ready(p)
    /\ Fits(vm_freerg_list[p], size) = {}
    /\ ~MustGrow(p, size)
    /\ SetRegion(p, r, sbrk[p], size)
    /\ sbrk' = [sbrk EXCEPT ![p] = @ + size]
    /\ UNCHANGED <<vars, vm_freerg_list, req, dangling, mapped, beyond>>

\* pgalloc() up to vm_map_ram(): the break and vm_end move.
PgAllocGrow(p, r, size) ==
    /\ Ready(p)
    /\ Fits(vm_freerg_list[p], size) = {}
    /\ MustGrow(p, size)
    /\ IncLimit(p, Pages(size + sbrk[p]) - Pages(sbrk[p]))
    /\ sbrk' = [sbrk EXCEPT ![p] = @ + size]
    /\ req' = [req EXCEPT ![p] = [rgid |-> r, arg |-> size]]
    /\ UNCHANGED <<symrgtbl, vm_freerg_list, dangling, histories>>

\* The rest of pgalloc(), whether or not there were frames for all pages.
PgAllocEnd(p) ==
    /\ \/ OutOfMemory(p) /\ UNCHANGED mapped
       \/ /\ MapRange(p)
          /\ mapped' = [mapped EXCEPT ![p] = @ \cup (npages[p] - want[p])..(npages[p] - 1)]
    /\ SetRegion(p, req[p].rgid, sbrk[p] - req[p].arg, req[p].arg)
    /\ req' = [req EXCEPT ![p] = NoReq]
    /\ UNCHANGED <<vm_freerg_list, sbrk, dangling, beyond>>

-----------------------------------------------------------------------------
(* FREE, READ and WRITE *)

\* Mutant: the entry of the symbol table is kept.
PgFreeKeeps(p, r) ==
    /\ Ready(p)
    /\ \/ /\ Dangles(vm_freerg_list[p], symrgtbl[p][r])
          /\ dangling' = [dangling EXCEPT ![p] = TRUE]
          /\ UNCHANGED vm_freerg_list
       \/ /\ ~Dangles(vm_freerg_list[p], symrgtbl[p][r])
          /\ vm_freerg_list' = [vm_freerg_list EXCEPT ![p] = Enlisted(@, symrgtbl[p][r])]
          /\ UNCHANGED dangling
    /\ UNCHANGED <<vars, symrgtbl, sbrk, req, mapped, lost, wrote, beyond>>

\* pgfree_data()
PgFree(p, r) ==
    /\ Ready(p)
    /\ \/ /\ Dangles(vm_freerg_list[p], symrgtbl[p][r])
          /\ dangling' = [dangling EXCEPT ![p] = TRUE]
          /\ UNCHANGED vm_freerg_list
       \/ /\ ~Dangles(vm_freerg_list[p], symrgtbl[p][r])
          /\ vm_freerg_list' = [vm_freerg_list EXCEPT ![p] = Enlisted(@, symrgtbl[p][r])]
          /\ UNCHANGED dangling
    /\ symrgtbl' = [symrgtbl EXCEPT ![p][r] = NoRegion]
    /\ wrote' = [wrote EXCEPT ![p][r] = {}]
    /\ UNCHANGED <<vars, sbrk, req, mapped, lost, beyond>>

RegionSize(p, r) == symrgtbl[p][r].rg_end - symrgtbl[p][r].rg_start

\* The address of an access, its page and its byte in the page.
Address(p, r, off) == symrgtbl[p][r].rg_start + off
PAGING_PGN(addr) == addr \div PAGING_PAGESZ
PAGING_OFFST(addr) == addr % PAGING_PAGESZ

\* Mutant: the offset is compared with the end of the region.
PassesEnd(p, r, off) == off <= symrgtbl[p][r].rg_end

\* Mutant: one more byte passes.
PassesLoose(p, r, off) == off <= RegionSize(p, r) + 1

\* The test of pgread() and pgwrite().
Passes(p, r, off) == off <= RegionSize(p, r)

\* A WRITE through r at off reaches the memory.
Wrote(p, r, off, v) ==
    \/ /\ v # None /\ off < RegionSize(p, r)
       /\ wrote' = [wrote EXCEPT ![p][r] = @ \cup {off}]
       /\ UNCHANGED beyond
    \/ v # None /\ off >= RegionSize(p, r) /\ beyond' = TRUE /\ UNCHANGED wrote
    \/ v = None /\ UNCHANGED <<wrote, beyond>>

\* READ (v = None) or WRITE (v = r) of a page in RAM.
PgHit(p, r, off, v) ==
    LET addr == Address(p, r, off) IN
    /\ Passes(p, r, off)
    /\ Hit(p, PAGING_PGN(addr), PAGING_OFFST(addr), v)
    /\ Wrote(p, r, off, v)
    /\ UNCHANGED <<areas, mapped, lost>>

\* READ or WRITE of another page, up to the first copy of the page fault.
PgMiss(p, r, off, v) ==
    LET addr == Address(p, r, off) IN
    /\ Passes(p, r, off)
    /\ \E vic \in Page : Miss(p, PAGING_PGN(addr), PAGING_OFFST(addr), v, vic)
    /\ req' = [req EXCEPT ![p] = [rgid |-> r, arg |-> off]]
    /\ UNCHANGED <<symrgtbl, vm_freerg_list, sbrk, dangling, histories>>

PgMissOutside(p, r, off) ==
    /\ Passes(p, r, off)
    /\ \E vic \in Page : MissOutside(p, PAGING_PGN(Address(p, r, off)), vic)
    /\ UNCHANGED <<areas, histories>>

\* READ or WRITE that changes nothing: refused, or without a victim.
PgNothing(p, r, off) ==
    /\ mpc[p] = "idle"
    /\ Passes(p, r, off) => Drop(p, PAGING_PGN(Address(p, r, off)))
    /\ UNCHANGED memvars

\* The end of a READ or WRITE with a page fault.
PgFinish(p) ==
    /\ Finish(p)
    /\ Wrote(p, req[p].rgid, req[p].arg, fault[p].data)
    /\ req' = [req EXCEPT ![p] = NoReq]
    /\ UNCHANGED <<symrgtbl, vm_freerg_list, sbrk, dangling, mapped, lost>>

-----------------------------------------------------------------------------

\* An instruction that run() passes on begins.
Instruction(p, r) ==
    \/ \E size \in Size :
          PgAllocFree(p, r, size) \/ PgAllocInPage(p, r, size) \/ PgAllocGrow(p, r, size)
    \/ PgFree(p, r)
    \/ \E off \in Offsets :
          \/ \E v \in {r, None} : PgHit(p, r, off, v) \/ PgMiss(p, r, off, v)
          \/ PgMissOutside(p, r, off)
          \/ PgNothing(p, r, off)

\* A step of the instruction that is under way.
Continue(p) ==
    \/ (GetRamFrame(p) \/ GetSwpFrame(p)) /\ UNCHANGED <<areas, histories>>
    \/ PgAllocEnd(p)
    \/ (SwapOut(p) \/ SwapIn(p)) /\ UNCHANGED <<areas, histories>>
    \/ PgFinish(p)

MemNext ==
    \/ ~undefined /\ \E p \in Proc : Continue(p) \/ \E r \in Rgid : Instruction(p, r)
    \/ Undefined /\ UNCHANGED <<areas, histories>>

MemSpec == MemInit /\ [][MemNext]_memvars

-----------------------------------------------------------------------------
(* Properties *)

\* The datum in the byte at offset off of region r.
Stored(p, r, off) ==
    LET addr == Address(p, r, off) IN Contents(p, PAGING_PGN(addr))[PAGING_OFFST(addr)]

\* The byte at offset off of region r holds what was written there.
AsWritten(p, r, off) == Stored(p, r, off) = Datum(p, PAGING_PGN(Address(p, r, off)), r)

\* What was written through an index is read back through it: no other region
\* of the process, no other process and no exchange with swap changes it, from
\* ALLOC to FREE, however the free list was cut and merged in between.  Three
\* defects end it: a WRITE at the offset behind its region, a WRITE after a
\* page fault, a fault without a free swap frame.
RegionsHold ==
    ~beyond /\ ~stray /\ ~wild =>
        \A p \in Proc, r \in Rgid : \A off \in wrote[p][r] : AsWritten(p, r, off)

\* How far the first of these defects reaches: the byte behind a region, or
\* byte 0 when the index has been freed, is in no region or the first byte of
\* one.  So a WRITE there harms no byte of a region but its first.
FirstByteHarmed ==
    ~stray /\ ~wild =>
        \A p \in Proc, r \in Rgid : \A off \in wrote[p][r] \ {0} : AsWritten(p, r, off)

\* Every access that pgread() or pgwrite() lets through stays within the pages
\* of the process and the one behind them, as Paging assumes.
AccessInReach ==
    \A p \in Proc, r \in Rgid : \A off \in Offsets :
        mpc[p] = "idle" /\ Passes(p, r, off) => PAGING_PGN(Address(p, r, off)) \in Reach(p)

\* The area of p as module Region sees it.  An allocation that is under way has
\* not begun there: its pages are not in the area, and its frames are free.
Pending(p) == mpc[p] = "alloc"

Area(p) == INSTANCE Region WITH
    Frames <- RamFrames + SwpFrames,
    MaxBreak <- MaxPages * PAGING_PAGESZ,
    symrgtbl <- symrgtbl[p],
    vm_freerg_list <- vm_freerg_list[p],
    sbrk <- IF Pending(p) THEN sbrk[p] - req[p].arg ELSE sbrk[p],
    vm_end <- (npages[p] - want[p]) * PAGING_PAGESZ,
    mapped <- mapped[p],
    frames <- Len(ram_free) + Len(swp_free) + Got(p),
    dangling <- dangling[p],
    lost <- lost[p]

\* The area of each process behaves as Region says, although its allocations
\* are interleaved with the other processes frame by frame.
MemoryImplementsRegion ==
    /\ \A p \in Proc : Area(p)!Init
    /\ [][\A p \in Proc : UNCHANGED Area(p)!vars \/ Area(p)!Next]_memvars

=============================================================================
