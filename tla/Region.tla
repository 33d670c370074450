-------------------------------- MODULE Region --------------------------------
(***************************************************************************)
(* The virtual memory area of one process (src/mm-vm.c): the symbol table  *)
(* of its regions, the list of free regions, and the break that grows.     *)
(* The operations are the instructions of the process that run() executes: *)
(* ALLOC and FREE.  READ and WRITE change nothing here; their addresses     *)
(* matter in module Paging.                                                *)
(*                                                                         *)
(* A process runs on one CPU at a time, so its instructions are atomic     *)
(* here; the frames of RAM and swap it shares with other processes are     *)
(* counted in frames, which others may take too (module Paging has the     *)
(* frames themselves).                                                     *)
(***************************************************************************)
EXTENDS FreeList

CONSTANTS
    Rgid,          \* indices of the symbol table that the process uses
    Size,          \* sizes that it asks for, none of them 0
    PAGING_PAGESZ, \* bytes in a page
    Frames,        \* frames of RAM and swap together
    MaxBreak       \* bound of the model on the break

ASSUME RegionAssumption ==
    /\ Size \subseteq Nat \ {0}
    /\ PAGING_PAGESZ \in Nat \ {0}
    /\ Frames \in Nat
    /\ MaxBreak \in Nat

VARIABLES
    symrgtbl,       \* symrgtbl[r]: the region of index r; [0, 0] if there is none
    vm_freerg_list, \* the free regions
    sbrk,           \* the break: no region lies above it
    vm_end,         \* end of the pages that belong to the area
    mapped,         \* pages that have a frame
    frames,         \* frames still free, of all processes
    dangling,       \* a freed node is linked in vm_freerg_list
    lost            \* history: bytes of regions whose index was allocated again

vars == <<symrgtbl, vm_freerg_list, sbrk, vm_end, mapped, frames, dangling, lost>>

Region == [rg_start : 0..MaxBreak, rg_end : 0..MaxBreak]

\* PAGING_PAGE_ALIGNSZ
Align(n) == ((n + PAGING_PAGESZ - 1) \div PAGING_PAGESZ) * PAGING_PAGESZ

RegionTypeOK ==
    /\ symrgtbl \in [Rgid -> Region]
    /\ vm_freerg_list \in Seq(Region)
    /\ sbrk \in 0..MaxBreak
    /\ vm_end \in Nat
    /\ mapped \subseteq Nat
    /\ frames \in 0..Frames
    /\ dangling \in BOOLEAN
    /\ lost \subseteq 0..MaxBreak

\* init_mm(); the memory it does not initialize is zero.
Init ==
    /\ symrgtbl = [r \in Rgid |-> NoRegion]
    /\ vm_freerg_list = <<>>
    /\ sbrk = 0
    /\ vm_end = 0
    /\ mapped = {}
    /\ frames = Frames
    /\ dangling = FALSE
    /\ lost = {}

-----------------------------------------------------------------------------
(* The instructions *)

SetRegion(r, start, end) ==
    /\ symrgtbl' = [symrgtbl EXCEPT ![r] = [rg_start |-> start, rg_end |-> end]]
    /\ lost' = lost \cup Bytes(symrgtbl[r])

\* pgalloc() when a free region fits.
AllocFree(r, size) ==
    /\ ~dangling
    /\ Fits(vm_freerg_list, size) # {}
    /\ LET i == First(Fits(vm_freerg_list, size)) IN
       /\ SetRegion(r, vm_freerg_list[i].rg_start, vm_freerg_list[i].rg_start + size)
       /\ vm_freerg_list' = Taken(vm_freerg_list, i, size)
    /\ UNCHANGED <<sbrk, vm_end, mapped, frames, dangling>>

\* Mutants: the number of frames is not looked at; one page too few.
MapPagesUnchecked(first, n) ==
    mapped' = mapped \cup first..(first + n - 1) /\ frames' = frames - n

MapPagesShort(first, n) ==
    IF n <= frames
      THEN mapped' = mapped \cup first..(first + n - 2) /\ frames' = frames - n
      ELSE frames' = 0 /\ UNCHANGED mapped

\* vm_map_ram(): map n pages from page first on.  If there are fewer frames it
\* takes them all and maps none.
MapPages(first, n) ==
    IF n <= frames
      THEN mapped' = mapped \cup first..(first + n - 1) /\ frames' = frames - n
      ELSE frames' = 0 /\ UNCHANGED mapped

\* inc_vma_limit(): the break and the area grow before the pages are mapped.
IncVmaLimit(size) ==
    LET inc_amt == Align(size + sbrk) - Align(sbrk) IN
    /\ sbrk' = sbrk + size
    /\ vm_end' = vm_end + inc_amt
    /\ MapPages(vm_end \div PAGING_PAGESZ, inc_amt \div PAGING_PAGESZ)

\* pgalloc() at the break; whether inc_vma_limit() failed is not looked at.
AllocBreak(r, size) ==
    /\ ~dangling
    /\ Fits(vm_freerg_list, size) = {}
    /\ sbrk + size <= MaxBreak
    /\ SetRegion(r, sbrk, sbrk + size)
    /\ \/ /\ size + sbrk > Align(sbrk) \/ sbrk = vm_end
          /\ IncVmaLimit(size)
       \/ /\ ~(size + sbrk > Align(sbrk) \/ sbrk = vm_end)
          /\ sbrk' = sbrk + size
          /\ UNCHANGED <<vm_end, mapped, frames>>
    /\ UNCHANGED <<vm_freerg_list, dangling>>

\* pgfree_data()
Free(r) ==
    /\ ~dangling
    /\ \/ /\ Dangles(vm_freerg_list, symrgtbl[r])
          /\ dangling' = TRUE
          /\ UNCHANGED vm_freerg_list
       \/ /\ ~Dangles(vm_freerg_list, symrgtbl[r])
          /\ vm_freerg_list' = Enlisted(vm_freerg_list, symrgtbl[r])
          /\ UNCHANGED dangling
    /\ symrgtbl' = [symrgtbl EXCEPT ![r] = NoRegion]
    /\ UNCHANGED <<sbrk, vm_end, mapped, frames, lost>>

\* Another process takes a frame.
OtherProcess ==
    /\ frames > 0
    /\ frames' = frames - 1
    /\ UNCHANGED <<symrgtbl, vm_freerg_list, sbrk, vm_end, mapped, dangling, lost>>

\* A freed node is in the list: what the process does next is undefined.
Undefined == dangling /\ UNCHANGED vars

Next ==
    \/ \E r \in Rgid :
          \/ \E size \in Size : AllocFree(r, size) \/ AllocBreak(r, size)
          \/ Free(r)
    \/ OtherProcess
    \/ Undefined

Spec == Init /\ [][Next]_vars

-----------------------------------------------------------------------------
(* Properties *)

\* The pieces into which the operations cut the space below the break: the
\* regions in use, the free ones, and the lost bytes.
Pieces ==
    {<<"used", r, Bytes(symrgtbl[r])>> : r \in Rgid}
    \cup {<<"free", i, Bytes(vm_freerg_list[i])>> : i \in 1..Len(vm_freerg_list)}
    \cup {<<"lost", 0, lost>>}

\* Every byte below the break is in exactly one piece: regions in use never
\* overlap each other or a free region, however the free list was split and
\* merged, and no byte disappears except by allocating an index again.
Partition ==
    ~dangling =>
        /\ UNION {piece[3] : piece \in Pieces} = 0..(sbrk - 1)
        /\ \A a, b \in Pieces : a # b => a[3] \cap b[3] = {}

\* Freed neighbours are merged: no two free regions touch.
Coalesced ==
    ~dangling =>
        \A i, j \in 1..Len(vm_freerg_list) :
            vm_freerg_list[i].rg_end # vm_freerg_list[j].rg_start

\* The area always ends at the end of the page of the break, so the test of
\* __alloc() for a break inside a page is right and no page is mapped twice.
EndOfPage ==
    /\ vm_end = Align(sbrk)
    /\ \A n \in mapped : n < vm_end \div PAGING_PAGESZ

\* What __alloc() says when it sets the region ("Successful increase limit"):
\* every page of a region in use has a frame.
RegionMapped ==
    \A r \in Rgid : \A b \in Bytes(symrgtbl[r]) : b \div PAGING_PAGESZ \in mapped

\* With enough frames for the area, every region that was handed out is mapped.
MappedUnlessOutOfFrames == frames > 0 => RegionMapped

\* What enlist_vm_freerg_list() is for ("add new rg to freerg_list"): the list
\* holds free regions and never a node that was freed.
ListIntact == ~dangling

=============================================================================
