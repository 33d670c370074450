-------------------------------- MODULE Paging --------------------------------
(***************************************************************************)
(* The pages of the processes and the frames of RAM and swap they share    *)
(* (src/mm.c, src/mm-memphy.c and the page part of src/mm-vm.c).  Processes*)
(* run on different CPUs at the same time: an action is what one process   *)
(* does between two accesses to a device, the free frame lists (under      *)
(* lock_mem) and the contents of frames.                                   *)
(*                                                                         *)
(* A byte of a frame holds the page and the value of the last WRITE that   *)
(* reached it.                                                             *)
(*                                                                         *)
(* A page table entry keeps the frame number in bits 0..12 and the swap    *)
(* offset in bits 5..25.  The entry of a page that is present is only read *)
(* as a frame number; the entry of one that is not is read as both, and    *)
(* its frame number is then its offset shifted by five bits and cut to     *)
(* thirteen.  The devices are assumed to have no more frames than the two  *)
(* fields can number: read_config() does not test that.                    *)
(*                                                                         *)
(* No frame ever becomes free again: nothing calls free_pcb_memph().  The  *)
(* list of used frames is only printed, and left out.                      *)
(***************************************************************************)
EXTENDS Integers, Sequences

CONSTANTS
    Proc,      \* the processes
    Value,     \* the values they write
    None,      \* no value: a READ, or a page that was not written
    RamFrames, \* frames of mram
    SwpFrames, \* frames of active_mswp
    PAGING_PAGESZ, \* bytes in a page
    SwpUnit,   \* 2^PAGING_PTE_SWPOFF_LOBIT
    FpnMod,    \* 2^(PAGING_PTE_FPN_HIBIT + 1)
    SwpMod,    \* 2^(PAGING_PTE_SWPOFF_HIBIT - PAGING_PTE_SWPOFF_LOBIT + 1)
    MaxPages   \* bound of the model on the pages of a process

ASSUME PagingAssumption ==
    /\ None \notin Value
    /\ RamFrames \in Nat \ {0}
    /\ SwpFrames \in Nat \ {0}
    /\ PAGING_PAGESZ \in Nat \ {0}
    /\ SwpUnit \in Nat \ {0}
    /\ FpnMod \in Nat \ {0} /\ RamFrames <= FpnMod
    /\ SwpMod \in Nat \ {0} /\ SwpFrames <= SwpMod
    /\ MaxPages \in Nat \ {0}

VARIABLES
    ram_free,     \* mram->free_fp_list
    swp_free,     \* active_mswp->free_fp_list
    ram,          \* contents of the frames of mram
    swp,          \* contents of the frames of active_mswp
    pgd,          \* pgd[p][n]: entry of page n of process p
    fifo_pgn,     \* fifo_pgn[p]: page numbers for find_victim_page()
    npages,       \* npages[p]: pages below vm_end
    mpc,          \* mpc[p]: where process p is in a memory operation
    want,         \* want[p]: pages that the allocation of p asks for
    frm_lst,      \* frm_lst[p]: frames of RAM it got so far
    frm_lst_swap, \* frm_lst_swap[p]: frames of swap it got so far
    fault,        \* fault[p]: local variables of pg_getpage() and its caller
    written,      \* history: written[p][n][o]: last value written to byte o of page n
    stray,        \* history: a WRITE reached a frame that is not its page's
    wild,         \* history: a swap frame number was used uninitialized
    undefined     \* memory outside the devices was read or written

memory == <<ram_free, swp_free, ram, swp>>
tables == <<pgd, fifo_pgn, npages>>
locals == <<want, frm_lst, frm_lst_swap>>
vars == <<memory, tables, mpc, locals, fault, written, stray, wild, undefined>>

RamFrame == 0..(RamFrames - 1)
SwpFrame == 0..(SwpFrames - 1)
Page == 0..MaxPages
Offset == 0..(PAGING_PAGESZ - 1)

\* PTE: the present bit, the swapped bit, and a frame number or an offset.
Pte == [present : BOOLEAN, swapped : BOOLEAN, val : Nat]
Blank == [present |-> FALSE, swapped |-> FALSE, val |-> 0]

Data == [proc : Proc, pgn : Page, value : Value]
Datum(p, n, v) == [proc |-> p, pgn |-> n, value |-> v]

\* The contents of a frame or page that was not written.
Unwritten == [o \in Offset |-> None]

NoFault == [pgn |-> 0, off |-> 0, vicpgn |-> 0, swpfpn |-> 0, fpn |-> 0, data |-> None]

PagingTypeOK ==
    /\ ram_free \in Seq(RamFrame)
    /\ swp_free \in Seq(SwpFrame)
    /\ ram \in [RamFrame -> [Offset -> Data \cup {None}]]
    /\ swp \in [SwpFrame -> [Offset -> Data \cup {None}]]
    /\ pgd \in [Proc -> [Page -> Pte]]
    /\ \A p \in Proc, n \in Page :
          pgd[p][n].val \in IF pgd[p][n].present THEN RamFrame ELSE SwpFrame
    /\ fifo_pgn \in [Proc -> Seq(Page)]
    /\ npages \in [Proc -> 0..MaxPages]
    /\ mpc \in [Proc -> {"idle", "alloc", "out", "in", "access"}]
    /\ want \in [Proc -> 0..MaxPages]
    /\ frm_lst \in [Proc -> Seq(RamFrame)]
    /\ frm_lst_swap \in [Proc -> Seq(SwpFrame)]
    /\ fault \in [Proc -> [pgn : Page, off : Offset, vicpgn : Page, swpfpn : SwpFrame,
                           fpn : 0..(FpnMod - 1), data : Value \cup {None}]]
    /\ written \in [Proc -> [Page -> [Offset -> Value \cup {None}]]]
    /\ stray \in BOOLEAN /\ wild \in BOOLEAN /\ undefined \in BOOLEAN

\* MEMPHY_format() for both devices and init_mm() for each process; what it
\* does not initialize is zero.
Init ==
    /\ ram_free = [i \in 1..RamFrames |-> i - 1]
    /\ swp_free = [i \in 1..SwpFrames |-> i - 1]
    /\ ram = [f \in RamFrame |-> Unwritten]
    /\ swp = [f \in SwpFrame |-> Unwritten]
    /\ pgd = [p \in Proc |-> [n \in Page |-> Blank]]
    /\ fifo_pgn = [p \in Proc |-> <<>>]
    /\ npages = [p \in Proc |-> 0]
    /\ mpc = [p \in Proc |-> "idle"]
    /\ want = [p \in Proc |-> 0]
    /\ frm_lst = [p \in Proc |-> <<>>]
    /\ frm_lst_swap = [p \in Proc |-> <<>>]
    /\ fault = [p \in Proc |-> NoFault]
    /\ written = [p \in Proc |-> [n \in Page |-> Unwritten]]
    /\ stray = FALSE /\ wild = FALSE /\ undefined = FALSE

-----------------------------------------------------------------------------
(* Page table entries and the page list *)

\* pte_set_fpn(), which cuts the frame number to its field
SetFpn(fpn) == [present |-> TRUE, swapped |-> FALSE, val |-> fpn % FpnMod]

\* Mutant: the offset is shifted when it is stored and not when it is read.
SetSwapShifted(swpoff) == [present |-> FALSE, swapped |-> TRUE, val |-> swpoff * SwpUnit]

\* pte_set_swap(), which cuts the offset to its field
SetSwap(swpoff) == [present |-> FALSE, swapped |-> TRUE, val |-> swpoff % SwpMod]

\* PAGING_FPN, also for an entry that holds a swap offset.
Fpn(pte) == IF pte.present THEN pte.val ELSE (pte.val * SwpUnit) % FpnMod

\* Mutant: only the last page of a range is enlisted.
EnlistLast(list, first, last) == <<last>> \o list

\* enlist_pgn_node() for the pages first, first + 1, ..., last.
EnlistRange(list, first, last) == [i \in 1..(last - first + 1) |-> last + 1 - i] \o list

\* A list of pages without its node of page n.
Without(list, n) ==
    IF \E i \in 1..Len(list) : list[i] = n
      THEN LET i == CHOOSE i \in 1..Len(list) : list[i] = n
           IN  SubSeq(list, 1, i - 1) \o SubSeq(list, i + 1, Len(list))
      ELSE list

\* enlist_pgn_node() for one page.  The code leaves an older node of the page in
\* the list, where find_victim_page() finds the newer one first; here it goes.
Enlist(list, n) == <<n>> \o Without(list, n)

\* find_victim_page(): the first page of the list that is present.
IsVictim(p, n) ==
    \E i \in 1..Len(fifo_pgn[p]) :
        /\ fifo_pgn[p][i] = n
        /\ pgd[p][n].present
        /\ \A j \in 1..(i - 1) : ~pgd[p][fifo_pgn[p][j]].present

-----------------------------------------------------------------------------
(* Allocation *)

Goto(p, label) == mpc' = [mpc EXCEPT ![p] = label]

\* inc_vma_limit(), up to vm_map_ram(): vm_end grows by k pages.
IncLimit(p, k) ==
    /\ mpc[p] = "idle"
    /\ npages[p] + k <= MaxPages
    /\ npages' = [npages EXCEPT ![p] = @ + k]
    /\ want' = [want EXCEPT ![p] = k]
    /\ Goto(p, "alloc")
    /\ UNCHANGED <<memory, pgd, fifo_pgn, frm_lst, frm_lst_swap, fault,
                   written, stray, wild, undefined>>

Got(p) == Len(frm_lst[p]) + Len(frm_lst_swap[p])

\* alloc_pages_range(), one round: a frame of RAM,
GetRamFrame(p) ==
    /\ mpc[p] = "alloc" /\ Got(p) < want[p]
    /\ ram_free # <<>>
    /\ ram_free' = Tail(ram_free)
    /\ frm_lst' = [frm_lst EXCEPT ![p] = <<Head(ram_free)>> \o @]
    /\ UNCHANGED <<swp_free, ram, swp, tables, mpc, want, frm_lst_swap, fault,
                   written, stray, wild, undefined>>

\* Mutant: the frame stays in the free list.
GetSwpFrameKeeps(p) ==
    /\ mpc[p] = "alloc" /\ Got(p) < want[p]
    /\ ram_free = <<>> /\ swp_free # <<>>
    /\ frm_lst_swap' = [frm_lst_swap EXCEPT ![p] = <<Head(swp_free)>> \o @]
    /\ UNCHANGED <<memory, tables, mpc, want, frm_lst, fault, written, stray, wild, undefined>>

\* or one of swap when RAM has none,
GetSwpFrame(p) ==
    /\ mpc[p] = "alloc" /\ Got(p) < want[p]
    /\ ram_free = <<>> /\ swp_free # <<>>
    /\ swp_free' = Tail(swp_free)
    /\ frm_lst_swap' = [frm_lst_swap EXCEPT ![p] = <<Head(swp_free)>> \o @]
    /\ UNCHANGED <<ram_free, ram, swp, tables, mpc, want, frm_lst, fault,
                   written, stray, wild, undefined>>

EmptyLists(p) ==
    /\ want' = [want EXCEPT ![p] = 0]
    /\ frm_lst' = [frm_lst EXCEPT ![p] = <<>>]
    /\ frm_lst_swap' = [frm_lst_swap EXCEPT ![p] = <<>>]

\* or out of memory: the frames it got are lost, nothing is mapped.
OutOfMemory(p) ==
    /\ mpc[p] = "alloc" /\ Got(p) < want[p]
    /\ ram_free = <<>> /\ swp_free = <<>>
    /\ EmptyLists(p)
    /\ Goto(p, "idle")
    /\ UNCHANGED <<memory, tables, fault, written, stray, wild, undefined>>

\* Mutant: only the pages with a frame of RAM are mapped.
MapRangeRamOnly(p) ==
    LET first == npages[p] - want[p] IN
    /\ mpc[p] = "alloc" /\ Got(p) = want[p]
    /\ pgd' = [pgd EXCEPT ![p] = [n \in Page |->
          IF n \in first..(first + Len(frm_lst[p]) - 1)
            THEN SetFpn(frm_lst[p][n - first + 1]) ELSE pgd[p][n]]]
    /\ fifo_pgn' = [fifo_pgn EXCEPT ![p] = EnlistRange(@, first + 1, npages[p])]
    /\ EmptyLists(p)
    /\ Goto(p, "idle")
    /\ UNCHANGED <<memory, npages, fault, written, stray, wild, undefined>>

\* vmap_page_range(): first the pages in RAM, then the ones in swap.  Where it
\* enlists a page pgit is already counted up, so it enlists the one behind it.
\* What was written to a page before it was part of the area is forgotten, here
\* and in written: no region contains it, and nobody may rely on it.
MapRange(p) ==
    LET first == npages[p] - want[p]
        inram == Len(frm_lst[p])
    IN
    /\ mpc[p] = "alloc" /\ Got(p) = want[p]
    /\ pgd' = [pgd EXCEPT ![p] = [n \in Page |->
          IF n \in first..(first + inram - 1) THEN SetFpn(frm_lst[p][n - first + 1])
          ELSE IF n \in (first + inram)..(npages[p] - 1)
                 THEN SetSwap(frm_lst_swap[p][n - first - inram + 1])
          ELSE pgd[p][n]]]
    /\ fifo_pgn' = [fifo_pgn EXCEPT ![p] = EnlistRange(@, first + 1, npages[p])]
    /\ written' = [written EXCEPT ![p] = [n \in Page |->
          IF n \in first..(npages[p] - 1) THEN Unwritten ELSE written[p][n]]]
    /\ EmptyLists(p)
    /\ Goto(p, "idle")
    /\ UNCHANGED <<memory, npages, fault, stray, wild, undefined>>

-----------------------------------------------------------------------------
(* READ and WRITE *)

\* The end of pg_getval() and pg_setval(): byte o of frame fpn of RAM is read,
\* or v is written to it.  A frame number beyond the device reaches other memory.
Touch(p, n, o, fpn, v) ==
    /\ undefined' = (undefined \/ fpn \notin RamFrame)
    /\ \/ v = None /\ UNCHANGED <<ram, written, stray>>
       \/ /\ v # None
          /\ written' = [written EXCEPT ![p][n][o] = v]
          /\ stray' = (stray \/ pgd[p][n] # SetFpn(fpn))
          /\ ram' = IF fpn \in RamFrame THEN [ram EXCEPT ![fpn][o] = Datum(p, n, v)] ELSE ram

\* The pages that a process reaches: its own and, because pgread() and pgwrite()
\* let an offset pass that equals the size of the region, the one behind them.
Reach(p) == 0..npages[p]

\* pg_getpage() for a page that is present.
Hit(p, n, o, v) ==
    /\ mpc[p] = "idle"
    /\ n \in Reach(p)
    /\ pgd[p][n].present
    /\ Touch(p, n, o, Fpn(pgd[p][n]), v)
    /\ UNCHANGED <<ram_free, swp_free, swp, tables, mpc, locals, fault, wild>>

\* pg_getpage() for another page, without a victim: it fails, and __read() and
\* __write() do not look at that.
Drop(p, n) ==
    /\ mpc[p] = "idle"
    /\ n \in Reach(p)
    /\ ~pgd[p][n].present
    /\ \A vic \in Page : ~IsVictim(p, vic)
    /\ UNCHANGED vars

\* With a victim, up to MEMPHY_get_freefp(), whose result is not looked at:
\* without a free frame swpfpn is whatever the stack held.
Miss(p, n, o, v, vic) ==
    /\ mpc[p] = "idle"
    /\ n \in Reach(p)
    /\ ~pgd[p][n].present
    /\ IsVictim(p, vic)
    /\ \E f \in SwpFrame :
       /\ \/ swp_free # <<>> /\ f = Head(swp_free) /\ swp_free' = Tail(swp_free) /\ UNCHANGED wild
          \/ swp_free = <<>> /\ wild' = TRUE /\ UNCHANGED swp_free
       /\ fault' = [fault EXCEPT ![p] = [pgn |-> n, off |-> o, vicpgn |-> vic, swpfpn |-> f,
                                         fpn |-> Fpn(pgd[p][n]), data |-> v]]
    /\ Goto(p, "out")
    /\ UNCHANGED <<ram_free, ram, swp, tables, locals, written, stray, undefined>>

\* An uninitialized swpfpn beyond the device: the victim goes to other memory.
MissOutside(p, n, vic) ==
    /\ mpc[p] = "idle"
    /\ n \in Reach(p)
    /\ ~pgd[p][n].present
    /\ IsVictim(p, vic)
    /\ swp_free = <<>>
    /\ wild' = TRUE
    /\ undefined' = TRUE
    /\ UNCHANGED <<memory, tables, mpc, locals, fault, written, stray>>

\* The victim's frame.
VicFpn(p) == Fpn(pgd[p][fault[p].vicpgn])

\* Mutant: the target is copied to RAM before the victim is copied to swap.
SwapOutLate(p) ==
    LET tgt == swp[pgd[p][fault[p].pgn].val] IN
    /\ mpc[p] = "out"
    /\ ram' = [ram EXCEPT ![VicFpn(p)] = tgt]
    /\ swp' = [swp EXCEPT ![fault[p].swpfpn] = tgt]
    /\ Goto(p, "in")
    /\ UNCHANGED <<ram_free, swp_free, tables, locals, fault, written, stray, wild, undefined>>

\* __swap_cp_page() from RAM to swap.
SwapOut(p) ==
    /\ mpc[p] = "out"
    /\ swp' = [swp EXCEPT ![fault[p].swpfpn] = ram[VicFpn(p)]]
    /\ Goto(p, "in")
    /\ UNCHANGED <<ram_free, swp_free, ram, tables, locals, fault, written, stray, wild, undefined>>

\* Mutant: the target's entry keeps its swap frame number as frame number (the
\* line that the code has commented out).
SwapInTarget(p) ==
    LET n == fault[p].pgn IN
    /\ mpc[p] = "in"
    /\ ram' = [ram EXCEPT ![VicFpn(p)] = swp[pgd[p][n].val]]
    /\ pgd' = [pgd EXCEPT ![p][fault[p].vicpgn] = SetSwap(fault[p].swpfpn),
                          ![p][n] = SetFpn(@.val)]
    /\ fifo_pgn' = [fifo_pgn EXCEPT ![p] = Enlist(@, n)]
    /\ Goto(p, "access")
    /\ UNCHANGED <<ram_free, swp_free, swp, npages, locals, fault, written, stray, wild, undefined>>

\* __swap_cp_page() from swap to RAM, and the updates of the page table.
SwapIn(p) ==
    LET n == fault[p].pgn IN
    /\ mpc[p] = "in"
    /\ ram' = [ram EXCEPT ![VicFpn(p)] = swp[pgd[p][n].val]]
    /\ pgd' = [pgd EXCEPT ![p][fault[p].vicpgn] = SetSwap(fault[p].swpfpn),
                          ![p][n] = SetFpn(VicFpn(p))]
    /\ fifo_pgn' = [fifo_pgn EXCEPT ![p] = Enlist(@, n)]
    /\ Goto(p, "access")
    /\ UNCHANGED <<ram_free, swp_free, swp, npages, locals, fault, written, stray, wild, undefined>>

\* The access itself, at the frame number of the entry read before the fault.
Finish(p) ==
    /\ mpc[p] = "access"
    /\ Touch(p, fault[p].pgn, fault[p].off, fault[p].fpn, fault[p].data)
    /\ fault' = [fault EXCEPT ![p] = NoFault]
    /\ Goto(p, "idle")
    /\ UNCHANGED <<ram_free, swp_free, swp, tables, locals, wild>>

-----------------------------------------------------------------------------

Alloc(p) ==
    \/ \E k \in 1..MaxPages : IncLimit(p, k)
    \/ GetRamFrame(p) \/ GetSwpFrame(p) \/ OutOfMemory(p) \/ MapRange(p)

Access(p) ==
    \/ \E n \in Page, o \in Offset, v \in Value \cup {None} :
          Hit(p, n, o, v) \/ \E vic \in Page : Miss(p, n, o, v, vic)
    \/ \E n, vic \in Page : MissOutside(p, n, vic)
    \/ \E n \in Page : Drop(p, n)
    \/ SwapOut(p) \/ SwapIn(p) \/ Finish(p)

\* After an access outside the devices nothing is known.
Undefined == undefined /\ UNCHANGED vars

Next == (~undefined /\ \E p \in Proc : Alloc(p) \/ Access(p)) \/ Undefined

Spec == Init /\ [][Next]_vars

-----------------------------------------------------------------------------
(* Properties *)

\* The places of the frames of RAM: the free list, the list of a process that
\* is allocating, an entry of a page table.
RamPlaces ==
    {<<"free", None, i, ram_free[i]>> : i \in 1..Len(ram_free)}
    \cup (UNION {{<<"list", p, i, frm_lst[p][i]>> : i \in 1..Len(frm_lst[p])} : p \in Proc})
    \cup (UNION {{<<"page", p, n, pgd[p][n].val>> : n \in {m \in Page : pgd[p][m].present}} : p \in Proc})

\* No frame of RAM is in two places: MEMPHY_get_freefp() never hands one to two
\* processes, whatever the order of their requests, and the exchange of
\* pg_getpage() never maps one twice.
RamExclusive == \A a, b \in RamPlaces : a[4] = b[4] => a = b

\* The same for the frames of swap, where a page fault that is under way also
\* holds one.  An uninitialized frame number ends it.
SwpPlaces ==
    {<<"free", None, i, swp_free[i]>> : i \in 1..Len(swp_free)}
    \cup (UNION {{<<"list", p, i, frm_lst_swap[p][i]>> : i \in 1..Len(frm_lst_swap[p])} : p \in Proc})
    \cup {<<"fault", p, 0, fault[p].swpfpn>> : p \in {q \in Proc : mpc[q] \in {"out", "in"}}}
    \cup (UNION {{<<"page", p, n, pgd[p][n].val>> : n \in {m \in Page : pgd[p][m].swapped}} : p \in Proc})

\* No frame of swap is in two places, until one was used that no list gave out.
SwpExclusive == ~wild => \A a, b \in SwpPlaces : a[4] = b[4] => a = b

\* The contents of page n of p, wherever it is.
Contents(p, n) == IF pgd[p][n].present THEN ram[pgd[p][n].val] ELSE swp[pgd[p][n].val]

\* The last value written to a page is in the page, through every exchange with
\* swap and next to the faults of the other processes, until a WRITE goes
\* astray or a swap frame is used that no list gave out.
DataKept ==
    ~stray /\ ~wild =>
        \A p \in Proc, n \in Page, o \in Offset :
            written[p][n][o] # None => Contents(p, n)[o] = Datum(p, n, written[p][n][o])

\* A page below vm_end has a place, unless both devices are used up (the
\* allocation then fails) or its process is still allocating.
PagesPlaced ==
    \A p \in Proc : \A n \in 0..(npages[p] - 1) :
        \/ pgd[p][n].present \/ pgd[p][n].swapped
        \/ mpc[p] = "alloc"
        \/ ram_free = <<>> /\ swp_free = <<>>

\* What the README says of memory management ("isolates the memory space of
\* each process from other"): the frame that a process is about to read or
\* write after a page fault is not the frame of a page of another process.
Isolated ==
    \A p, q \in Proc, n \in Page :
        p # q /\ mpc[p] = "access" /\ pgd[q][n].present => pgd[q][n].val # fault[p].fpn

\* Every page in RAM but page 0 can be found as a victim, although
\* vmap_page_range() enlists the page behind each page that it maps: the
\* ranges that it maps follow each other without a gap.
VictimsTracked ==
    \A p \in Proc, n \in Page \ {0} :
        pgd[p][n].present => \E i \in 1..Len(fifo_pgn[p]) : fifo_pgn[p][i] = n

\* Bound of the model: a behavior is followed up to the first WRITE that goes
\* astray (what the frames hold does not matter to the other variables) and the
\* first use of a swap frame number that MEMPHY_get_freefp() did not give.
UntilAstray == undefined \/ (~stray /\ ~wild)

=============================================================================
