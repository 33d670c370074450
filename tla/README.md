# The OS simulator in TLA+

A model of the operating system simulator in this repository (`src/src/*.c`):
TLA+ modules for its parts, TLC runs on small instances, and TLAPS proofs for
every instance.  Paths below are relative to the repository; `PROJECT.json`
maps each definition to the lines it models.

## The system

The simulator runs one POSIX thread per simulated CPU, a loader thread and a
timer thread.  The configured build has `MLQ_SCHED` and `MM_PAGING`
(`include/os-cfg.h`).

| Part | State | Operations | Modules |
|---|---|---|---|
| Timer (`timer.c`) | list of attached devices, per device the flags `done` and `fsh`, `_time` | `attach_event`, `start_timer`, `next_slot`, `detach_event`, `stop_timer`, the timer thread | `SlotBarrier`, `Timer`, `TimerProofs` |
| Scheduler (`sched.c`, `queue.c`) | one FIFO queue and one slot counter per priority | `get_proc`, `put_proc`, `add_proc` | `Sched`, `SchedHistory`, `SchedProofs` |
| CPU and loader threads (`os.c`, `run()` of `cpu.c`) | per CPU the current process and `time_left`; per process `pc`; the loader's index; `done` | the loops `cpu_routine`, `ld_routine` | `OS`, `OSProofs` |
| Virtual area (`mm-vm.c`) | symbol table, list of free regions, break, end of the area | ALLOC, FREE | `FreeList`, `Region`, `RegionProofs` |
| Paging (`mm.c`, `mm-memphy.c`, `mm-vm.c`) | free frame lists and contents of RAM and swap, page tables, list of victims | allocation and mapping of frames, page fault, access | `Paging`, `PagingProofs` |
| Memory instructions (`run()` of `cpu.c`, `mm-vm.c`) | the areas and the pages of all processes | ALLOC, FREE, READ, WRITE, by index and offset | `Memory`, `MemoryProofs` |
| Files (`read_config()` and `main()` of `os.c`, `loader.c`, `init_memphy()`) | the configuration, the program that is being loaded, the free lists of new devices | reading the configuration, making the devices, loading a program | `Loader`, `LoaderProofs` |

How they interact:

* Every CPU and the loader are *devices* of the timer: each ends its slot with
  `next_slot()` and is held until all have, or have detached.
* CPUs and the loader share the ready queues.  `queue_lock` guards each access
  but not all of `get_mlq_proc()`: it is taken and released up to twice per
  level, and the scan of `queue_empty()` and the test of `slot` are outside it.
* `read_config()` fixes the number of CPUs, the quantum, the devices and the
  processes; the loader thread reads the program of each process when its turn
  comes, so a bad file can end the simulator in the middle of a run.
* Processes that run on different CPUs share the free frame lists and the
  devices (`lock_mem`, per access); page tables and regions belong to one
  process, which is on one CPU at a time (`OnePlace` below).

What is hard: two locks for the field `done`, condition variables with
spurious wakeups, the unlocked parts of `get_mlq_proc()`, the wrap-around of
the unsigned slot counter, a CPU that stops or idles on what `get_proc()`
returned, merging of free regions by copying list nodes, page faults that
run out of victims or swap, accesses through stale indices, and files read
without looking at what `fscanf()` returns.  `PROJECT.json` lists these as hazards, each at its
line and with the properties that would catch it.

## The modules

**SlotBarrier** is what the timer promises: `Arrive` (next_slot), `Leave`
(detach_event), `Tick`.

**Timer** is the code behind it: one action per critical section of
`timer_routine()`, `next_slot()` and `detach_event()`, plus the part of
`main()` that attaches devices, starts threads (the timer first, the loader
second) and joins them.  A thread in `pthread_cond_wait()` is in state
`"sleep"`, and may wake without a signal.  `TimerImplementsBarrier` states the
refinement: a device has arrived from `done = 1` until the clock advances.

**Sched** splits `get_mlq_proc()` at each access to shared state: the scan of
`queue_empty()` level by level, the locked test for an empty level, the
unlocked test of `slot`, the locked `dequeue` and decrement, the locked refill.
The counter wraps at `UINT_MAX`.  `enqueue()` does not test the capacity of the
array: a queue may grow one place beyond it (`Overrun`), and there the model
stops (`Undefined`), because what the overwritten size and slot then do is
undefined.  The environment (who calls `put_proc`, when a
process ends) is left open: any CPU may put back or free what it holds.
**SchedHistory** adds a history variable for `HighestPriorityFirst`.

**OS** composes `Sched` and `SlotBarrier` with the loops of `cpu_routine()` and
`ld_routine()`.  `run()` is the program counter; the instructions themselves
are the actions of `Region` and `Paging`.  The configuration (`size`, `prio`,
`start_time`, the order of `ld_processes`, `time_slot`) are constants: what
`read_config()` and `load()` leave behind.  `_time` stops counting at
`TimeCap`; nothing compares it with more than the last start time.

**FreeList** has the operations on a list of free regions, as operators; `Region`
and `Memory` use them.

**Region** is the address space of one process.  Frames are only counted, and
other processes may take them at any time.  The dummy region that ends the free
list is left out.  Once a freed node is linked in the list (`dangling`) the
model stops: what follows is undefined.

**Paging** has the frames: several processes allocate, one locked
`MEMPHY_get_freefp()` per step, map, and read and write pages.  A page fault is
four steps (victim and swap frame; copy out; copy in and page table; access),
which interleave with other processes.  A page has `PAGING_PAGESZ` bytes, and
a byte holds the process, the page and the value of the last WRITE that reached
it, so data in a wrong place is seen.  A READ or WRITE of a frame that the device
does not have sets `undefined`, and the model stops.  `MapRange` forgets what
was written to a page before it became part of the area (a WRITE behind an area
that ended at a page boundary): the code maps a fresh frame there, so that datum
is lost, and no property claims it.  A page is copied in one step: the code
copies it byte by byte, and only an access that has gone astray could tell.  In
a page table entry the frame number and the swap offset overlap;
`Fpn` decodes an entry that holds an offset as the code does, with `SwpUnit`
and `FpnMod` for `2^5` and `2^13`; the setters mask what they store, with
`FpnMod` and with `SwpMod` for the `2^21` of the offset.

**Memory** puts the areas on top of the pages.  Its steps are the steps of
`Paging`, with the page and the byte computed from the symbol table as `__read()`
and `__write()` do; an ALLOC that has to grow the area is one step for the break
and `vm_end`, one per frame, and one for the page table and the symbol table.
`Area(p)` is the refinement mapping to `Region`: an ALLOC under way has not
begun there, the frames it already holds count as free, and a frame taken by
any other operation is a step of `OtherProcess`.

**Loader** reads files as sequences of tokens.  `Scan` is `fscanf()`: the
conversions of a format that match are consumed, the first that does not match
ends the call, and its target and the ones behind it keep what they held: 0 for
the static variables of `os.c`, the last path for the buffer of `read_config()`, the last
opcode for the buffer of `load()`, and `Unset` for fresh memory.  An
uninitialized size of a program is any number up to `MaxSize`.  Files are
sequences of `Token`, whose numbers are 0 to `INT_MAX`, the range in which `%d`,
`%u` and `%lu` store a number as it is written, and whose words fit the buffers;
`LoaderAssumption` says nothing else about them.

**TimerProofs**, **SchedProofs**, **OSProofs**, **PagingProofs**,
**RegionProofs**, **MemoryProofs** and **LoaderProofs** hold the theorems about
these modules.  **ProofFacts** has the lemmas that several of them use: about
sequences, about rounding to pages, and about what the operations of `FreeList`
do to a list and to the bytes of an area.

**MCSched**, **MCOS**, **MCPaging**, **MCMemory** and **MCLoader** give TLC its instances.  Definitions marked "Mutant" are
plausible bugs, used only to show that each property can fail.

## Runs

| Run | Instance | Shows |
|---|---|---|
| `timer` | 3 devices, 4 slots | lockstep, no lost wakeup, clean hand-over of `done`, stable clock, exit, refinement of the barrier; every `next_slot()` returns, the program ends |
| `sched` | 2 CPUs, 4 processes, 2 levels, 3 processes on one whose queue holds 2, counter 0..3 | no process lost or in two places until an array overruns; it overruns only when more processes of a level wait than it has places |
| `sched_one_cpu` | 1 CPU, 3 processes, 3 levels | slot range, most urgent level first, no starvation |
| `os` | 2 CPUs, loader, 4 processes, quantum 2, queues of 2 | one instruction per slot, whole quanta, processes run in full, no process of the last level left when all CPUs have stopped; every slot ends, every process finishes unless all CPUs stop |
| `region` | 3 indices, sizes 1..3, pages of 2 bytes, break up to 7, 4 frames | partition of the space, merging, mapping |
| `paging` | 2 processes of up to 3 pages of 1 byte, 4 + 2 frames | exclusive frames, data kept through swapping, placed pages, victims that can be found |
| `memory` | 2 processes with 2 indices, sizes 1 and 3, offsets 0, 1 and 3, pages of 2 bytes, up to 3 pages for one process and 1 byte for the other, 2 + 3 frames | a region holds what was written through its index, a WRITE behind a region harms at most the first byte of another, accesses stay where `Paging` expects them, each area implements `Region` |
| `loader` | 36 configuration files (2 processes, 1 swap device) and all program files of up to 4 tokens, or of up to 2 instructions with a declared size of 0 to 3, complete and damaged | files in the format are read as written, `load()` and `run()` agree, the devices start as `Paging` assumes |

Bounds.  Two CPUs and the loader are enough for every pair of critical sections
to interleave, and the third device makes the timer's visits asymmetric.  Two
levels with three processes on one and one on the other reach each branch of
`get_mlq_proc()`, the wrapped counter included, and with queues of two the
overrun of an array: `sched` and `os` contain behaviours that end there and
behaviours in which the third process runs or has finished when it could.  A third level is needed for
restarting at level 1 to differ from the last level.  A break of seven with pages of two
reaches regions inside a page, across pages and ending at a boundary, and a
free region between two others.  Four frames of RAM in `paging` let two
processes have a victim each, so that their page faults interleave; with fewer
only one of them can fault.  The `paging` run is cut
(`CONSTRAINT UntilAstray`) behind the first use of an uninitialized swap
frame and the first WRITE that goes astray: those states are checked and not
extended (a stray WRITE changes only what frames hold, which no other variable
depends on).  The `memory` run is cut behind
a use of an uninitialized swap frame and a WRITE after a page fault (not behind
the first WRITE behind a region, which `FirstByteHarmed` is about), behind a second byte that holds data
at the same time (the byte that would be damaged; overwriting needs no other),
and behind an ALLOC of an index in use, which `region` covers.  Three pages are
needed for a page in swap and a victim in RAM other than page 0; sizes 1 and 3
give regions inside a page, across a boundary, and ALLOCs of one and of two
pages.  Offset 1 is behind a region of one byte, 3 behind a
region of three, and 0 behind none.  In `loader` a damaged file lacks one token, has one replaced by a word,
or ends early; the sample `input/sched_0` is one of the configurations.

Fairness is weak fairness of each thread (the host runs every thread; the
critical sections are finite and nobody holds a lock while waiting for
something else).  Spurious wakeups are not fair: liveness never relies on them.
In `sched_one_cpu` the CPU keeps calling the scheduler, which `cpu_routine()`
does until it stops.

### Where the code departs from what it says

Four runs are expected to fail; each counterexample is the behaviour of the
code, and the finding in `PROJECT.json` quotes the line it contradicts.

| Run | What happens |
|---|---|
| `os_abandoned` | `get_proc()` returns NULL in the call that refills the slots; the CPU stops with a process ready |
| `os_termination` | a CPU that idles when the last process ends never looks at `done` |
| `region_merge` | merging with both neighbours, one following the other in the list, uses a freed node |
| `paging_isolation` | after a fault the access uses the frame number of the old entry |

Others are built into the models and have no run of their own:

* Two CPUs pass the unlocked test `slot > 0` and the second decrement wraps the
  counter, against the comment at `sched.c:51`: `SlotRange` holds with one CPU
  only (`SlotRangeTheorem`), and `sched` and `os` include the wrapped counter.
* `enqueue()` writes behind the array when more than `MAX_QUEUE_SIZE` processes of
  a level wait, which no configuration is refused for: `OverrunOnlyIfCrowded` says
  when, and `OnePlace`, `NoneLost` and the liveness properties hold until then.
* Running out of frames is ignored and the region is handed out unmapped:
  `MappedUnlessOutOfFrames`, `PagesPlaced`.
* An offset equal to the size of the region is accepted, and with it offset 0 of
  an index that was freed or never allocated, which is byte 0 of the process.
  `Reach` and `AccessInReach` take it into account; `RegionsHold` holds until the
  first such WRITE (`beyond`), and fails right behind it, after one ALLOC and two
  WRITEs.  `FirstByteHarmed` has no such proviso and says how far the damage can go:
  the first byte of a region, never another one.
* Mapping enlists the page behind the mapped one, so page 0 is never a victim
  (`MapRange`, `VictimsTracked`), and an access that would need it is dropped.
* A fault without a free swap frame uses an uninitialized number (`Miss`, the
  history variable `wild`).
* A file of the older format (`input/sched_0`, `input/sched_1`, `input/sched`,
  `input/os_1_singleCPU_mlq`) is not refused but misread, a program that
  declares more instructions than it has repeats its last one, and one that
  declares fewer (`input/proc/p1s`, `p2s`, `p3s`, `paging_proc4`) is cut short.
  `ConfigAsWritten` and `LoadedAsWritten` are about files in the format.

Because of these some properties carry a condition: those of the scheduler and
of the threads that depend on the queues hold until an array overruns, `DataKept` holds until a
write goes astray or a swap frame is used that no list gave out, `SwpExclusive`
until the latter, `RegionsHold` until either or a WRITE behind its region,
`Partition` until a freed node is in the list, `SlotRange` and `NoStarvation`
with one CPU.

## Proofs

Every safety property that a passing run checks is proved for every value of the
constants that satisfies the assumptions named in the modules.  The bounds of the models (`MaxPages`,
`MaxBreak`, `TimeCap` and the like) are constants too, so the theorems hold for
each of their values.

* **Timer** (any number of devices and slots).  `Lockstep` alone is not
  inductive: it needs where the timer stands in its list.  `IInv` adds
  `BootInv` (main starts and stops the timer around the device threads),
  `FlagInv` (the two flags tell where a device's thread is), `TimerInv`
  (devices behind the timer have arrived; devices it has still to release
  have too; what its counters mean) and `SlotInv` (the slot of each
  device relative to the clock).  All safety properties of the run and the
  refinement of `SlotBarrier` follow.
* **Sched** (any CPUs, processes, levels and counter width).  `PlacementInv` is
  the types, `QueueOnce`, `HeldOnce`, `Placed` and that a CPU inside `get_proc()` holds
  nothing.  It does not depend on the slot counters, so the race on them cannot
  lose or duplicate a process, and it holds in the state of the overrun too,
  where the places of the model are still those that the code wrote.
  `OverrunOnlyIfCrowded` follows by counting: the processes of a queue are
  different (`QueueOnce`), and each is loaded, unfinished and held by no CPU, so
  there are at least as many waiting as the queue is long.  `SlotRangeTheorem` and `HighestPriorityFirstTheorem` assume
  one CPU; with two, another CPU can empty a queue or use a slot between the
  test and the dequeue.  `HistoryInv` says that this cannot happen: what was
  eligible at the call stays eligible and is not passed (`EligibleInv`), and the
  level that was found is not empty when it is taken from (`FoundInv`).  While
  slots are refilled nothing was eligible.
* **OS**.  Every step is composed of a step of `Sched`, or none, and a step of
  the barrier, or none, so the placement invariant of `Sched` holds in the
  composed system (`OSPlacement`).
  `QuantaInFull` needs `QuantaInv`: a CPU without a process has no time left, in
  whichever of the three places it gets one; and what a running process has
  run, with the time it has left, makes whole quanta, unless it is at its end.
  `RunOncePerSlot` needs `RanHeld` (a process that ran is still held, by a CPU
  that waits for the next slot) and `InLoop`.  `LastLevelServed` is the part of
  `NoneAbandoned` (run `os_abandoned`) that does hold: with at least one CPU, no
  process of the last level is left.  It needs two
  facts.  `StoppedLate`: a CPU stops only without a process and after the loader
  has left.  `LastWatched`: while a process of the last level is ready, some CPU
  does not stop (`Watches`): it has a process, or its call of `get_proc()` will
  come to one, or `done` cannot be set before it has tested it, because the
  loader waits for the slot to end.
* **Paging** (any processes, frames, pages and page size; RAM and swap have
  no more frames than the fields of a page table entry can name).  `PagingInv` has five parts.
  `Shape`: the types; only an allocating process has frames in its lists, and
  never more than it asks for; a fault's target is absent and its victim present
  until the exchange; no entry is both present and swapped.  `RamApart` and `SwpApart`: exclusiveness place by
  place (free list, lists of processes, page tables, and for swap the
  frame that a fault holds), each once and no two together; this
  is what is inductive, `RamExclusive` and `SwpExclusive` follow from it.
  `RamApart` needs no proviso: neither a swap frame that was not given out nor
  a stray WRITE can make two pages share a frame of RAM.  `NextEnlisted`: the page that
  will be mapped next is already enlisted, or is page 0; without it
  `VictimsTracked` is not inductive, since mapping enlists the page *behind*
  each page.  `PlacedBefore`: the same as `PagesPlaced` in front of an
  allocation under way.  `VictimCopied` and `BlankUnwritten`, for `DataKept`:
  between the two copies the victim is in both devices, and a page that has no
  place was never written.
  `RamSufficesTheorem` removes the provisos for a simulation with enough RAM: if
  `Proc` is finite and `Cardinality(Proc) * MaxPages <= RamFrames`, then no
  allocation fails, swap is never used, no WRITE goes astray and every byte that
  was written is in the RAM frame of its page (`RamSuffices`).  `InRam` says which
  pages are present, `RamAccounted` that no frame is lost; `CountFrames` then
  counts: if no frame were free, each would have a page of its own (`Home`), and
  the one that the allocation asks for would be left over.  With one frame less
  it is false.  The theorem is about behaviors with `[]InsideArea`: no fault for
  the page behind an area, which the test of `pgread()` and `pgwrite()` allows.
  Such a fault uses swap however large RAM is, and the frame it maps there is
  lost when the area grows over that page.
* **Region** (any indices, sizes, page size and frames).  `RegionInv` adds to
  the run's properties `EndOfPage` (`vm_end` is the end of the page of the break,
  so no page is mapped twice) and `AreaInv`: no byte is in two regions in use, two free
  regions, or one of each, or lost, all bytes below the break are covered
  (`AreaApart`), free regions are not empty (`AreaShape`) and do not touch
  (`NoneTouch`, without which merging with one neighbour on each side would not
  be enough).  `AllMapped` is `MappedUnlessOutOfFrames` for the whole area: a
  region may end inside a page that an earlier one mapped.  Each operation is
  shown to rearrange the free list (`Rearranged`: all regions but the ones that it
  names are still there), and the bytes follow from that.
* **Memory** (any processes, indices, sizes and offsets).  `MemInv` is `PagingInv` and, for
  each process, `BreakShape` (`vm_end` is the end of the page of the break, and
  during an allocation of the old break too), `AreaKept` (`AreaInv` up to the
  break before that allocation), `FaultOfAccess` (a fault under way is for the
  page of the checked access) `WrittenThrough` (the last WRITE to a byte of a region
  went through its index, except for the first byte once a WRITE went behind a
  region) and `EmptyAtZero`.  The latter two give `FirstByteHarmed`: the byte before the one
  behind a region is in that region, so the one behind cannot be a later byte of
  another region (`BehindRegion`), and an index without a region leads to byte 0.  A step of one process leaves the others'
  parts alone (`OthersKept`).  `MemoryImplementsPaging` then gives all theorems
  of `PagingProofs` to `Memory`, `DataKept` and `WrittenThrough` give
  `RegionsHold` and `FirstByteHarmed`, and `MemoryRefinesRegion` gives the theorems of `RegionProofs`
  to the area of every process: each step of a process is one step of its area
  or none, and at most one frame taken for the areas of the others.
  `RegionsAlwaysInRam` is `RamSufficesTheorem` for the instructions: programs that
  stay inside their regions (`InBounds`) never fault behind their area, so with
  enough RAM every byte written through an index is in RAM, in the frame of its
  page, and the provisos of `RegionsHold` are not needed.
* **Loader** (any files, processes, swap devices and page size).
  `ConfigInv` says how much of the file is left before each line: then no line
  can shift the next.  `DevicesReady` needs only the types of the
  configuration.  `LoadedAsWritten` is about program files of any length, without
  an induction over the file: `Instructions(f, size)` is the set of the functions
  that give the positions of that many instructions, each behind the one before.
  `ReadSoFar` says that the text read so far is written at such positions and that
  the rest of the file follows the last (a round of the loop extends the function by
  one), unless a conversion failed; `ProgramSoFar` that none fails in a program.

Only model-checked: liveness (`SlotReturns`, `Termination`, `NoStarvation`,
`SlotEnds`, `Progress`), which is out of the prover's reach.

## Not modelled

* `mem.c`, `paging.c` and the branches without `MLQ_SCHED` or `MM_PAGING`: not
  part of the build, or never called in it.
* Values in the files that nothing validates (priorities, register indices,
  sizes of 0) are assumed valid outside `Loader`, and listed as hazards.
* Characters: a token of `Loader` is a number or a word, and words fit the
  buffers that `%s` writes to without a width (9 characters for an opcode, 99 for
  a path).
* Numbers below 0 or above `INT_MAX` in the files, which wrap in the unsigned
  targets, and devices with more frames than the fields of a page table entry
  can name.
* What the program does after it has written behind the array of a queue, or
  has accessed a byte outside a device.
* Output: dumps, page table and queue printing, the list of used frames.
* Sequential access devices: `main()` makes every device random access.
* Uninitialized memory in `init_mm()` (page table, `fifo_pgn`, symbol table) is
  taken to be zero, and a process is followed up to `MaxPages` pages, below the
  4 MB that its page table covers.
* The memory instructions inside `OS`: the composed state is too large for TLC.
  `OS` shows that a process is on one CPU at a time, which is what `Memory`
  needs: the instructions of one process follow each other.

## What could follow

Timer, scheduler and their composition with the threads, the areas, the pages and
the composition of both, and the files are modelled, and all safety properties
of the runs are proved.  Open:

1. Liveness proofs, with a prover that has fairness.
2. The memory instructions inside `OS`, by proof only: `Memory` for the
   processes that CPUs hold in `OS`.
3. The demand for swap: every fault takes a frame of swap and none is ever given
   back, so no size of the device rules out `wild` for all programs; a bound on
   the faults of a program would.
