-------------------------------- MODULE Sched --------------------------------
(***************************************************************************)
(* The multi-level queue scheduler: src/sched.c (built with MLQ_SCHED) and *)
(* src/queue.c.  There is one FIFO queue per priority; level 0 is the most *)
(* urgent.  Level k may be served MAX_PRIO - k times before its slots are  *)
(* used up; the slots of all levels are refilled together.                 *)
(*                                                                         *)
(* get_mlq_proc() is not one critical section: it scans the sizes of the   *)
(* queues without the lock, tests each level under the lock, reads the     *)
(* slots of the level without it, and takes it again to dequeue.  Each of  *)
(* these is a step here, so that CPUs inside get_proc() interleave.  The   *)
(* other operations are one critical section and one action each.          *)
(*                                                                         *)
(* The callers are a loader, which adds every process once, and CPUs,      *)
(* which call get_proc() when they hold no process and put_proc() or       *)
(* free() with the one they hold.  Module OS has the callers themselves.   *)
(***************************************************************************)
EXTENDS Integers, Sequences, FiniteSets

CONSTANTS
    CPU,            \* the CPUs
    Proc,           \* the processes of the configuration file
    NULL,           \* the null pointer
    MAX_PRIO,       \* number of priority levels
    MAX_QUEUE_SIZE, \* capacity of the array of a queue
    UINT_MAX,       \* largest value of the unsigned counter slot
    prio            \* prio[p]: the priority of process p

ASSUME SchedAssumption ==
    /\ NULL \notin Proc /\ IsFiniteSet(Proc)
    /\ MAX_PRIO \in Nat /\ MAX_PRIO > 1
    /\ MAX_QUEUE_SIZE \in Nat
    /\ UINT_MAX \in Nat /\ MAX_PRIO <= UINT_MAX
    /\ prio \in [Proc -> 0..(MAX_PRIO - 1)]

Level == 0..(MAX_PRIO - 1)

VARIABLES
    mlq_ready_queue, \* mlq_ready_queue[k]: the processes ready at level k
    slot,            \* slot[k]: how often level k may still be served
    gpc,             \* gpc[c]: where CPU c is in get_mlq_proc(), or "idle"
    prio_select,     \* prio_select[c]: the level that CPU c looks at there
    proc,            \* proc[c]: the process that CPU c holds, or NULL
    loaded,          \* processes that the loader has added
    finished         \* processes that have been freed

schedVars == <<mlq_ready_queue, slot, gpc, prio_select, proc, loaded, finished>>

SchedTypeOK ==
    /\ mlq_ready_queue \in [Level -> Seq(Proc)]
    /\ slot \in [Level -> 0..UINT_MAX]
    /\ gpc \in [CPU -> {"idle", "scan", "select", "slot", "take", "reset"}]
    /\ prio_select \in [CPU -> Level]
    /\ proc \in [CPU -> Proc \cup {NULL}]
    /\ loaded \in SUBSET Proc
    /\ finished \in SUBSET Proc

\* resetSlot()
FullSlots == [k \in Level |-> MAX_PRIO - k]

SchedInit ==
    /\ mlq_ready_queue = [k \in Level |-> <<>>]
    /\ slot = FullSlots
    /\ gpc = [c \in CPU |-> "idle"]
    /\ prio_select = [c \in CPU |-> 0]
    /\ proc = [c \in CPU |-> NULL]
    /\ loaded = {}
    /\ finished = {}

-----------------------------------------------------------------------------
(* src/queue.c *)

Empty(k) == mlq_ready_queue[k] = <<>>

\* enqueue() has written behind the array of a queue, over its size and its slot.
Overrun == \E k \in Level : Len(mlq_ready_queue[k]) > MAX_QUEUE_SIZE

\* Mutant: the new process overwrites the last one.
EnqueueOver(p) ==
    mlq_ready_queue' = [mlq_ready_queue EXCEPT ![prio[p]] =
        IF @ = <<>> THEN <<p>> ELSE [@ EXCEPT ![Len(@)] = p]]

\* enqueue(), which does not test the capacity of the array.
Enqueue(p) ==
    mlq_ready_queue' = [mlq_ready_queue EXCEPT ![prio[p]] = Append(@, p)]

\* Mutant: the process stays in the queue.
DequeueKeeps(c, k) ==
    /\ proc' = [proc EXCEPT ![c] = IF Empty(k) THEN NULL ELSE Head(mlq_ready_queue[k])]
    /\ UNCHANGED mlq_ready_queue

\* dequeue() of level k, which returns NULL when the level is empty.
Dequeue(c, k) ==
    \/ /\ Empty(k)
       /\ proc' = [proc EXCEPT ![c] = NULL]
       /\ UNCHANGED mlq_ready_queue
    \/ /\ ~Empty(k)
       /\ proc' = [proc EXCEPT ![c] = Head(mlq_ready_queue[k])]
       /\ mlq_ready_queue' = [mlq_ready_queue EXCEPT ![k] = Tail(@)]

\* Mutant: a signed counter.
DecrementSigned(n) == n - 1

\* slot--, in unsigned arithmetic.
Decrement(n) == IF n = 0 THEN UINT_MAX ELSE n - 1

-----------------------------------------------------------------------------
(* add_proc(), put_proc(), free() *)

\* add_proc() by the loader.
AddProc(p) ==
    /\ p \notin loaded
    /\ loaded' = loaded \cup {p}
    /\ Enqueue(p)
    /\ UNCHANGED <<slot, gpc, prio_select, proc, finished>>

\* Mutant: the CPU keeps the process that it puts back.
PutProcKeeps(c) ==
    /\ gpc[c] = "idle"
    /\ proc[c] # NULL
    /\ Enqueue(proc[c])
    /\ UNCHANGED <<slot, gpc, prio_select, proc, loaded, finished>>

\* put_proc() by the CPU that holds the process.
PutProc(c) ==
    /\ gpc[c] = "idle"
    /\ proc[c] # NULL
    /\ Enqueue(proc[c])
    /\ proc' = [proc EXCEPT ![c] = NULL]
    /\ UNCHANGED <<slot, gpc, prio_select, loaded, finished>>

\* free() of a process that has run to its end.
FreeProc(c) ==
    /\ gpc[c] = "idle"
    /\ proc[c] # NULL
    /\ finished' = finished \cup {proc[c]}
    /\ proc' = [proc EXCEPT ![c] = NULL]
    /\ UNCHANGED <<mlq_ready_queue, slot, gpc, prio_select, loaded>>

-----------------------------------------------------------------------------
(* get_mlq_proc() *)

\* CPU c goes on at level k of the scan or of the loop, or returns.
Goto(c, where, k) ==
    /\ gpc' = [gpc EXCEPT ![c] = where]
    /\ prio_select' = [prio_select EXCEPT ![c] = k]

Return(c) == Goto(c, "idle", 0)

\* continue: the loop goes to the level after k, or ends and returns NULL.
NextLevel(c, k) ==
    IF k = MAX_PRIO - 1 THEN Return(c) ELSE Goto(c, "select", k + 1)

GetProc(c) ==
    /\ gpc[c] = "idle"
    /\ proc[c] = NULL
    /\ Goto(c, "scan", 0)
    /\ UNCHANGED <<mlq_ready_queue, slot, proc, loaded, finished>>

\* One turn of the loop of queue_empty(), which takes no lock.
QueueEmpty(c) ==
    LET k == prio_select[c] IN
    /\ gpc[c] = "scan"
    /\ \/ ~Empty(k) /\ Goto(c, "select", 0)
       \/ Empty(k) /\ k < MAX_PRIO - 1 /\ Goto(c, "scan", k + 1)
       \/ Empty(k) /\ k = MAX_PRIO - 1 /\ Return(c)
    /\ UNCHANGED <<mlq_ready_queue, slot, proc, loaded, finished>>

\* Mutant: the slots are not refilled when the last level is empty.
SelectLevelNoRefill(c) ==
    LET k == prio_select[c] IN
    /\ gpc[c] = "select"
    /\ IF Empty(k) THEN NextLevel(c, k) ELSE Goto(c, "slot", k)
    /\ UNCHANGED <<mlq_ready_queue, slot, proc, loaded, finished>>

\* The first critical section of the loop: skip an empty level.
SelectLevel(c) ==
    LET k == prio_select[c] IN
    /\ gpc[c] = "select"
    /\ \/ /\ Empty(k)
          /\ slot' = IF k = MAX_PRIO - 1 THEN FullSlots ELSE slot
          /\ NextLevel(c, k)
       \/ /\ ~Empty(k)
          /\ Goto(c, "slot", k)
          /\ UNCHANGED slot
    /\ UNCHANGED <<mlq_ready_queue, proc, loaded, finished>>

\* Mutants: slot >= 0, which is always true; slot > 1; no refill behind the last level.
TestSlotAlways(c) ==
    /\ gpc[c] = "slot"
    /\ Goto(c, "take", prio_select[c])
    /\ UNCHANGED <<mlq_ready_queue, slot, proc, loaded, finished>>

TestSlotOffByOne(c) ==
    LET k == prio_select[c] IN
    /\ gpc[c] = "slot"
    /\ \/ slot[k] > 1 /\ Goto(c, "take", k)
       \/ slot[k] <= 1 /\ k = MAX_PRIO - 1 /\ Goto(c, "reset", k)
       \/ slot[k] <= 1 /\ k < MAX_PRIO - 1 /\ NextLevel(c, k)
    /\ UNCHANGED <<mlq_ready_queue, slot, proc, loaded, finished>>

TestSlotNoReset(c) ==
    LET k == prio_select[c] IN
    /\ gpc[c] = "slot"
    /\ IF slot[k] > 0 THEN Goto(c, "take", k) ELSE NextLevel(c, k)
    /\ UNCHANGED <<mlq_ready_queue, slot, proc, loaded, finished>>

\* if (slot > 0), read without the lock.
TestSlot(c) ==
    LET k == prio_select[c] IN
    /\ gpc[c] = "slot"
    /\ \/ slot[k] > 0 /\ Goto(c, "take", k)
       \/ slot[k] = 0 /\ k = MAX_PRIO - 1 /\ Goto(c, "reset", k)
       \/ slot[k] = 0 /\ k < MAX_PRIO - 1 /\ NextLevel(c, k)
    /\ UNCHANGED <<mlq_ready_queue, slot, proc, loaded, finished>>

\* The second critical section: dequeue, count the slot, and return.
TakeProc(c) ==
    LET k == prio_select[c] IN
    /\ gpc[c] = "take"
    /\ Dequeue(c, k)
    /\ slot' = [slot EXCEPT ![k] = Decrement(@)]
    /\ Return(c)
    /\ UNCHANGED <<loaded, finished>>

\* Mutant: the loop starts again with the slots as they are.
ResetSlotsNot(c) ==
    /\ gpc[c] = "reset"
    /\ NextLevel(c, 0)
    /\ UNCHANGED <<mlq_ready_queue, slot, proc, loaded, finished>>

\* The third: refill the slots and start again.  The loop increments
\* prio_select once more, so it starts again at level 1.
ResetSlots(c) ==
    /\ gpc[c] = "reset"
    /\ slot' = FullSlots
    /\ NextLevel(c, 0)
    /\ UNCHANGED <<mlq_ready_queue, proc, loaded, finished>>

GetStep(c) ==
    QueueEmpty(c) \/ SelectLevel(c) \/ TestSlot(c) \/ TakeProc(c) \/ ResetSlots(c)

\* A CPU: it calls get_proc(), runs what it gets, and puts it back.
Serve(c) == GetProc(c) \/ GetStep(c) \/ PutProc(c)

\* What a program does after the overrun of an array is undefined: the model
\* stops there.
Undefined == Overrun /\ UNCHANGED schedVars

SchedNext ==
    \/ ~Overrun /\ \E p \in Proc : AddProc(p)
    \/ ~Overrun /\ \E c \in CPU : Serve(c) \/ FreeProc(c)
    \/ Undefined

SchedSpec == SchedInit /\ [][SchedNext]_schedVars

-----------------------------------------------------------------------------
(* Properties *)

Queued(p) == \E i \in 1..Len(mlq_ready_queue[prio[p]]) : mlq_ready_queue[prio[p]][i] = p
Held(p) == \E c \in CPU : proc[c] = p

\* A queue holds only loaded processes of its own level, each once, and none
\* that a CPU holds or that has been freed.
QueueOnce ==
    \A k \in Level : \A i \in 1..Len(mlq_ready_queue[k]) :
        /\ mlq_ready_queue[k][i] \in loaded \ finished
        /\ prio[mlq_ready_queue[k][i]] = k
        /\ \A c \in CPU : proc[c] # mlq_ready_queue[k][i]
        /\ \A j \in 1..Len(mlq_ready_queue[k]) :
              mlq_ready_queue[k][j] = mlq_ready_queue[k][i] => i = j

\* A CPU holds only a process that is loaded, not freed, and held by no other.
HeldOnce ==
    \A c \in CPU : proc[c] # NULL =>
        /\ proc[c] \in loaded \ finished
        /\ \A d \in CPU : proc[d] = proc[c] => c = d

\* A process is never in two places, however the CPUs interleave inside
\* get_proc(): no process runs on two CPUs, is ready while it runs, is ready
\* twice, or is used after free().
OnePlace == Overrun \/ (QueueOnce /\ HeldOnce)

\* Every process that was added and not freed is in its queue or held by a CPU.
Placed == \A p \in loaded \ finished : Queued(p) \/ Held(p)

\* No process is lost, however the CPUs interleave inside get_proc().
NoneLost == Overrun \/ Placed

\* The processes of level k that are loaded and unfinished, and run on no CPU.
Waiting(k) == {p \in loaded \ finished : prio[p] = k /\ ~Held(p)}

\* enqueue() writes behind the array of a queue only when more processes of
\* its level wait than the array has places: those that run leave theirs free,
\* those that have finished too, and none takes two.
OverrunOnlyIfCrowded ==
    \A k \in Level :
        Len(mlq_ready_queue[k]) > MAX_QUEUE_SIZE => Cardinality(Waiting(k)) > MAX_QUEUE_SIZE

\* The state that the comment above get_mlq_proc() describes: "curr_slot =
\* 0..(MAX_PRIO - prio)".  The counter of a level never goes below 0 (where it
\* would wrap around and leave the level unlimited) nor above its share.
SlotRange ==
    Overrun \/ \A k \in Level : slot[k] \in 0..(MAX_PRIO - k)

\* No process starves: while the CPUs keep calling get_proc(), every ready
\* process is eventually given to a CPU, whatever its priority.
NoStarvation ==
    \A p \in Proc : Queued(p) ~> (Held(p) \/ Overrun)

=============================================================================
