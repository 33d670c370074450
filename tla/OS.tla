---------------------------------- MODULE OS ----------------------------------
(***************************************************************************)
(* The threads of src/os.c: every CPU (cpu_routine) and the loader         *)
(* (ld_routine), on top of the scheduler (module Sched) and in step with   *)
(* the timer (module SlotBarrier, which module Timer implements).          *)
(*                                                                         *)
(* An instruction is a step of the program counter: run() (src/cpu.c)      *)
(* always advances it by one, whatever the instruction does to the memory  *)
(* of its process and whether it succeeds, because cpu_routine() ignores   *)
(* the status that run() returns.                                          *)
(***************************************************************************)
EXTENDS SlotBarrier, Sched

CONSTANTS
    LD,             \* the loader, as a device of the timer
    time_slot,      \* instructions that a process may run before it is put back
    ld_processes,   \* the processes in the order of the configuration file
    start_time,     \* start_time[p]: the slot from which p may be loaded
    size            \* size[p]: the number of instructions of p

ASSUME OSAssumption ==
    /\ Device = CPU \cup {LD} /\ LD \notin CPU
    /\ time_slot \in Nat \ {0}
    /\ start_time \in [Proc -> 0..TimeCap]
    /\ size \in [Proc -> Nat]
    /\ ld_processes \in Seq(Proc)
    /\ \A i, j \in 1..Len(ld_processes) : ld_processes[i] = ld_processes[j] => i = j

VARIABLES
    cpc,        \* cpc[c]: where CPU c is in the loop of cpu_routine()
    time_left,  \* time_left[c]: instructions left to the process of CPU c
    pc,         \* pc[p]: the program counter of process p
    next,       \* the loader's index i, from 1
    done,       \* set by the loader when it has loaded everything
    ran         \* history: processes that have run in the current slot

osVars == <<cpc, time_left, pc, next, done, ran>>
vars == <<schedVars, barrierVars, osVars>>

ThreadTypeOK ==
    /\ cpc \in [CPU -> {"top", "first", "call", "check", "stopped"}]
    /\ time_left \in [CPU -> 0..time_slot]
    /\ pc \in [Proc -> Nat]
    /\ next \in 1..(Len(ld_processes) + 1)
    /\ done \in BOOLEAN
    /\ ran \in SUBSET Proc

OSTypeOK == SchedTypeOK /\ BarrierTypeOK /\ ThreadTypeOK

Init ==
    /\ SchedInit
    /\ BarrierInit
    /\ cpc = [c \in CPU |-> "top"]
    /\ time_left = [c \in CPU |-> 0]
    /\ pc = [p \in Proc |-> 0]
    /\ next = 1
    /\ done = FALSE
    /\ ran = {}

-----------------------------------------------------------------------------
(* ld_routine() *)

\* while (current_time() < start_time[i]) next_slot(timer_id);
LdWait ==
    /\ next <= Len(ld_processes)
    /\ time < start_time[ld_processes[next]]
    /\ Arrive(LD)
    /\ UNCHANGED <<schedVars, osVars>>

\* add_proc(proc); i++; next_slot(timer_id);
LdAdd ==
    /\ next <= Len(ld_processes)
    /\ time >= start_time[ld_processes[next]]
    /\ AddProc(ld_processes[next])
    /\ next' = next + 1
    /\ Arrive(LD)
    /\ UNCHANGED <<cpc, time_left, pc, done, ran>>

\* done = 1; detach_event(timer_id);
LdDone ==
    /\ next > Len(ld_processes)
    /\ done' = TRUE
    /\ Leave(LD)
    /\ UNCHANGED <<schedVars, cpc, time_left, pc, next, ran>>

Loader == LdWait \/ LdAdd \/ LdDone

-----------------------------------------------------------------------------
(* cpu_routine() *)

CpuGoto(c, where) == cpc' = [cpc EXCEPT ![c] = where]

\* The head of the loop, without a process: the first branch calls get_proc().
CpuFirst(c) ==
    /\ cpc[c] = "top"
    /\ Working(c)
    /\ GetProc(c)
    /\ CpuGoto(c, "first")
    /\ UNCHANGED <<barrierVars, time_left, pc, next, done, ran>>

\* Mutant: the process is freed one instruction early.
CpuFinishEarly(c) ==
    /\ cpc[c] = "top"
    /\ Working(c)
    /\ proc[c] # NULL
    /\ pc[proc[c]] + 1 >= size[proc[c]]
    /\ FreeProc(c)
    /\ time_left' = [time_left EXCEPT ![c] = 0]
    /\ CpuGoto(c, "call")
    /\ UNCHANGED <<barrierVars, pc, next, done, ran>>

\* Mutant: the next process inherits the time that is left.
CpuFinishStale(c) ==
    /\ cpc[c] = "top"
    /\ Working(c)
    /\ proc[c] # NULL
    /\ pc[proc[c]] = size[proc[c]]
    /\ FreeProc(c)
    /\ CpuGoto(c, "call")
    /\ UNCHANGED <<barrierVars, time_left, pc, next, done, ran>>

\* The process has finished: free(proc), and get_proc() is called next.
CpuFinish(c) ==
    /\ cpc[c] = "top"
    /\ Working(c)
    /\ proc[c] # NULL
    /\ pc[proc[c]] = size[proc[c]]
    /\ FreeProc(c)
    /\ time_left' = [time_left EXCEPT ![c] = 0]
    /\ CpuGoto(c, "call")
    /\ UNCHANGED <<barrierVars, pc, next, done, ran>>

\* The process has used its time: put_proc(proc), and get_proc() is called next.
CpuPut(c) ==
    /\ cpc[c] = "top"
    /\ Working(c)
    /\ proc[c] # NULL
    /\ pc[proc[c]] # size[proc[c]]
    /\ time_left[c] = 0
    /\ PutProc(c)
    /\ CpuGoto(c, "call")
    /\ UNCHANGED <<barrierVars, time_left, pc, next, done, ran>>

\* The process goes on.
CpuKeep(c) ==
    /\ cpc[c] = "top"
    /\ Working(c)
    /\ proc[c] # NULL
    /\ pc[proc[c]] # size[proc[c]]
    /\ time_left[c] # 0
    /\ CpuGoto(c, "check")
    /\ UNCHANGED <<schedVars, barrierVars, time_left, pc, next, done, ran>>

\* proc = get_proc() of the second and third branch.
CpuCall(c) ==
    /\ cpc[c] = "call"
    /\ GetProc(c)
    /\ CpuGoto(c, "check")
    /\ UNCHANGED <<barrierVars, time_left, pc, next, done, ran>>

\* A step inside get_proc().
CpuGet(c) == GetStep(c) /\ UNCHANGED <<barrierVars, osVars>>

\* get_proc() has returned NULL: skip the slot.  The first branch does so
\* without looking at done.
CpuSkip(c) ==
    /\ gpc[c] = "idle"
    /\ proc[c] = NULL
    /\ cpc[c] = "first" \/ (cpc[c] = "check" /\ ~done)
    /\ CpuGoto(c, "top")
    /\ Arrive(c)
    /\ UNCHANGED <<schedVars, time_left, pc, next, done, ran>>

\* get_proc() has returned NULL in the other branches, and done is set: the
\* thread detaches and exits.
CpuStop(c) ==
    /\ gpc[c] = "idle"
    /\ proc[c] = NULL
    /\ cpc[c] = "check" /\ done
    /\ CpuGoto(c, "stopped")
    /\ Leave(c)
    /\ UNCHANGED <<schedVars, time_left, pc, next, done, ran>>

\* run(): a process of size 0 is dispatched too, and does nothing.
Run(p) == pc' = [pc EXCEPT ![p] = IF @ >= size[p] THEN @ ELSE @ + 1]

\* Mutants: time_left is not set at the dispatch; no next_slot() after run().
CpuRunNoQuantum(c) ==
    /\ cpc[c] \in {"first", "check"}
    /\ gpc[c] = "idle"
    /\ proc[c] # NULL
    /\ Run(proc[c])
    /\ time_left' = [time_left EXCEPT ![c] = @ - 1]
    /\ ran' = ran \cup {proc[c]}
    /\ CpuGoto(c, "top")
    /\ Arrive(c)
    /\ UNCHANGED <<schedVars, next, done>>

CpuRunOn(c) ==
    /\ cpc[c] \in {"first", "check"}
    /\ gpc[c] = "idle"
    /\ proc[c] # NULL
    /\ Run(proc[c])
    /\ time_left' = [time_left EXCEPT ![c] = (IF @ = 0 THEN time_slot ELSE @) - 1]
    /\ ran' = ran \cup {proc[c]}
    /\ CpuGoto(c, "top")
    /\ UNCHANGED <<schedVars, barrierVars, next, done>>

\* Dispatch if the process is new, run one instruction, next_slot().
CpuRun(c) ==
    /\ cpc[c] \in {"first", "check"}
    /\ gpc[c] = "idle"
    /\ proc[c] # NULL
    /\ Run(proc[c])
    /\ time_left' = [time_left EXCEPT ![c] = (IF @ = 0 THEN time_slot ELSE @) - 1]
    /\ ran' = ran \cup {proc[c]}
    /\ CpuGoto(c, "top")
    /\ Arrive(c)
    /\ UNCHANGED <<schedVars, next, done>>

CpuThread(c) ==
    \/ CpuFirst(c) \/ CpuFinish(c) \/ CpuPut(c) \/ CpuKeep(c) \/ CpuCall(c)
    \/ CpuGet(c) \/ CpuSkip(c) \/ CpuStop(c) \/ CpuRun(c)

\* The timer ends the slot.
NewSlot ==
    /\ Tick
    /\ ran' = {}
    /\ UNCHANGED <<schedVars, cpc, time_left, pc, next, done>>

Next ==
    \/ ~Overrun /\ (Loader \/ (\E c \in CPU : CpuThread(c)) \/ NewSlot)
    \/ Undefined /\ UNCHANGED vars

Spec == Init /\ [][Next]_vars

\* Every thread that can go on does: the host schedules all of them, and the
\* lock of the queues is held only for a few instructions.
FairSpec ==
    /\ Spec
    /\ WF_vars(~Overrun /\ Loader)
    /\ \A c \in CPU : WF_vars(~Overrun /\ CpuThread(c))
    /\ WF_vars(~Overrun /\ NewSlot)

-----------------------------------------------------------------------------
(* Properties *)

AllStopped == \A c \in CPU : cpc[c] = "stopped"

\* A process runs at most one instruction in a slot, and on one CPU: one that
\* is put back and taken by another CPU in the same slot does not run twice.
RunOncePerSlot ==
    [][\A p \in Proc : pc'[p] # pc[p] =>
          /\ p \notin ran
          /\ pc'[p] = pc[p] + 1
          /\ time >= start_time[p]]_vars

\* The number m of instructions makes whole quanta.
WholeQuanta(m) == \E n \in 0..m : m = n * time_slot

\* A process gives up its CPU before its end only after whole quanta: what
\* another process left of its time, on this CPU or another, never shortens or
\* prolongs them.
QuantaInFull ==
    Overrun \/ \A p \in Proc : Queued(p) => WholeQuanta(pc[p])

\* Every slot ends: no thread works for ever, inside the loop of
\* get_mlq_proc() in particular, which starts again when it refills the slots.
SlotEnds ==
    \A d \in Device : d \in arrived ~> (d \notin arrived \/ Overrun)

\* Every configured process is loaded, and every loaded process runs to its
\* end unless all CPUs have stopped.
Progress ==
    \A p \in Proc : <>(p \in finished \/ AllStopped \/ Overrun)

\* A process is freed only after its last instruction, and a process in the
\* system never has its program counter past the end.
FinishedInFull ==
    /\ \A p \in Proc : pc[p] <= size[p]
    /\ \A p \in finished : pc[p] = size[p]

\* A thread inside an iteration of its loop takes part in the current slot,
\* and only such a thread is inside get_proc().
InLoop ==
    \A c \in CPU :
        /\ cpc[c] \in {"first", "call", "check"} => Working(c)
        /\ gpc[c] # "idle" => cpc[c] \in {"first", "check"}

\* A process that has run in this slot is still held by the CPU that ran it,
\* and that CPU waits for the next slot.
RanHeld == \A p \in ran : \E c \in CPU : c \in arrived /\ proc[c] = p

\* A process is loaded when its time has come.
LoadedLate == \A p \in loaded : time >= start_time[p]

OSInv == OSTypeOK /\ InLoop /\ RanHeld /\ LoadedLate /\ FinishedInFull

\* What cpu_routine() says where it stops a CPU ("No process to run, exit"):
\* when all CPUs have stopped, no loaded process is left unfinished.
NoneAbandoned == AllStopped => loaded = finished

\* The part of it that the code keeps: a process of the last level is not left.
\* While one is ready get_mlq_proc() does not come to the end of its loop, and
\* done is set only in the slot behind the one in which the last process was
\* added, so no CPU stops with a NULL from before.
LastLevelServed ==
    AllStopped /\ ~Overrun => \A p \in loaded : prio[p] = MAX_PRIO - 1 => p \in finished

\* What every sample output of the repository shows: the simulation ends, and
\* each CPU reports that it has stopped.
Termination == <>AllStopped

=============================================================================
