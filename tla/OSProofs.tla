------------------------------- MODULE OSProofs -------------------------------
(***************************************************************************)
(* Proofs about module OS, for every set of CPUs, every configuration of   *)
(* processes and every quantum.  The system uses the scheduler and the     *)
(* timer as their specifications allow, so the theorems about Sched hold   *)
(* for it; with them the rest follows from a small invariant.              *)
(***************************************************************************)
EXTENDS OS, SchedProofs

\* The variables of the threads keep their types; together with the types of
\* the scheduler, from which a CPU takes its process.
LEMMA ThreadTypeStep ==
    ASSUME SchedTypeOK, ThreadTypeOK, [Next]_vars PROVE ThreadTypeOK'
<1> USE OSAssumption, SchedAssumption DEF ThreadTypeOK, CpuGoto
<1>1. CASE Loader
  <2>1. CASE LdWait
    BY <2>1 DEF LdWait, osVars
  <2>2. CASE LdAdd
    <3>1. Len(ld_processes) \in Nat
      OBVIOUS
    <3>2. next' \in 1..(Len(ld_processes) + 1)
      BY <2>2, <3>1 DEF LdAdd
    <3> QED
      BY <2>2, <3>2 DEF LdAdd
  <2>3. CASE LdDone
    BY <2>3 DEF LdDone
  <2> QED
    BY <1>1, <2>1, <2>2, <2>3 DEF Loader
<1>2. ASSUME NEW c \in CPU, CpuThread(c) PROVE ThreadTypeOK'
  <2>1. CASE CpuFirst(c) \/ CpuPut(c) \/ CpuKeep(c) \/ CpuCall(c)
    BY <2>1 DEF CpuFirst, CpuPut, CpuKeep, CpuCall
  <2>2. CASE CpuFinish(c)
    BY <2>2 DEF CpuFinish
  <2>3. CASE CpuGet(c) \/ CpuSkip(c) \/ CpuStop(c)
    BY <2>3 DEF CpuGet, CpuSkip, CpuStop, osVars
  <2>4. CASE CpuRun(c)
    <3>1. proc[c] \in Proc
      BY <2>4 DEF CpuRun, SchedTypeOK
    <3>2. pc' \in [Proc -> Nat]
      <4>1. PICK p \in Proc : p = proc[c] /\ Run(p)
        BY <2>4, <3>1 DEF CpuRun
      <4> QED
        BY <4>1 DEF Run
    <3>3. time_left' \in [CPU -> 0..time_slot]
      BY <2>4 DEF CpuRun
    <3>4. ran' \in SUBSET Proc /\ next' = next /\ done' = done
      BY <2>4, <3>1 DEF CpuRun
    <3>5. cpc' \in [CPU -> {"top", "first", "call", "check", "stopped"}]
      BY <2>4 DEF CpuRun
    <3> QED
      BY <3>2, <3>3, <3>4, <3>5
  <2> QED
    BY <1>2, <2>1, <2>2, <2>3, <2>4 DEF CpuThread
<1>3. CASE NewSlot
  BY <1>3 DEF NewSlot
<1>4. CASE UNCHANGED vars
  BY <1>4 DEF vars, osVars
<1> QED
  BY <1>1, <1>2, <1>3, <1>4 DEF Next

\* Every step of a thread is a step of the scheduler or leaves it alone.
LEMMA SchedStep == ThreadTypeOK /\ [Next]_vars => [SchedNext]_schedVars
<1> SUFFICES ASSUME ThreadTypeOK, [Next]_vars PROVE SchedNext \/ UNCHANGED schedVars
  OBVIOUS
<1>1. CASE ~Overrun /\ Loader
  <2>1. CASE LdAdd
    <3>1. ld_processes[next] \in Proc
      BY <2>1, OSAssumption DEF LdAdd, ThreadTypeOK
    <3> QED
      BY <1>1, <2>1, <3>1 DEF LdAdd, SchedNext
  <2> QED
    BY <1>1, <2>1 DEF Loader, LdWait, LdDone
<1>2. ASSUME NEW c \in CPU, ~Overrun, CpuThread(c) PROVE SchedNext \/ UNCHANGED schedVars
  <2>1. CASE CpuFirst(c) \/ CpuCall(c)
    BY <1>2, <2>1 DEF CpuFirst, CpuCall, SchedNext, Serve
  <2>2. CASE CpuFinish(c)
    BY <1>2, <2>2 DEF CpuFinish, SchedNext
  <2>3. CASE CpuPut(c)
    BY <1>2, <2>3 DEF CpuPut, SchedNext, Serve
  <2>4. CASE CpuGet(c)
    BY <1>2, <2>4 DEF CpuGet, SchedNext, Serve
  <2>5. CASE CpuKeep(c) \/ CpuSkip(c) \/ CpuStop(c) \/ CpuRun(c)
    BY <2>5 DEF CpuKeep, CpuSkip, CpuStop, CpuRun
  <2> QED
    BY <1>2, <2>1, <2>2, <2>3, <2>4, <2>5 DEF CpuThread
<1>3. CASE NewSlot
  BY <1>3 DEF NewSlot
<1> QED
  BY <1>1, <1>2, <1>3 DEF Next, vars

\* Every step of a thread is a step of the barrier or leaves it alone.
LEMMA BarrierStep == [Next]_vars => [BarrierNext]_barrierVars
<1> SUFFICES ASSUME [Next]_vars PROVE BarrierNext \/ UNCHANGED barrierVars
  OBVIOUS
<1>0. LD \in Device /\ CPU \subseteq Device
  BY OSAssumption
<1>1. CASE Loader
  BY <1>0, <1>1 DEF Loader, LdWait, LdAdd, LdDone, BarrierNext
<1>2. ASSUME NEW c \in CPU, CpuThread(c) PROVE BarrierNext \/ UNCHANGED barrierVars
  <2>1. CASE CpuSkip(c) \/ CpuStop(c) \/ CpuRun(c)
    BY <1>0, <2>1 DEF CpuSkip, CpuStop, CpuRun, BarrierNext
  <2>2. CASE CpuFirst(c) \/ CpuFinish(c) \/ CpuPut(c) \/ CpuKeep(c) \/ CpuCall(c) \/ CpuGet(c)
    BY <2>2 DEF CpuFirst, CpuFinish, CpuPut, CpuKeep, CpuCall, CpuGet
  <2> QED
    BY <1>2, <2>1, <2>2 DEF CpuThread
<1>3. CASE NewSlot
  BY <1>3 DEF NewSlot, BarrierNext
<1> QED
  BY <1>1, <1>2, <1>3 DEF Next, vars

\* A step of the barrier keeps its types.
LEMMA BarrierTypeStep ==
    ASSUME BarrierTypeOK, [BarrierNext]_barrierVars PROVE BarrierTypeOK'
BY BarrierAssumption
   DEF BarrierTypeOK, BarrierNext, Arrive, Leave, Tick, Working, barrierVars

\* All variables always have their types.
THEOREM OSTypeCorrect == Spec => []OSTypeOK
<1>1. Init => OSTypeOK
  <2> SUFFICES ASSUME Init PROVE OSTypeOK
    OBVIOUS
  <2>1. SchedTypeOK
    BY InitPlacement DEF Init, PlacementInv
  <2>2. BarrierTypeOK
    BY BarrierAssumption DEF Init, BarrierInit, BarrierTypeOK
  <2>3. ThreadTypeOK
    <3>1. Len(ld_processes) \in Nat
      BY OSAssumption
    <3>2. next \in 1..(Len(ld_processes) + 1)
      BY <3>1 DEF Init
    <3>3. time_left \in [CPU -> 0..time_slot]
      BY OSAssumption DEF Init
    <3> QED
      BY <3>2, <3>3 DEF Init, ThreadTypeOK
  <2> QED
    BY <2>1, <2>2, <2>3 DEF OSTypeOK
<1>2. OSTypeOK /\ [Next]_vars => OSTypeOK'
  BY SchedStep, BarrierStep, TypeStep, BarrierTypeStep, ThreadTypeStep DEF OSTypeOK
<1> QED
  BY <1>1, <1>2, PTL DEF Spec

\* The theorems about Sched hold for the whole system: its threads call the
\* scheduler as SchedNext allows.
LEMMA OSUsesSched == Spec => SchedSpec
<1>1. Init => SchedInit
  BY DEF Init
<1>2. OSTypeOK => ThreadTypeOK
  BY DEF OSTypeOK
<1> QED
  BY <1>1, <1>2, SchedStep, OSTypeCorrect, PTL DEF Spec, SchedSpec

\* The invariant of the scheduler in the whole system.
LEMMA OSPlacement == Spec => []PlacementInv
BY OSUsesSched, PlacementInvariant

\* A process is never in two places in the whole system either.
THEOREM OSOnePlace == Spec => []OnePlace
BY OSUsesSched, OnePlaceTheorem

-----------------------------------------------------------------------------
\* The parts of OSInv hold initially.
LEMMA InitOSInv == Init => InLoop /\ RanHeld /\ LoadedLate /\ FinishedInFull
BY OSAssumption
   DEF Init, SchedInit, BarrierInit, InLoop, Working, RanHeld, LoadedLate, FinishedInFull

\* A thread enters its loop only in a slot in which it takes part, and leaves
\* it when it ends the slot.
LEMMA InLoopStep ==
    ASSUME OSTypeOK, InLoop, [Next]_vars PROVE InLoop'
<1> USE OSAssumption
    DEF OSTypeOK, SchedTypeOK, ThreadTypeOK, InLoop, Working, CpuGoto, schedVars, barrierVars, osVars
<1>1. CASE Loader
  BY <1>1 DEF Loader, LdWait, LdAdd, LdDone, AddProc, Arrive, Leave
<1>2. ASSUME NEW c \in CPU, CpuThread(c) PROVE InLoop'
  <2>1. CASE CpuFirst(c) \/ CpuCall(c)
    <3>1. Working(c) /\ cpc'[c] \in {"first", "check"}
      BY <2>1 DEF CpuFirst, CpuCall
    <3>2. \A d \in CPU : d # c => cpc'[d] = cpc[d] /\ gpc'[d] = gpc[d]
      BY <2>1 DEF CpuFirst, CpuCall, GetProc, Goto
    <3>3. UNCHANGED <<arrived, left>>
      BY <2>1 DEF CpuFirst, CpuCall
    <3> QED
      BY <3>1, <3>2, <3>3
  <2>2. CASE CpuFinish(c)
    BY <2>2 DEF CpuFinish, FreeProc
  <2>3. CASE CpuPut(c)
    BY <2>3 DEF CpuPut, PutProc
  <2>4. CASE CpuKeep(c)
    BY <2>4 DEF CpuKeep
  <2>5. CASE CpuGet(c)
    <3>1. gpc[c] # "idle" /\ \A d \in CPU : d # c => gpc'[d] = gpc[d]
      BY <2>5 DEF CpuGet, GetStep, QueueEmpty, SelectLevel, TestSlot, TakeProc, ResetSlots,
                  NextLevel, Return, Goto
    <3>2. UNCHANGED <<cpc, arrived, left>>
      BY <2>5 DEF CpuGet
    <3> QED
      BY <3>1, <3>2
  <2>6. CASE CpuSkip(c) \/ CpuStop(c) \/ CpuRun(c)
    <3>1. gpc' = gpc /\ gpc[c] = "idle" /\ cpc'[c] \in {"top", "stopped"}
      BY <2>6 DEF CpuSkip, CpuStop, CpuRun
    <3>2. \A d \in CPU : d # c => cpc'[d] = cpc[d] /\ (Working(d) => Working(d)')
      BY <2>6 DEF CpuSkip, CpuStop, CpuRun, Arrive, Leave
    <3> QED
      BY <3>1, <3>2
  <2> QED
    BY <1>2, <2>1, <2>2, <2>3, <2>4, <2>5, <2>6 DEF CpuThread
<1>3. CASE NewSlot
  BY <1>3 DEF NewSlot, Tick
<1>4. CASE UNCHANGED vars
  BY <1>4 DEF vars
<1> QED
  BY <1>1, <1>2, <1>3, <1>4 DEF Next

\* A CPU that waits for the next slot keeps its process.
LEMMA RanHeldStep ==
    ASSUME OSTypeOK, InLoop, RanHeld, [Next]_vars PROVE RanHeld'
<1>1. CASE Loader
  <2>1. ran' = ran /\ proc' = proc /\ arrived \subseteq arrived'
    BY <1>1 DEF Loader, LdWait, LdAdd, LdDone, AddProc, Arrive, Leave, schedVars, osVars
  <2> QED
    BY <2>1 DEF RanHeld
<1>2. ASSUME NEW c \in CPU, CpuThread(c) PROVE RanHeld'
  <2>1. c \notin arrived
    <3>1. CASE CpuGet(c) \/ CpuCall(c)
      <4>1. gpc[c] # "idle" \/ cpc[c] = "call"
        BY <3>1 DEF CpuGet, CpuCall, GetStep, QueueEmpty, SelectLevel, TestSlot, TakeProc,
                    ResetSlots
      <4> QED
        BY <4>1 DEF InLoop, Working
    <3>2. CASE ~(CpuGet(c) \/ CpuCall(c))
      BY <1>2, <3>2 DEF CpuThread, CpuFirst, CpuFinish, CpuPut, CpuKeep, CpuSkip, CpuStop,
                        CpuRun, Arrive, Leave, Working
    <3> QED
      BY <3>1, <3>2
  <2>2. \A d \in CPU : d # c => proc'[d] = proc[d]
    <3> USE DEF OSTypeOK, SchedTypeOK
    <3>1. CASE CpuGet(c)
      BY <3>1 DEF CpuGet, GetStep, QueueEmpty, SelectLevel, TestSlot, TakeProc, ResetSlots,
                  Dequeue
    <3>2. CASE ~CpuGet(c)
      BY <1>2, <3>2 DEF CpuThread, CpuFirst, CpuFinish, CpuPut, CpuKeep, CpuCall, CpuSkip,
                        CpuStop, CpuRun, GetProc, FreeProc, PutProc, schedVars
    <3> QED
      BY <3>1, <3>2
  <2>3. arrived \subseteq arrived'
    BY <1>2 DEF CpuThread, CpuFirst, CpuFinish, CpuPut, CpuKeep, CpuCall, CpuGet, CpuSkip,
               CpuStop, CpuRun, Arrive, Leave, barrierVars
  <2>4. ASSUME NEW p \in ran
        PROVE  \E d \in CPU : d \in arrived' /\ proc'[d] = p
    <3>1. PICK d \in CPU : d \in arrived /\ proc[d] = p
      BY DEF RanHeld
    <3>2. proc'[d] = p
      BY <2>1, <2>2, <3>1
    <3> QED
      BY <2>3, <3>1, <3>2
  <2>5. CASE CpuRun(c)
    <3>1. ran' = ran \cup {proc[c]} /\ proc'[c] = proc[c] /\ c \in arrived'
      BY <2>5 DEF CpuRun, Arrive, schedVars
    <3> QED
      BY <2>4, <3>1 DEF RanHeld
  <2>6. CASE ~CpuRun(c)
    <3>1. ran' = ran
      BY <1>2, <2>6 DEF CpuThread, CpuFirst, CpuFinish, CpuPut, CpuKeep, CpuCall, CpuGet,
                        CpuSkip, CpuStop, osVars
    <3> QED
      BY <2>4, <3>1 DEF RanHeld
  <2> QED
    BY <2>5, <2>6
<1>3. CASE NewSlot
  BY <1>3 DEF NewSlot, RanHeld
<1>4. CASE UNCHANGED vars
  BY <1>4 DEF vars, RanHeld, schedVars, barrierVars, osVars
<1> QED
  BY <1>1, <1>2, <1>3, <1>4 DEF Next

\* Processes are loaded by LdAdd only, and the clock never goes back.
LEMMA LoadedLateStep ==
    ASSUME OSTypeOK, LoadedLate, [Next]_vars PROVE LoadedLate'
<1>1. time' >= time /\ time \in Nat /\ time' \in Nat
  BY BarrierStep, BarrierAssumption
     DEF OSTypeOK, BarrierTypeOK, BarrierNext, Arrive, Leave, Tick, barrierVars
<1>2. loaded' = loaded \/ (LdAdd /\ loaded' = loaded \cup {ld_processes[next]})
  BY DEF Next, vars, schedVars, Loader, LdWait, LdAdd, LdDone, CpuThread, CpuFirst, CpuFinish,
         CpuPut, CpuKeep, CpuCall, CpuGet, CpuSkip, CpuStop, CpuRun, NewSlot, AddProc,
         GetProc, FreeProc, PutProc, GetStep, QueueEmpty, SelectLevel, TestSlot, TakeProc,
         ResetSlots
<1>3. \A p \in Proc : start_time[p] \in Nat
  BY OSAssumption
<1>4. loaded \subseteq Proc /\ (LdAdd => ld_processes[next] \in Proc)
  BY OSAssumption DEF OSTypeOK, SchedTypeOK, ThreadTypeOK, LdAdd
<1>5. CASE loaded' = loaded
  BY <1>1, <1>3, <1>4, <1>5 DEF LoadedLate
<1>6. CASE LdAdd /\ loaded' = loaded \cup {ld_processes[next]}
  BY <1>1, <1>3, <1>4, <1>6 DEF LoadedLate, LdAdd
<1> QED
  BY <1>2, <1>5, <1>6

\* pc only moves in run(), and never past the end of the code.
LEMMA FinishedStep ==
    ASSUME OSTypeOK, FinishedInFull, [Next]_vars PROVE FinishedInFull'
<1> USE OSAssumption DEF FinishedInFull
<1>0. \A p \in Proc : pc[p] \in Nat /\ size[p] \in Nat
  BY DEF OSTypeOK, ThreadTypeOK
<1>1. ASSUME NEW c \in CPU, CpuRun(c) PROVE FinishedInFull'
  <2>1. proc[c] \in Proc /\ finished' = finished /\ Run(proc[c])
    BY <1>1 DEF CpuRun, OSTypeOK, SchedTypeOK, schedVars
  <2>2. \A p \in Proc : pc'[p] = IF p = proc[c] /\ pc[p] < size[p] THEN pc[p] + 1 ELSE pc[p]
    BY <1>0, <2>1 DEF Run, OSTypeOK, ThreadTypeOK
  <2>3. finished \subseteq Proc
    BY DEF OSTypeOK, SchedTypeOK
  <2>4. ASSUME NEW p \in Proc
        PROVE  pc'[p] <= size[p] /\ (pc[p] = size[p] => pc'[p] = size[p])
    <3>1. PICK a \in Nat, b \in Nat : a = pc[p] /\ b = size[p] /\ a <= b
      BY <1>0
    <3>2. pc'[p] = a \/ (a < b /\ pc'[p] = a + 1)
      BY <2>2, <3>1
    <3> QED
      BY <3>1, <3>2
  <2> QED
    BY <2>1, <2>3, <2>4
<1>2. ASSUME NEW c \in CPU, CpuFinish(c) PROVE FinishedInFull'
  BY <1>2 DEF CpuFinish, FreeProc
<1>3. CASE \A c \in CPU : ~CpuRun(c) /\ ~CpuFinish(c)
  <2>1. pc' = pc /\ finished' = finished
    BY <1>3
       DEF Next, vars, schedVars, osVars, Loader, LdWait, LdAdd, LdDone, CpuThread, CpuFirst,
           CpuPut, CpuKeep, CpuCall, CpuGet, CpuSkip, CpuStop, NewSlot, AddProc,
           GetProc, PutProc, GetStep, QueueEmpty, SelectLevel, TestSlot, TakeProc,
           ResetSlots
  <2> QED
    BY <2>1
<1> QED
  BY <1>1, <1>2, <1>3

\* The inductive invariant of the whole system.
THEOREM OSInvariant == Spec => []OSInv
<1>1. Init => InLoop /\ RanHeld /\ LoadedLate /\ FinishedInFull
  BY InitOSInv
<1>2. /\ OSTypeOK /\ InLoop /\ RanHeld /\ LoadedLate /\ FinishedInFull
      /\ [Next]_vars
      => (InLoop /\ RanHeld /\ LoadedLate /\ FinishedInFull)'
  BY InLoopStep, RanHeldStep, LoadedLateStep, FinishedStep
<1>3. OSTypeOK /\ InLoop /\ RanHeld /\ LoadedLate /\ FinishedInFull <=> OSInv
  BY DEF OSInv
<1> QED
  BY <1>1, <1>2, <1>3, OSTypeCorrect, PTL DEF Spec

\* A process is freed only after its last instruction.
THEOREM FinishedTheorem == Spec => []FinishedInFull
<1>1. OSInv => FinishedInFull
  BY DEF OSInv
<1> QED
  BY <1>1, OSInvariant, PTL

\* A process runs at most one instruction in a slot: had it run already, the
\* CPU that ran it would hold it still, and wait, while another one runs it.
THEOREM RunOncePerSlotTheorem == Spec => RunOncePerSlot
<1>1. OSInv /\ PlacementInv /\ [Next]_vars =>
        [\A p \in Proc : pc'[p] # pc[p] =>
            /\ p \notin ran
            /\ pc'[p] = pc[p] + 1
            /\ time >= start_time[p]]_vars
  <2> SUFFICES ASSUME OSInv, PlacementInv, [Next]_vars, NEW p \in Proc, pc'[p] # pc[p]
               PROVE  p \notin ran /\ pc'[p] = pc[p] + 1 /\ time >= start_time[p]
    OBVIOUS
  <2>1. PICK c \in CPU : CpuRun(c)
    BY DEF Next, vars, osVars, Loader, LdWait, LdAdd, LdDone, CpuThread, CpuFirst,
           CpuFinish, CpuPut, CpuKeep, CpuCall, CpuGet, CpuSkip, CpuStop, NewSlot
  <2>2. proc[c] # NULL /\ Run(proc[c]) /\ c \notin arrived
    BY <2>1 DEF CpuRun, Arrive, Working
  <2>3. proc[c] = p /\ pc'[p] = pc[p] + 1
    BY <2>2 DEF Run, OSInv, OSTypeOK, ThreadTypeOK
  <2>4. p \in loaded /\ \A d \in CPU : proc[d] = p => d = c
    BY <2>2, <2>3 DEF PlacementInv, Placement, HeldOnce
  <2>5. p \notin ran
    BY <2>2, <2>4 DEF OSInv, RanHeld
  <2> QED
    BY <2>3, <2>4, <2>5 DEF OSInv, LoadedLate
<1> QED
  BY <1>1, OSInvariant, OSPlacement, PTL DEF Spec, RunOncePerSlot

-----------------------------------------------------------------------------
(* The last level *)

Last == MAX_PRIO - 1

\* A CPU that does not stop while a process of the last level is ready: it is not
\* at the test of done, or it has a process or will find one, or done cannot be
\* set before it has tested it.
Watches(c) ==
    /\ cpc[c] # "stopped"
    /\ cpc[c] = "check" =>
          \/ gpc[c] = "idle" /\ proc[c] # NULL
          \/ gpc[c] \in {"scan", "select", "reset"}
          \/ gpc[c] \in {"slot", "take"} /\ ~Empty(prio_select[c])
          \/ ~done /\ LD \in arrived

LastWatched == ~Empty(Last) => \E c \in CPU : Watches(c)

\* A CPU stops without a process, after the loader has left.
StoppedLate ==
    /\ \A c \in CPU : cpc[c] = "stopped" => done /\ proc[c] = NULL
    /\ done => LD \in left

\* The CPUs stop late.
LEMMA StoppedLateStep ==
    ASSUME OSTypeOK, InLoop, StoppedLate, [Next]_vars PROVE StoppedLate'
<1> USE OSAssumption DEF OSTypeOK, SchedTypeOK, ThreadTypeOK, StoppedLate, InLoop, CpuGoto, schedVars, barrierVars, osVars
<1>1. CASE Loader
  BY <1>1 DEF Loader, LdWait, LdAdd, LdDone, AddProc, Arrive, Leave
<1>2. ASSUME NEW c \in CPU, CpuThread(c) PROVE StoppedLate'
  <2>1. CASE CpuFirst(c) \/ CpuCall(c) \/ CpuKeep(c)
    BY <2>1 DEF CpuFirst, CpuCall, CpuKeep, GetProc, Goto
  <2>2. CASE CpuFinish(c)
    BY <2>2 DEF CpuFinish, FreeProc
  <2>3. CASE CpuPut(c)
    BY <2>3 DEF CpuPut, PutProc
  <2>4. CASE CpuGet(c)
    <3>1. gpc[c] # "idle" /\ \A d \in CPU : d # c => proc'[d] = proc[d]
      BY <2>4 DEF CpuGet, GetStep, QueueEmpty, SelectLevel, TestSlot, TakeProc, ResetSlots, Dequeue
    <3> QED
      BY <2>4, <3>1 DEF CpuGet
  <2>5. CASE CpuSkip(c) \/ CpuStop(c)
    BY <2>5 DEF CpuSkip, CpuStop, Arrive, Leave
  <2>6. CASE CpuRun(c)
    BY <2>6 DEF CpuRun, Arrive
  <2> QED
    BY <1>2, <2>1, <2>2, <2>3, <2>4, <2>5, <2>6 DEF CpuThread
<1>3. CASE NewSlot
  BY <1>3 DEF NewSlot, Tick
<1>4. CASE UNCHANGED vars
  BY <1>4 DEF vars
<1> QED
  BY <1>1, <1>2, <1>3, <1>4 DEF Next

\* A CPU that another thread leaves alone goes on watching.
LEMMA WatchesOn ==
    ASSUME NEW c \in CPU, Watches(c), cpc'[c] = cpc[c], gpc'[c] = gpc[c], proc'[c] = proc[c],
           prio_select'[c] = prio_select[c],
           ~Empty(prio_select[c]) => mlq_ready_queue'[prio_select[c]] # <<>>,
           ~done /\ LD \in arrived => ~done' /\ LD \in arrived'
    PROVE  Watches(c)'
  BY DEF Watches, Empty

\* A step of get_proc() while a process of the last level is ready.
LEMMA GetWatched ==
    ASSUME OSTypeOK, InLoop, NEW c \in CPU, CpuGet(c), ~Empty(Last), LastWatched
    PROVE  \E d \in CPU : Watches(d)'
<1> USE SchedAssumption
<1>1. PICK k \in Level : k = prio_select[c]
  BY DEF OSTypeOK, SchedTypeOK
<1>2. UNCHANGED <<cpc, done, arrived>> /\ GetStep(c) /\ cpc[c] \in {"first", "check"}
  <2>1. gpc[c] # "idle"
    BY DEF CpuGet, GetStep, QueueEmpty, SelectLevel, TestSlot, TakeProc, ResetSlots
  <2> QED
    BY <2>1 DEF CpuGet, osVars, barrierVars, InLoop
<1>3. gpc \in [CPU -> {"idle", "scan", "select", "slot", "take", "reset"}] /\ prio_select \in [CPU -> Level]
      /\ proc \in [CPU -> Proc \cup {NULL}] /\ mlq_ready_queue \in [Level -> Seq(Proc)]
  BY DEF OSTypeOK, SchedTypeOK
<1>4. CASE gpc'[c] \in {"scan", "select", "reset"}
  BY <1>2, <1>4 DEF Watches
<1>5. CASE QueueEmpty(c)
  <2>1. gpc'[c] \in {"scan", "select"}
    BY <1>1, <1>3, <1>5 DEF QueueEmpty, Goto, Last
  <2> QED
    BY <1>4, <2>1
<1>6. CASE SelectLevel(c)
  <2>1. CASE Empty(k)
    <3>1. k # MAX_PRIO - 1
      BY <2>1 DEF Last
    <3>2. gpc'[c] = "select"
      BY <1>1, <1>3, <1>6, <2>1, <3>1 DEF SelectLevel, NextLevel, Goto
    <3> QED
      BY <1>4, <3>2
  <2>2. CASE ~Empty(k)
    <3>1. gpc'[c] = "slot" /\ prio_select'[c] = k /\ UNCHANGED mlq_ready_queue
      BY <1>1, <1>3, <1>6, <2>2 DEF SelectLevel, Goto
    <3> QED
      BY <1>2, <2>2, <3>1 DEF Watches, Empty
  <2> QED
    BY <2>1, <2>2
<1>7. CASE TestSlot(c)
  <2>1. CASE slot[k] > 0
    <3>1. /\ gpc'[c] = "take" /\ prio_select'[c] = k /\ gpc[c] = "slot"
          /\ UNCHANGED <<mlq_ready_queue, proc>>
          /\ \A d \in CPU : d # c => gpc'[d] = gpc[d] /\ prio_select'[d] = prio_select[d]
      BY <1>1, <1>3, <1>7, <2>1 DEF TestSlot, Goto
    <3>2. PICK d \in CPU : Watches(d)
      BY DEF LastWatched
    <3>3. CASE d = c
      BY <1>1, <1>2, <3>1, <3>2, <3>3 DEF Watches, Empty
    <3>4. CASE d # c
      <4>1. Watches(d)'
        BY <1>2, <3>1, <3>2, <3>4, WatchesOn DEF Empty
      <4> QED
        BY <4>1
    <3> QED
      BY <3>3, <3>4
  <2>2. CASE ~(slot[k] > 0)
    <3>1. gpc'[c] \in {"select", "reset"}
      BY <1>1, <1>3, <1>7, <2>2 DEF TestSlot, Goto, NextLevel
    <3> QED
      BY <1>4, <3>1
  <2> QED
    BY <2>1, <2>2
<1>8. CASE TakeProc(c)
  <2>1. CASE ~Empty(k)
    <3>1. Head(mlq_ready_queue[k]) \in Proc
      BY <1>3, <2>1 DEF Empty
    <3>2. gpc'[c] = "idle" /\ proc'[c] = Head(mlq_ready_queue[k])
      BY <1>1, <1>3, <1>8, <2>1 DEF TakeProc, Dequeue, Return, Goto
    <3> QED
      BY <1>2, <3>1, <3>2 DEF Watches
  <2>2. CASE Empty(k)
    <3>1. /\ gpc[c] = "take" /\ UNCHANGED mlq_ready_queue
          /\ \A d \in CPU : d # c => gpc'[d] = gpc[d] /\ prio_select'[d] = prio_select[d] /\ proc'[d] = proc[d]
      BY <1>1, <1>3, <1>8, <2>2 DEF TakeProc, Dequeue, Return, Goto
    <3>2. PICK d \in CPU : Watches(d)
      BY DEF LastWatched
    <3>3. CASE d = c
      BY <1>1, <1>2, <2>2, <3>1, <3>2, <3>3 DEF Watches
    <3>4. CASE d # c
      <4>1. Watches(d)'
        BY <1>2, <3>1, <3>2, <3>4, WatchesOn DEF Empty
      <4> QED
        BY <4>1
    <3> QED
      BY <3>3, <3>4
  <2> QED
    BY <2>1, <2>2
<1>9. CASE ResetSlots(c)
  <2>1. gpc'[c] = "select"
    BY <1>3, <1>9 DEF ResetSlots, NextLevel, Goto
  <2> QED
    BY <1>4, <2>1
<1> QED
  BY <1>2, <1>5, <1>6, <1>7, <1>8, <1>9 DEF GetStep

\* A CPU takes the last process that another one has seen, or finds one itself;
\* so one of them keeps watching.
LEMMA LastWatchedStep ==
    ASSUME CPU # {}, OSTypeOK, InLoop, StoppedLate, LastWatched, [Next]_vars PROVE LastWatched'
<1> USE OSAssumption, SchedAssumption
<1>0. /\ cpc \in [CPU -> {"top", "first", "call", "check", "stopped"}]
      /\ gpc \in [CPU -> {"idle", "scan", "select", "slot", "take", "reset"}]
      /\ Last \in Level
  BY DEF OSTypeOK, SchedTypeOK, ThreadTypeOK, Last, Level
<1>1. CASE LdWait
  <2>1. UNCHANGED <<schedVars, cpc, done>> /\ arrived \subseteq arrived'
    BY <1>1 DEF LdWait, Arrive, osVars
  <2> QED
    BY <2>1 DEF LastWatched, Watches, Empty, schedVars
<1>2. CASE LdAdd
  <2>1. PICK c \in CPU : TRUE
    OBVIOUS
  <2>2. ~done' /\ LD \in arrived' /\ cpc' = cpc /\ ~done
    BY <1>2 DEF LdAdd, Arrive, StoppedLate, Working
  <2>3. Watches(c)'
    BY <2>2 DEF Watches, StoppedLate
  <2> QED
    BY <2>3 DEF LastWatched
<1>3. CASE LdDone
  <2>1. UNCHANGED <<schedVars, cpc, arrived>> /\ LD \notin arrived
    BY <1>3 DEF LdDone, Leave, Working
  <2> QED
    BY <2>1 DEF LastWatched, Watches, Empty, schedVars
<1>4. ASSUME NEW c \in CPU, CpuThread(c) PROVE LastWatched'
  <2>1. CASE CpuFirst(c) \/ CpuFinish(c) \/ CpuPut(c) \/ CpuSkip(c) \/ CpuRun(c)
    <3>1. cpc'[c] \in {"first", "call", "top"}
      BY <1>0, <2>1 DEF CpuFirst, CpuFinish, CpuPut, CpuSkip, CpuRun, CpuGoto
    <3>2. Watches(c)'
      BY <3>1 DEF Watches
    <3> QED
      BY <3>2 DEF LastWatched
  <2>2. CASE CpuKeep(c)
    <3>1. cpc'[c] = "check" /\ gpc'[c] = "idle" /\ proc'[c] # NULL
      BY <1>0, <2>2 DEF CpuKeep, CpuGoto, InLoop, schedVars
    <3>2. Watches(c)'
      BY <3>1 DEF Watches
    <3> QED
      BY <3>2 DEF LastWatched
  <2>3. CASE CpuCall(c)
    <3>1. cpc'[c] = "check" /\ gpc'[c] = "scan"
      BY <1>0, <2>3 DEF CpuCall, CpuGoto, GetProc, Goto
    <3>2. Watches(c)'
      BY <3>1 DEF Watches
    <3> QED
      BY <3>2 DEF LastWatched
  <2>4. CASE CpuStop(c)
    <3>1. /\ UNCHANGED <<schedVars, done, arrived>> /\ ~Watches(c)
          /\ \A d \in CPU : d # c => cpc'[d] = cpc[d]
      BY <1>0, <2>4 DEF CpuStop, CpuGoto, Leave, Watches
    <3>2. \A d \in CPU : Watches(d) => Watches(d)'
      BY <3>1 DEF Watches, Empty, schedVars
    <3> QED
      BY <3>1, <3>2 DEF LastWatched, Empty, schedVars
  <2>5. CASE CpuGet(c)
    <3> SUFFICES ASSUME ~Empty(Last)' PROVE \E d \in CPU : Watches(d)'
      BY DEF LastWatched
    <3>1. ~Empty(Last)
      <4>1. mlq_ready_queue \in [Level -> Seq(Proc)]
        BY DEF OSTypeOK, SchedTypeOK
      <4>2. \/ UNCHANGED mlq_ready_queue
            \/ \E k \in Level : ~Empty(k) /\ mlq_ready_queue' = [mlq_ready_queue EXCEPT ![k] = Tail(@)]
        BY <2>5 DEF CpuGet, GetStep, QueueEmpty, SelectLevel, TestSlot, TakeProc, ResetSlots, Dequeue,
                    OSTypeOK, SchedTypeOK
      <4> QED
        BY <1>0, <4>1, <4>2 DEF Empty, Last
    <3> QED
      BY <2>5, <3>1, GetWatched
  <2> QED
    BY <1>4, <2>1, <2>2, <2>3, <2>4, <2>5 DEF CpuThread
<1>5. CASE NewSlot
  <2>1. UNCHANGED <<schedVars, cpc, done>> /\ \A c \in CPU : c \in arrived \cup left
    BY <1>5 DEF NewSlot, Tick
  <2>2. \A c \in CPU : cpc[c] # "check"
    BY <2>1 DEF InLoop, Working
  <2> QED
    BY <2>1, <2>2 DEF LastWatched, Watches, Empty, schedVars
<1>6. CASE UNCHANGED vars
  BY <1>6 DEF vars, LastWatched, Watches, Empty, schedVars, osVars, barrierVars
<1> QED
  BY <1>1, <1>2, <1>3, <1>4, <1>5, <1>6 DEF Next, Loader

\* The CPUs never stop and leave a process of the last level, however their calls
\* of get_proc() interleave: the counterexample to NoneAbandoned needs that level
\* to be empty.
THEOREM LastLevelTheorem ==
    ASSUME CPU # {}
    PROVE  Spec => []LastLevelServed
<1>1. Init => StoppedLate /\ LastWatched
  <2> SUFFICES ASSUME Init PROVE StoppedLate /\ LastWatched
    OBVIOUS
  <2>1. Last \in Level
    BY SchedAssumption DEF Last, Level
  <2> QED
    BY <2>1 DEF Init, SchedInit, BarrierInit, StoppedLate, LastWatched, Empty
<1>2. OSInv /\ StoppedLate /\ LastWatched /\ [Next]_vars => (StoppedLate /\ LastWatched)'
  BY StoppedLateStep, LastWatchedStep DEF OSInv
<1>3. OSInv /\ StoppedLate /\ LastWatched /\ PlacementInv => LastLevelServed
  <2> SUFFICES ASSUME OSInv, StoppedLate, LastWatched, PlacementInv, AllStopped,
                      NEW p \in loaded, prio[p] = Last, p \notin finished
               PROVE  FALSE
    BY DEF LastLevelServed, Last
  <2>1. p \in Proc
    BY DEF OSInv, OSTypeOK, SchedTypeOK
  <2>2. ~Held(p)
    BY <2>1, SchedAssumption DEF Held, AllStopped, StoppedLate
  <2>3. Queued(p)
    BY <2>2 DEF PlacementInv, Placement, Placed
  <2>4. ~Empty(Last)
    BY <2>3 DEF Queued, Empty
  <2> QED
    BY <2>4 DEF LastWatched, Watches, AllStopped
<1> QED
  BY <1>1, <1>2, <1>3, OSInvariant, OSPlacement, PTL DEF Spec

-----------------------------------------------------------------------------
(* Quanta *)

\* No instruction makes no quantum,
LEMMA WholeZero == WholeQuanta(0)
<1>1. 0 \in 0..0 /\ 0 = 0 * time_slot
  BY OSAssumption
<1> QED
  BY <1>1 DEF WholeQuanta

\* and time_slot more instructions make one more quantum.
LEMMA WholeNext ==
    ASSUME NEW m \in Nat, WholeQuanta(m) PROVE WholeQuanta(m + time_slot)
<1>1. PICK t \in Nat \ {0} : t = time_slot
  BY OSAssumption
<1>2. PICK n \in 0..m : m = n * t
  BY <1>1 DEF WholeQuanta
<1>3. n + 1 \in 0..(m + t)
  BY <1>1, <1>2
<1>4. m + t = (n + 1) * t
  BY <1>1, <1>2
<1> QED
  BY <1>1, <1>3, <1>4 DEF WholeQuanta

\* The quantum of a process that a CPU holds will end with a whole number of
\* them; the time of a CPU without a process is used up.
QuantaInv ==
    /\ \A p \in Proc : Queued(p) => WholeQuanta(pc[p])
    /\ \A p \in Proc \ loaded : pc[p] = 0
    /\ \A c \in CPU :
          IF proc[c] = NULL THEN time_left[c] = 0
          ELSE pc[proc[c]] # size[proc[c]] => WholeQuanta(pc[proc[c]] + time_left[c])

\* enqueue() makes no other process ready.
LEMMA EnqueueOnly ==
    ASSUME SchedTypeOK, NEW p \in Proc, Enqueue(p), NEW q \in Proc, Queued(q)', q # p
    PROVE  Queued(q)
<1>1. prio[p] \in Level /\ prio[q] \in Level
  BY SchedAssumption DEF Level
<1>2. PICK s \in Seq(Proc) : s = mlq_ready_queue[prio[q]]
  BY <1>1 DEF SchedTypeOK
<1>3. mlq_ready_queue'[prio[q]] = IF prio[q] = prio[p] THEN Append(s, p) ELSE s
  BY <1>1, <1>2 DEF Enqueue, SchedTypeOK
<1>4. CASE prio[q] # prio[p]
  BY <1>2, <1>3, <1>4 DEF Queued
<1>5. CASE prio[q] = prio[p]
  <2>1. /\ Len(Append(s, p)) = Len(s) + 1 /\ Len(s) \in Nat
        /\ \A i \in 1..Len(s) : Append(s, p)[i] = s[i]
        /\ Append(s, p)[Len(s) + 1] = p
    BY AppendElements
  <2>2. PICK i \in 1..(Len(s) + 1) : Append(s, p)[i] = q
    BY <1>3, <1>5, <2>1 DEF Queued
  <2>3. i \in 1..Len(s)
    BY <2>1, <2>2
  <2> QED
    BY <1>2, <2>1, <2>2, <2>3 DEF Queued
<1> QED
  BY <1>4, <1>5

\* dequeue() gives a ready process, if any, and makes none ready.
LEMMA TakeOnly ==
    ASSUME PlacementInv, NEW c \in CPU, TakeProc(c)
    PROVE  /\ proc'[c] # NULL => proc'[c] \in Proc /\ Queued(proc'[c])
           /\ \A q \in Proc : Queued(q)' => Queued(q)
           /\ \A d \in CPU : d # c => proc'[d] = proc[d]
<1> USE SchedAssumption
<1>0. SchedTypeOK /\ QueueOnce
  BY DEF PlacementInv, Placement
<1>1. PICK k \in Level : k = prio_select[c] /\ Dequeue(c, k)
  BY <1>0 DEF SchedTypeOK, TakeProc
<1>2. CASE Empty(k)
  BY <1>0, <1>1, <1>2 DEF Dequeue, Queued, SchedTypeOK
<1>3. CASE ~Empty(k)
  <2>1. PICK s \in Seq(Proc) : s = mlq_ready_queue[k] /\ s # <<>>
    BY <1>0, <1>3 DEF Empty, SchedTypeOK
  <2>2. /\ Len(Tail(s)) = Len(s) - 1
        /\ Len(s) \in Nat /\ Len(s) > 0
        /\ \A i \in 1..(Len(s) - 1) : Tail(s)[i] = s[i + 1]
        /\ Head(s) = s[1]
        /\ s[1] \in Proc
    BY <2>1, TailElements
  <2>3. /\ mlq_ready_queue'[k] = Tail(s)
        /\ \A h \in Level : h # k => mlq_ready_queue'[h] = mlq_ready_queue[h]
        /\ \A d \in CPU : proc'[d] = IF d = c THEN s[1] ELSE proc[d]
    BY <1>0, <1>1, <1>3, <2>1, <2>2 DEF Dequeue, SchedTypeOK
  <2>4. Queued(s[1])
    <3>1. 1 \in 1..Len(s)
      BY <2>2
    <3>2. prio[s[1]] = k
      BY <1>0, <2>1, <3>1 DEF QueueOnce
    <3> QED
      BY <2>1, <3>1, <3>2 DEF Queued
  <2>5. ASSUME NEW q \in Proc, Queued(q)' PROVE Queued(q)
    <3>1. prio[q] \in Level
      BY DEF Level
    <3>2. CASE prio[q] # k
      BY <2>3, <2>5, <3>1, <3>2 DEF Queued
    <3>3. CASE prio[q] = k
      <4>1. PICK i \in 1..(Len(s) - 1) : Tail(s)[i] = q
        BY <2>2, <2>3, <2>5, <3>3 DEF Queued
      <4>2. i + 1 \in 1..Len(s) /\ s[i + 1] = q
        BY <2>2, <4>1
      <4> QED
        BY <2>1, <3>3, <4>2 DEF Queued
    <3> QED
      BY <3>2, <3>3
  <2> QED
    BY <2>2, <2>3, <2>4, <2>5
<1> QED
  BY <1>2, <1>3

\* The instruction that run() executes is counted in the quantum of its process.
LEMMA RunQuanta ==
    ASSUME OSTypeOK, FinishedInFull, PlacementInv, QuantaInv, NEW c \in CPU, CpuRun(c)
    PROVE  QuantaInv'
<1> USE OSAssumption, SchedAssumption
<1>1. PICK p \in Proc : p = proc[c] /\ p # NULL /\ Run(p)
  BY DEF CpuRun, OSTypeOK, SchedTypeOK
<1>2. UNCHANGED <<schedVars, proc, loaded, mlq_ready_queue>>
  BY DEF CpuRun, schedVars
<1>3. /\ pc \in [Proc -> Nat] /\ time_left \in [CPU -> 0..time_slot]
      /\ proc \in [CPU -> Proc \cup {NULL}]
  BY DEF OSTypeOK, ThreadTypeOK, SchedTypeOK
<1>4. \A q \in Proc : q # p => pc'[q] = pc[q]
  BY <1>1, <1>3 DEF Run
<1>5. \A d \in CPU : d # c => time_left'[d] = time_left[d] /\ proc[d] # p
  BY <1>1, <1>3 DEF CpuRun, PlacementInv, Placement, HeldOnce
<1>6. p \in loaded /\ ~Queued(p)
  <2>1. p \in loaded
    BY <1>1 DEF PlacementInv, Placement, HeldOnce
  <2>2. prio[p] \in Level
    BY DEF Level
  <2>3. ~Queued(p)
    BY <1>1, <2>2 DEF PlacementInv, Placement, QueueOnce, Queued
  <2> QED
    BY <2>1, <2>3
<1>7. ASSUME pc'[p] # size[p] PROVE WholeQuanta(pc'[p] + time_left'[c])
  <2>1. PICK m \in Nat, n \in Nat, l \in Nat, t \in Nat \ {0} :
           m = pc[p] /\ n = size[p] /\ l = time_left[c] /\ t = time_slot
    BY <1>3
  <2>2. time_left'[c] = (IF l = 0 THEN t ELSE l) - 1
    BY <1>3, <2>1 DEF CpuRun
  <2>3. pc'[p] = IF m >= n THEN m ELSE m + 1
    BY <1>1, <1>3, <2>1 DEF Run
  <2>4. m # n /\ m <= n
    BY <1>7, <2>1, <2>3 DEF FinishedInFull
  <2>5. WholeQuanta(m + l)
    BY <1>1, <2>1, <2>4 DEF QuantaInv
  <2>6. CASE l = 0
    <3>1. WholeQuanta(m + t)
      <4>1. WholeQuanta(m)
        BY <2>5, <2>6
      <4> QED
        BY <2>1, <4>1, WholeNext
    <3>2. pc'[p] + time_left'[c] = m + t
      BY <2>2, <2>3, <2>4, <2>6
    <3> QED
      BY <3>1, <3>2
  <2>7. CASE l # 0
    <3>1. pc'[p] + time_left'[c] = m + l
      BY <2>2, <2>3, <2>4, <2>7
    <3> QED
      BY <2>5, <3>1
  <2> QED
    BY <2>6, <2>7
<1>8. \A q \in Proc : Queued(q)' => Queued(q) /\ q # p
  BY <1>2, <1>6 DEF Queued
<1>9. \A q \in Proc \ loaded' : pc'[q] = 0
  BY <1>2, <1>4, <1>6 DEF QuantaInv
<1>10. ASSUME NEW d \in CPU
       PROVE  IF proc'[d] = NULL THEN time_left'[d] = 0
              ELSE pc'[proc'[d]] # size[proc'[d]] => WholeQuanta(pc'[proc'[d]] + time_left'[d])
  <2>1. CASE d = c
    BY <1>1, <1>2, <1>7, <2>1
  <2>2. CASE d # c
    <3>1. time_left'[d] = time_left[d] /\ proc'[d] = proc[d] /\ proc[d] # p
      BY <1>2, <1>5, <2>2
    <3>2. proc[d] # NULL => pc'[proc[d]] = pc[proc[d]]
      BY <1>3, <1>4, <3>1
    <3> QED
      BY <3>1, <3>2 DEF QuantaInv
  <2> QED
    BY <2>1, <2>2
<1> QED
  BY <1>4, <1>8, <1>9, <1>10 DEF QuantaInv

\* A process is put back at the end of its quantum, and the next one of the CPU
\* starts with its own.
LEMMA QuantaStep ==
    ASSUME OSTypeOK, FinishedInFull, PlacementInv, QuantaInv, [Next]_vars PROVE QuantaInv'
<1> USE OSAssumption, SchedAssumption
<1>0. /\ pc \in [Proc -> Nat] /\ time_left \in [CPU -> 0..time_slot]
      /\ proc \in [CPU -> Proc \cup {NULL}] /\ SchedTypeOK
  BY DEF OSTypeOK, ThreadTypeOK, SchedTypeOK
\* A step that runs nothing, starts no time and takes no process.
<1> DEFINE Frame == /\ UNCHANGED <<pc, time_left, proc>>
                    /\ loaded \subseteq loaded'
                    /\ \A q \in Proc : Queued(q)' => Queued(q) \/ WholeQuanta(pc[q])
<1>1. Frame => QuantaInv'
  BY DEF QuantaInv
<1>2. ASSUME UNCHANGED <<pc, time_left>>, UNCHANGED schedVars PROVE QuantaInv'
  BY <1>1, <1>2 DEF schedVars, Queued
<1>3. CASE Loader
  <2>1. CASE LdWait \/ LdDone
    BY <1>2, <2>1 DEF LdWait, LdDone, osVars
  <2>2. CASE LdAdd
    <3>1. PICK p \in Proc : p = ld_processes[next] /\ AddProc(p)
      BY <2>2 DEF LdAdd, OSTypeOK, ThreadTypeOK
    <3>2. pc[p] = 0 /\ WholeQuanta(pc[p])
      BY <3>1, WholeZero DEF AddProc, QuantaInv
    <3>3. \A q \in Proc : Queued(q)' => Queued(q) \/ q = p
      BY <1>0, <3>1, EnqueueOnly DEF AddProc
    <3>4. UNCHANGED <<pc, time_left, proc>> /\ loaded \subseteq loaded'
      BY <2>2, <3>1 DEF LdAdd, AddProc
    <3> QED
      BY <1>1, <3>2, <3>3, <3>4
  <2> QED
    BY <1>3, <2>1, <2>2 DEF Loader
<1>4. ASSUME NEW c \in CPU, CpuThread(c) PROVE QuantaInv'
  <2>1. CASE CpuFirst(c) \/ CpuCall(c)
    BY <1>1, <2>1 DEF CpuFirst, CpuCall, GetProc, Queued
  <2>2. CASE CpuKeep(c) \/ CpuSkip(c) \/ CpuStop(c)
    BY <1>2, <2>2 DEF CpuKeep, CpuSkip, CpuStop
  <2>3. CASE CpuFinish(c)
    <3>1. /\ UNCHANGED <<pc, loaded, mlq_ready_queue>>
          /\ proc' = [proc EXCEPT ![c] = NULL] /\ time_left' = [time_left EXCEPT ![c] = 0]
      BY <2>3 DEF CpuFinish, FreeProc
    <3> QED
      BY <1>0, <3>1 DEF QuantaInv, Queued
  <2>4. CASE CpuPut(c)
    <3>1. PICK p \in Proc : p = proc[c] /\ p # NULL /\ Enqueue(p) /\ pc[p] # size[p]
      BY <1>0, <2>4 DEF CpuPut, PutProc
    <3>2. /\ UNCHANGED <<pc, time_left, loaded>> /\ time_left[c] = 0
          /\ proc' = [proc EXCEPT ![c] = NULL]
      BY <2>4 DEF CpuPut, PutProc
    <3>3. WholeQuanta(pc[p])
      <4>1. WholeQuanta(pc[p] + 0)
        BY <3>1, <3>2 DEF QuantaInv
      <4>2. pc[p] + 0 = pc[p]
        BY <1>0
      <4> QED
        BY <4>1, <4>2
    <3>4. \A q \in Proc : Queued(q)' => Queued(q) \/ q = p
      BY <1>0, <3>1, EnqueueOnly
    <3> QED
      BY <1>0, <3>2, <3>3, <3>4 DEF QuantaInv
  <2>5. CASE CpuGet(c)
    <3>1. UNCHANGED <<pc, time_left>> /\ GetStep(c)
      BY <2>5 DEF CpuGet, osVars
    <3>2. CASE ~TakeProc(c)
      <4>1. UNCHANGED <<proc, loaded, mlq_ready_queue>>
        BY <3>1, <3>2 DEF GetStep, QueueEmpty, SelectLevel, TestSlot, ResetSlots
      <4> QED
        BY <1>1, <3>1, <4>1 DEF Queued
    <3>3. CASE TakeProc(c)
      <4>1. proc[c] = NULL /\ loaded' = loaded
        BY <3>3 DEF PlacementInv, GetHoldsNone, TakeProc
      <4>2. time_left[c] = 0
        BY <4>1 DEF QuantaInv
      <4>3. /\ proc'[c] # NULL => proc'[c] \in Proc /\ Queued(proc'[c])
            /\ \A q \in Proc : Queued(q)' => Queued(q)
            /\ \A d \in CPU : d # c => proc'[d] = proc[d]
        BY <3>3, TakeOnly
      <4>4. ASSUME proc'[c] # NULL PROVE WholeQuanta(pc[proc'[c]] + time_left[c])
        <5>1. PICK p \in Proc : p = proc'[c] /\ Queued(p)
          BY <4>3, <4>4
        <5>2. WholeQuanta(pc[p]) /\ pc[p] + 0 = pc[p]
          BY <1>0, <5>1 DEF QuantaInv
        <5> QED
          BY <4>2, <5>1, <5>2
      <4>5. ASSUME NEW d \in CPU
            PROVE  IF proc'[d] = NULL THEN time_left[d] = 0
                   ELSE pc[proc'[d]] # size[proc'[d]] => WholeQuanta(pc[proc'[d]] + time_left[d])
        <5>1. CASE d = c
          BY <4>2, <4>4, <5>1
        <5>2. CASE d # c
          BY <4>3, <5>2 DEF QuantaInv
        <5> QED
          BY <5>1, <5>2
      <4> QED
        BY <3>1, <4>1, <4>3, <4>5 DEF QuantaInv
    <3> QED
      BY <3>2, <3>3
  <2>6. CASE CpuRun(c)
    BY <2>6, RunQuanta
  <2> QED
    BY <1>4, <2>1, <2>2, <2>3, <2>4, <2>5, <2>6 DEF CpuThread
<1>5. CASE NewSlot
  BY <1>2, <1>5 DEF NewSlot
<1>6. CASE UNCHANGED vars
  BY <1>2, <1>6 DEF vars, osVars
<1> QED
  BY <1>3, <1>4, <1>5, <1>6 DEF Next

\* A process that gives up its CPU before its end has had whole quanta: whoever
\* ran before it on that CPU has left it no rest of a quantum.
THEOREM QuantaInFullTheorem == Spec => []QuantaInFull
<1>1. Init => QuantaInv
  <2> SUFFICES ASSUME Init PROVE QuantaInv
    OBVIOUS
  <2>1. \A p \in Proc : ~Queued(p)
    <3>1. \A p \in Proc : mlq_ready_queue[prio[p]] = <<>>
      BY SchedAssumption DEF Init, SchedInit, Level
    <3>2. 1..Len(<<>>) = {}
      OBVIOUS
    <3> QED
      BY <3>1, <3>2 DEF Queued
  <2> QED
    BY <2>1 DEF Init, SchedInit, QuantaInv
<1>2. OSInv /\ PlacementInv /\ QuantaInv /\ [Next]_vars => QuantaInv'
  BY QuantaStep DEF OSInv
<1>3. QuantaInv => QuantaInFull
  BY DEF QuantaInv, QuantaInFull
<1> QED
  BY <1>1, <1>2, <1>3, OSInvariant, OSPlacement, PTL DEF Spec

=============================================================================
