----------------------------- MODULE TimerProofs -----------------------------
(***************************************************************************)
(* Proofs about module Timer, for every number N of devices and every      *)
(* bound MaxSlots on the slots.                                            *)
(*                                                                         *)
(* None of the properties is inductive by itself: that a device works in   *)
(* the slot the clock shows depends on the clock advancing only when no    *)
(* device works, which depends on what the timer thread has found in the   *)
(* part of dev_list that it has passed.  IInv says all of this at once;    *)
(* every theorem below follows from it.                                    *)
(***************************************************************************)
EXTENDS Timer, TLAPS

\* IInv holds when main() begins.
LEMMA InitIInv == Init => IInv
<1> SUFFICES ASSUME Init PROVE IInv
  OBVIOUS
<1> USE TimerAssumption DEF Init, Device, NULL
<1>1. TypeOK
  <2>1. dev_list \in 0..N /\ temp \in 0..N
    OBVIOUS
  <2>2. done \in [Device -> BOOLEAN] /\ fsh \in [Device -> BOOLEAN]
    OBVIOUS
  <2>3. time \in Nat /\ nfsh \in Nat /\ nevent \in Nat /\ slots \in [Device -> Nat]
    OBVIOUS
  <2>4. dpc \in [Device -> {"none", "run", "test", "sleep", "gone"}]
    OBVIOUS
  <2> QED
    BY <2>1, <2>2, <2>3, <2>4 DEF TypeOK
<1>2. BootInv
  BY DEF BootInv
<1>3. FlagInv
  BY DEF FlagInv
<1>4. TimerInv
  BY DEF TimerInv
<1>5. SlotInv
  BY DEF SlotInv, arrived
<1> QED
  BY <1>1, <1>2, <1>3, <1>4, <1>5 DEF IInv

\* Every step of main(), of the timer thread and of a device preserves IInv.
LEMMA NextIInv == IInv /\ [Next]_vars => IInv'
<1> SUFFICES ASSUME IInv, [Next]_vars PROVE IInv'
  OBVIOUS
<1> USE TimerAssumption DEF IInv, Device, NULL, timerVars
<1>1. CASE AttachEvent
  <2>1. TypeOK'
    BY <1>1 DEF AttachEvent, TypeOK
  <2>2. BootInv'
    BY <1>1 DEF AttachEvent, TypeOK, BootInv, FlagInv, TimerInv
  <2>3. FlagInv'
    BY <1>1 DEF AttachEvent, TypeOK, BootInv, FlagInv
  <2>4. TimerInv'
    BY <1>1 DEF AttachEvent, TypeOK, BootInv, FlagInv, TimerInv
  <2>5. SlotInv'
    BY <1>1 DEF AttachEvent, TypeOK, BootInv, FlagInv, TimerInv, SlotInv, arrived
  <2> QED
    BY <2>1, <2>2, <2>3, <2>4, <2>5
<1>2. CASE StartTimer
  <2>1. TypeOK'
    BY <1>2 DEF StartTimer, TypeOK
  <2>2. BootInv'
    BY <1>2 DEF StartTimer, TypeOK, BootInv, FlagInv, TimerInv
  <2>3. FlagInv'
    BY <1>2 DEF StartTimer, TypeOK, FlagInv, TimerInv
  <2>4. TimerInv'
    BY <1>2 DEF StartTimer, TypeOK, BootInv, FlagInv, TimerInv
  <2>5. SlotInv'
    BY <1>2 DEF StartTimer, TypeOK, BootInv, FlagInv, TimerInv, SlotInv, arrived
  <2> QED
    BY <2>1, <2>2, <2>3, <2>4, <2>5
<1>3. ASSUME NEW d \in Device, CreateThread(d) PROVE IInv'
  <2>1. TypeOK'
    BY <1>3 DEF CreateThread, TypeOK
  <2>2. BootInv'
    BY <1>3 DEF CreateThread, TypeOK, BootInv, FlagInv, TimerInv
  <2>3. FlagInv'
    BY <1>3 DEF CreateThread, TypeOK, FlagInv, TimerInv
  <2>4. TimerInv'
    BY <1>3 DEF CreateThread, TypeOK, BootInv, FlagInv, TimerInv
  <2>5. SlotInv'
    BY <1>3 DEF CreateThread, TypeOK, BootInv, FlagInv, TimerInv, SlotInv, arrived
  <2> QED
    BY <2>1, <2>2, <2>3, <2>4, <2>5
<1>4. CASE StopTimer
  <2>1. TypeOK'
    BY <1>4 DEF StopTimer, TypeOK
  <2>2. BootInv'
    BY <1>4 DEF StopTimer, TypeOK, BootInv, FlagInv, TimerInv
  <2>3. FlagInv'
    BY <1>4 DEF StopTimer, TypeOK, FlagInv, TimerInv
  <2>4. TimerInv'
    BY <1>4 DEF StopTimer, TypeOK, BootInv, FlagInv, TimerInv
  <2>5. SlotInv'
    BY <1>4 DEF StopTimer, TypeOK, BootInv, FlagInv, TimerInv, SlotInv, arrived
  <2> QED
    BY <2>1, <2>2, <2>3, <2>4, <2>5
<1>5. CASE FreeDevList
  <2>1. TypeOK'
    BY <1>5 DEF FreeDevList, TypeOK
  <2>2. BootInv'
    BY <1>5 DEF FreeDevList, TypeOK, BootInv, FlagInv, TimerInv
  <2>3. FlagInv'
    BY <1>5 DEF FreeDevList, TypeOK, FlagInv, TimerInv
  <2>4. TimerInv'
    BY <1>5 DEF FreeDevList, TypeOK, BootInv, FlagInv, TimerInv
  <2>5. SlotInv'
    BY <1>5 DEF FreeDevList, TypeOK, BootInv, FlagInv, TimerInv, SlotInv, arrived
  <2> QED
    BY <2>1, <2>2, <2>3, <2>4, <2>5
<1>6. CASE TimerTop
  <2>1. TypeOK'
    BY <1>6 DEF TimerTop, TypeOK
  <2>2. BootInv'
    BY <1>6 DEF TimerTop, TypeOK, BootInv, FlagInv, TimerInv
  <2>3. FlagInv'
    BY <1>6 DEF TimerTop, TypeOK, FlagInv, TimerInv
  <2>4. TimerInv'
    BY <1>6 DEF TimerTop, TypeOK, BootInv, FlagInv, TimerInv
  <2>5. SlotInv'
    BY <1>6 DEF TimerTop, TypeOK, BootInv, FlagInv, TimerInv, SlotInv, arrived
  <2> QED
    BY <2>1, <2>2, <2>3, <2>4, <2>5
<1>7. CASE TimerWait
  <2>1. TypeOK'
    BY <1>7 DEF TimerWait, TypeOK
  <2>2. BootInv'
    BY <1>7 DEF TimerWait, TypeOK, BootInv, FlagInv, TimerInv
  <2>3. FlagInv'
    BY <1>7 DEF TimerWait, TypeOK, FlagInv, TimerInv
  <2>4. TimerInv'
    <3>1. CASE ~done[temp] /\ ~fsh[temp]
      BY <1>7, <3>1 DEF TimerWait, TypeOK, TimerInv
    <3>2. CASE done[temp] \/ fsh[temp]
      <4>1. /\ nfsh' = IF fsh[temp] THEN nfsh + 1 ELSE nfsh
            /\ nevent' = nevent + 1
            /\ temp' = temp - 1
            /\ tpc' = "wait"
            /\ UNCHANGED <<done, fsh>>
        BY <1>7, <3>2 DEF TimerWait
      <4>2. /\ temp \in Device
            /\ \A e \in Device : e > temp' <=> e > temp \/ e = temp
        BY <1>7, <4>1 DEF TimerWait, TypeOK
      <4>3. CASE fsh[temp]
        <5>1. nfsh' = nfsh + 1
          BY <4>1, <4>3
        <5>2. /\ nfsh' <= nevent'
              /\ nfsh' = nevent' <=> nfsh = nevent
          BY <1>7, <4>1, <5>1 DEF TimerWait, TypeOK, TimerInv
        <5> QED
          BY <1>7, <4>1, <4>2, <4>3, <5>2 DEF TimerWait, TypeOK, TimerInv
      <4>4. CASE ~fsh[temp]
        <5>1. nfsh' = nfsh /\ done[temp]
          BY <3>2, <4>1, <4>4
        <5>2. nfsh' < nevent'
          BY <1>7, <4>1, <5>1 DEF TimerWait, TypeOK, TimerInv
        <5> QED
          BY <1>7, <4>1, <4>2, <5>1, <5>2, SMTT(20) DEF TimerWait, TypeOK, TimerInv
      <4> QED
        BY <4>3, <4>4
    <3> QED
      BY <3>1, <3>2
  <2>5. SlotInv'
    BY <1>7 DEF TimerWait, TypeOK, BootInv, FlagInv, TimerInv, SlotInv, arrived
  <2> QED
    BY <2>1, <2>2, <2>3, <2>4, <2>5
<1>8. CASE TimerTick
  <2>1. TypeOK'
    BY <1>8 DEF TimerTick, TypeOK
  <2>2. BootInv'
    BY <1>8 DEF TimerTick, TypeOK, BootInv, FlagInv, TimerInv
  <2>3. FlagInv'
    BY <1>8 DEF TimerTick, TypeOK, FlagInv, TimerInv
  <2>4. TimerInv'
    BY <1>8 DEF TimerTick, TypeOK, BootInv, FlagInv, TimerInv
  <2>5. SlotInv'
    BY <1>8 DEF TimerTick, TypeOK, BootInv, FlagInv, TimerInv, SlotInv, arrived
  <2> QED
    BY <2>1, <2>2, <2>3, <2>4, <2>5
<1>9. CASE TimerRelease
  <2>1. TypeOK'
    BY <1>9 DEF TimerRelease, SignalDevice, TypeOK
  <2>2. BootInv'
    BY <1>9 DEF TimerRelease, SignalDevice, TypeOK, BootInv, FlagInv, TimerInv
  <2>3. FlagInv'
    BY <1>9 DEF TimerRelease, SignalDevice, TypeOK, FlagInv, TimerInv
  <2>4. TimerInv'
    BY <1>9 DEF TimerRelease, SignalDevice, TypeOK, BootInv, FlagInv, TimerInv
  <2>5. SlotInv'
    BY <1>9 DEF TimerRelease, SignalDevice, TypeOK, BootInv, FlagInv, TimerInv, SlotInv, arrived
  <2> QED
    BY <2>1, <2>2, <2>3, <2>4, <2>5
<1>10. CASE TimerFoot
  <2>1. TypeOK'
    BY <1>10 DEF TimerFoot, TypeOK
  <2>2. BootInv'
    BY <1>10 DEF TimerFoot, TypeOK, BootInv, FlagInv, TimerInv
  <2>3. FlagInv'
    BY <1>10 DEF TimerFoot, TypeOK, FlagInv, TimerInv
  <2>4. TimerInv'
    BY <1>10 DEF TimerFoot, TypeOK, BootInv, FlagInv, TimerInv
  <2>5. SlotInv'
    BY <1>10 DEF TimerFoot, TypeOK, BootInv, FlagInv, TimerInv, SlotInv, arrived
  <2> QED
    BY <2>1, <2>2, <2>3, <2>4, <2>5
<1>11. CASE TimerSpuriousWake
  <2>1. TypeOK'
    BY <1>11 DEF TimerSpuriousWake, TypeOK
  <2>2. BootInv'
    BY <1>11 DEF TimerSpuriousWake, TypeOK, BootInv, FlagInv, TimerInv
  <2>3. FlagInv'
    BY <1>11 DEF TimerSpuriousWake, TypeOK, FlagInv, TimerInv
  <2>4. TimerInv'
    BY <1>11 DEF TimerSpuriousWake, TypeOK, BootInv, FlagInv, TimerInv
  <2>5. SlotInv'
    BY <1>11 DEF TimerSpuriousWake, TypeOK, BootInv, FlagInv, TimerInv, SlotInv, arrived
  <2> QED
    BY <2>1, <2>2, <2>3, <2>4, <2>5
<1>12. ASSUME NEW d \in Device, NextSlot(d) PROVE IInv'
  <2>1. TypeOK'
    BY <1>12 DEF NextSlot, SignalTimer, TypeOK
  <2>2. BootInv'
    BY <1>12 DEF NextSlot, SignalTimer, TypeOK, BootInv, FlagInv, TimerInv
  <2>3. FlagInv'
    BY <1>12 DEF NextSlot, SignalTimer, TypeOK, FlagInv, TimerInv
  <2>4. TimerInv'
    BY <1>12 DEF NextSlot, SignalTimer, TypeOK, BootInv, FlagInv, TimerInv
  <2>5. SlotInv'
    BY <1>12 DEF NextSlot, SignalTimer, TypeOK, BootInv, FlagInv, TimerInv, SlotInv, arrived
  <2> QED
    BY <2>1, <2>2, <2>3, <2>4, <2>5
<1>13. ASSUME NEW d \in Device, TestDone(d) PROVE IInv'
  <2>1. TypeOK'
    BY <1>13 DEF TestDone, TypeOK
  <2>2. BootInv'
    BY <1>13 DEF TestDone, TypeOK, BootInv, FlagInv, TimerInv
  <2>3. FlagInv'
    BY <1>13 DEF TestDone, TypeOK, FlagInv, TimerInv
  <2>4. TimerInv'
    BY <1>13 DEF TestDone, TypeOK, BootInv, FlagInv, TimerInv
  <2>5. SlotInv'
    BY <1>13 DEF TestDone, TypeOK, BootInv, FlagInv, TimerInv, SlotInv, arrived
  <2> QED
    BY <2>1, <2>2, <2>3, <2>4, <2>5
<1>14. ASSUME NEW d \in Device, DeviceSpuriousWake(d) PROVE IInv'
  <2>1. TypeOK'
    BY <1>14 DEF DeviceSpuriousWake, TypeOK
  <2>2. BootInv'
    BY <1>14 DEF DeviceSpuriousWake, TypeOK, BootInv, FlagInv, TimerInv
  <2>3. FlagInv'
    BY <1>14 DEF DeviceSpuriousWake, TypeOK, FlagInv, TimerInv
  <2>4. TimerInv'
    BY <1>14 DEF DeviceSpuriousWake, TypeOK, BootInv, FlagInv, TimerInv
  <2>5. SlotInv'
    BY <1>14 DEF DeviceSpuriousWake, TypeOK, BootInv, FlagInv, TimerInv, SlotInv, arrived
  <2> QED
    BY <2>1, <2>2, <2>3, <2>4, <2>5
<1>15. ASSUME NEW d \in Device, DetachEvent(d) PROVE IInv'
  <2>1. TypeOK'
    BY <1>15 DEF DetachEvent, SignalTimer, TypeOK
  <2>2. BootInv'
    BY <1>15 DEF DetachEvent, SignalTimer, TypeOK, BootInv, FlagInv, TimerInv
  <2>3. FlagInv'
    BY <1>15 DEF DetachEvent, SignalTimer, TypeOK, FlagInv, TimerInv
  <2>4. TimerInv'
    BY <1>15 DEF DetachEvent, SignalTimer, TypeOK, BootInv, FlagInv, TimerInv
  <2>5. SlotInv'
    BY <1>15 DEF DetachEvent, SignalTimer, TypeOK, BootInv, FlagInv, TimerInv, SlotInv, arrived
  <2> QED
    BY <2>1, <2>2, <2>3, <2>4, <2>5
<1>16. CASE UNCHANGED vars
  BY <1>16 DEF vars, TypeOK, BootInv, FlagInv, TimerInv, SlotInv, arrived
<1> QED
  BY <1>1, <1>2, <1>3, <1>4, <1>5, <1>6, <1>7, <1>8,
     <1>9, <1>10, <1>11, <1>12, <1>13, <1>14, <1>15, <1>16
     DEF Next, Main, TimerThread, DeviceThread, Terminated

\* The timer of src/timer.c keeps its inductive invariant.
THEOREM InductiveInvariant == Spec => []IInv
  BY InitIInv, NextIInv, PTL DEF Spec

\* Type correctness of the flags, the clock, and the three kinds of threads.
THEOREM TypeCorrect == Spec => []TypeOK
<1>1. IInv => TypeOK
  BY DEF IInv
<1> QED
  BY <1>1, InductiveInvariant, PTL

\* next_slot() keeps any number of CPUs and the loader in lockstep.
THEOREM LockstepTheorem == Spec => []Lockstep
<1>1. IInv => Lockstep
  BY DEF IInv, SlotInv, Lockstep
<1> QED
  BY <1>1, InductiveInvariant, PTL

\* No signal of event_cond or timer_cond is lost.
THEOREM NoLostWakeupTheorem == Spec => []NoLostWakeup
<1>1. IInv => NoLostWakeup
  BY DEF IInv, FlagInv, TimerInv, NoLostWakeup
<1> QED
  BY <1>1, InductiveInvariant, PTL

\* The field done, guarded by two different locks, is never written by two
\* threads at once.
THEOREM DoneHandoffTheorem == Spec => []DoneHandoff
<1>1. IInv => DoneHandoff
  <2> SUFFICES ASSUME IInv, NEW d \in Device,
                      dpc[d] = "run", tpc = "release", temp = d
               PROVE  FALSE
    BY DEF DoneHandoff
  <2>1. d <= temp
    BY TimerAssumption DEF Device
  <2>2. done[d] \/ fsh[d]
    BY <2>1 DEF IInv, TimerInv
  <2> QED
    BY <2>2 DEF IInv, FlagInv
<1> QED
  BY <1>1, InductiveInvariant, PTL

\* The timer thread outlives every device, and a freed container is not used.
THEOREM TimerExitTheorem == Spec => []TimerExit
<1>1. IInv => TimerExit
  BY TimerAssumption DEF IInv, BootInv, FlagInv, TimerInv, TimerExit, NULL
<1> QED
  BY <1>1, InductiveInvariant, PTL

\* When the timer advances the clock every device has ended its slot.
LEMMA TickWaits ==
    ASSUME IInv, TimerTick, NEW d \in Device
    PROVE  done[d] \/ fsh[d]
  BY TimerAssumption DEF IInv, TypeOK, TimerInv, TimerTick, Device, NULL

\* The unlocked read of _time in current_time() is stable.
THEOREM TimeStableTheorem == Spec => TimeStable
<1>1. IInv /\ [Next]_vars =>
        [time' # time => \A d \in Device : dpc[d] \notin {"none", "run"}]_vars
  <2> SUFFICES ASSUME IInv, Next, time' # time, NEW d \in Device
               PROVE  dpc[d] \notin {"none", "run"}
    OBVIOUS
  <2>1. TimerTick
    BY DEF Next, Main, TimerThread, DeviceThread, Terminated, vars, AttachEvent,
       StartTimer, CreateThread, StopTimer, FreeDevList, TimerTop, TimerWait,
       TimerRelease, TimerFoot, TimerSpuriousWake, NextSlot, TestDone,
       DeviceSpuriousWake, DetachEvent
  <2> QED
    BY <2>1, TickWaits DEF IInv, FlagInv
<1> QED
  BY <1>1, InductiveInvariant, PTL DEF Spec, TimeStable

\* Timer implements SlotBarrier: the initial states map to initial states, and
\* every step of a thread is a step of the barrier or leaves it unchanged.
THEOREM Refinement == Spec => TimerImplementsBarrier
<1> USE TimerAssumption DEF Device, NULL, timerVars
<1>1. Init => Barrier!BarrierInit
  BY DEF Init, Barrier!BarrierInit, arrived, left
<1>2. IInv /\ [Next]_vars => [Barrier!BarrierNext]_(Barrier!barrierVars)
  <2> SUFFICES ASSUME IInv, [Next]_vars
               PROVE  Barrier!BarrierNext \/ UNCHANGED <<time, arrived, left>>
    BY DEF Barrier!barrierVars
  <2> USE DEF IInv, TypeOK
  <2>1. CASE AttachEvent
    <3>1. done' = done /\ fsh' = fsh
      BY <2>1 DEF AttachEvent, BootInv, FlagInv
    <3>2. time' = time /\ tpc' = tpc /\ temp' = temp
      BY <2>1 DEF AttachEvent
    <3> QED
      BY <3>1, <3>2 DEF arrived, left
  <2>2. CASE StartTimer
    BY <2>2 DEF StartTimer, BootInv, arrived, left
  <2>3. ASSUME NEW d \in Device, CreateThread(d) PROVE UNCHANGED <<time, arrived, left>>
    BY <2>3 DEF CreateThread, arrived, left
  <2>4. CASE StopTimer
    BY <2>4 DEF StopTimer, arrived, left
  <2>5. CASE FreeDevList
    BY <2>5 DEF FreeDevList, arrived, left
  <2>6. CASE TimerTop
    BY <2>6 DEF TimerTop, arrived, left
  <2>7. CASE TimerWait
    BY <2>7 DEF TimerWait, BootInv, arrived, left
  <2>8. CASE TimerTick
    <3>1. Device \subseteq arrived \cup left
      BY <2>8, TickWaits DEF TimerTick, arrived, left
    <3>2. arrived' = {}
      BY <2>8 DEF TimerTick, BootInv, arrived
    <3>3. time < MaxSlots + 1 /\ time' = time + 1
      BY <2>8 DEF TimerTick, SlotInv
    <3>4. left' = left
      BY <2>8 DEF TimerTick, left
    <3>5. Barrier!Tick
      BY <3>1, <3>2, <3>3, <3>4 DEF Barrier!Tick
    <3> QED
      BY <3>5 DEF Barrier!BarrierNext
  <2>9. CASE TimerRelease
    BY <2>9 DEF TimerRelease, SignalDevice, arrived, left
  <2>10. CASE TimerFoot
    BY <2>10 DEF TimerFoot, BootInv, TimerInv, FlagInv, arrived, left
  <2>11. CASE TimerSpuriousWake
    BY <2>11 DEF TimerSpuriousWake, arrived, left
  <2>12. ASSUME NEW d \in Device, NextSlot(d) PROVE Barrier!Arrive(d)
    <3>1. arrived' = arrived \cup {d}
      BY <2>12 DEF NextSlot, SignalTimer, FlagInv, TimerInv, arrived
    <3>2. left' = left /\ time' = time
      BY <2>12 DEF NextSlot, left
    <3>3. d \notin arrived /\ d \notin left
      BY <2>12 DEF NextSlot, FlagInv, arrived, left
    <3> QED
      BY <3>1, <3>2, <3>3 DEF Barrier!Arrive, Barrier!Working
  <2>13. ASSUME NEW d \in Device, TestDone(d) PROVE UNCHANGED <<time, arrived, left>>
    BY <2>13 DEF TestDone, arrived, left
  <2>14. ASSUME NEW d \in Device, DeviceSpuriousWake(d) PROVE UNCHANGED <<time, arrived, left>>
    BY <2>14 DEF DeviceSpuriousWake, arrived, left
  <2>15. ASSUME NEW d \in Device, DetachEvent(d) PROVE Barrier!Leave(d)
    <3>1. arrived' = arrived
      BY <2>15 DEF DetachEvent, SignalTimer, arrived
    <3>2. left' = left \cup {d} /\ time' = time
      BY <2>15 DEF DetachEvent, left
    <3>3. d \notin arrived /\ d \notin left
      BY <2>15 DEF DetachEvent, FlagInv, arrived, left
    <3> QED
      BY <3>1, <3>2, <3>3 DEF Barrier!Leave, Barrier!Working
  <2>16. CASE UNCHANGED vars
    BY <2>16 DEF vars, arrived, left
  <2> QED
    BY <2>1, <2>2, <2>3, <2>4, <2>5, <2>6, <2>7, <2>8,
       <2>9, <2>10, <2>11, <2>12, <2>13, <2>14, <2>15, <2>16
       DEF Next, Main, TimerThread, DeviceThread, Terminated, Barrier!BarrierNext
<1> QED
  BY <1>1, <1>2, InductiveInvariant, PTL
     DEF Spec, TimerImplementsBarrier, Barrier!BarrierSpec

=============================================================================
