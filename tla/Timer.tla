-------------------------------- MODULE Timer --------------------------------
(***************************************************************************)
(* The timer of src/timer.c: the timer thread, the threads of the devices  *)
(* (every CPU, and the loader) inside next_slot() and detach_event(), and  *)
(* the part of main() (src/os.c) that attaches the devices, starts the     *)
(* threads and stops the timer.                                            *)
(*                                                                         *)
(* A device is the number of its container, in the order of attachment.    *)
(* attach_event() pushes a container at the head of dev_list, so the list  *)
(* is known from its head: the next of container k is k - 1, and 0 is NULL.*)
(*                                                                         *)
(* Granularity: one action per critical section.  event_lock of a device   *)
(* guards the writes of done := 1 and fsh := 1 against the test of the     *)
(* timer, timer_lock guards done := 0 against the test of the device; that *)
(* a write under one lock never meets an access under the other is not     *)
(* built in but is the property DoneHandoff below.  A thread inside        *)
(* pthread_cond_wait() is in state "sleep"; it leaves it when it is        *)
(* signalled, or spuriously, and then tests its condition again.           *)
(***************************************************************************)
EXTENDS Naturals

CONSTANTS
    N,         \* number of devices: num_cpus and the loader
    MaxSlots   \* slots after which the devices stop; bounds the model

ASSUME TimerAssumption == N \in Nat \ {0} /\ MaxSlots \in Nat

Device == 1..N
NULL == 0      \* the end of dev_list

VARIABLES
    dev_list,       \* head of the list of attached containers
    done,           \* done[d]: the device has done its job in this slot
    fsh,            \* fsh[d]: the device has finished for good
    time,           \* _time
    timer_started,
    timer_stop,
    tpc,            \* where the timer thread is
    temp,           \* the container that the timer thread is visiting
    nfsh, nevent,   \* the locals fsh and event of timer_routine()
    dpc,            \* dpc[d]: where the thread of device d is
    mpc,            \* where main() is
    slots           \* history: slots[d], slots that device d has begun after the first

timerVars == <<tpc, temp, nfsh, nevent>>
vars == <<dev_list, done, fsh, time, timer_started, timer_stop, timerVars,
          dpc, mpc, slots>>

TypeOK ==
    /\ dev_list \in 0..N
    /\ done \in [Device -> BOOLEAN]
    /\ fsh \in [Device -> BOOLEAN]
    /\ time \in Nat
    /\ timer_started \in BOOLEAN
    /\ timer_stop \in BOOLEAN
    /\ tpc \in {"none", "top", "wait", "sleep", "release", "exit"}
    /\ temp \in 0..N
    /\ nfsh \in Nat
    /\ nevent \in Nat
    /\ dpc \in [Device -> {"none", "run", "test", "sleep", "gone"}]
    /\ mpc \in {"boot", "join", "stop", "exit"}
    /\ slots \in [Device -> Nat]

Init ==
    /\ dev_list = NULL
    /\ done = [d \in Device |-> FALSE]
    /\ fsh = [d \in Device |-> FALSE]
    /\ time = 0
    /\ timer_started = FALSE
    /\ timer_stop = FALSE
    /\ tpc = "none"
    /\ temp = NULL
    /\ nfsh = 0
    /\ nevent = 0
    /\ dpc = [d \in Device |-> "none"]
    /\ mpc = "boot"
    /\ slots = [d \in Device |-> 0]

-----------------------------------------------------------------------------
(* main() *)

\* Mutant: one event more than there are devices.
AttachEventOneMore ==
    /\ mpc = "boot"
    /\ ~timer_started
    /\ dev_list' = dev_list + 1
    /\ UNCHANGED <<done, fsh, time, timer_started, timer_stop, timerVars, dpc, mpc, slots>>

\* attach_event(): refused once the timer runs.
AttachEvent ==
    /\ mpc = "boot"
    /\ ~timer_started
    /\ dev_list < N
    /\ dev_list' = dev_list + 1
    /\ done' = [done EXCEPT ![dev_list + 1] = FALSE]
    /\ fsh' = [fsh EXCEPT ![dev_list + 1] = FALSE]
    /\ UNCHANGED <<time, timer_started, timer_stop, timerVars, dpc, mpc, slots>>

\* start_timer(), once every device is attached.
StartTimer ==
    /\ mpc = "boot"
    /\ ~timer_started
    /\ dev_list = N
    /\ timer_started' = TRUE
    /\ tpc' = "top"
    /\ UNCHANGED <<dev_list, done, fsh, time, timer_stop, temp, nfsh, nevent,
                   dpc, mpc, slots>>

\* pthread_create(): the loader, attached last, is created first, then the
\* CPUs in the order of their numbers.  The timer is running already.
CreateThread(d) ==
    /\ mpc = "boot"
    /\ timer_started
    /\ dpc[d] = "none"
    /\ d # N => dpc[N] # "none" /\ \A e \in 1..(d - 1) : dpc[e] # "none"
    /\ dpc' = [dpc EXCEPT ![d] = "run"]
    /\ mpc' = IF \A e \in Device \ {d} : dpc[e] # "none" THEN "join" ELSE mpc
    /\ UNCHANGED <<dev_list, done, fsh, time, timer_started, timer_stop,
                   timerVars, slots>>

\* pthread_join() of the CPUs and the loader, then the store of stop_timer().
StopTimer ==
    /\ mpc = "join"
    /\ \A d \in Device : dpc[d] = "gone"
    /\ timer_stop' = TRUE
    /\ mpc' = "stop"
    /\ UNCHANGED <<dev_list, done, fsh, time, timer_started, timerVars, dpc, slots>>

\* pthread_join(_timer), after which stop_timer() frees every container.
FreeDevList ==
    /\ mpc = "stop"
    /\ tpc = "exit"
    /\ dev_list' = NULL
    /\ mpc' = "exit"
    /\ UNCHANGED <<done, fsh, time, timer_started, timer_stop, timerVars, dpc, slots>>

-----------------------------------------------------------------------------
(* timer_routine() *)

\* The head of the loop; it ends the thread when stop_timer() asks for it.
TimerTop ==
    /\ tpc = "top"
    /\ \/ /\ timer_stop
          /\ tpc' = "exit"
          /\ UNCHANGED <<temp, nfsh, nevent>>
       \/ /\ ~timer_stop
          /\ tpc' = "wait"
          /\ temp' = dev_list
          /\ nfsh' = 0
          /\ nevent' = 0
    /\ UNCHANGED <<dev_list, done, fsh, time, timer_started, timer_stop, dpc, mpc, slots>>

\* Mutant: every device that was waited for counts as finished.
TimerWaitCountsAll ==
    /\ tpc = "wait"
    /\ temp # NULL
    /\ \/ /\ ~done[temp] /\ ~fsh[temp]
          /\ tpc' = "sleep"
          /\ UNCHANGED <<temp, nfsh, nevent>>
       \/ /\ done[temp] \/ fsh[temp]
          /\ nfsh' = nfsh + 1
          /\ nevent' = nevent + 1
          /\ temp' = temp - 1
          /\ UNCHANGED tpc
    /\ UNCHANGED <<dev_list, done, fsh, time, timer_started, timer_stop, dpc, mpc, slots>>

\* Under event_lock of the visited device: sleep until it has done its job,
\* or count it and go to the next one.
TimerWait ==
    /\ tpc = "wait"
    /\ temp # NULL
    /\ \/ /\ ~done[temp] /\ ~fsh[temp]
          /\ tpc' = "sleep"
          /\ UNCHANGED <<temp, nfsh, nevent>>
       \/ /\ done[temp] \/ fsh[temp]
          /\ nfsh' = IF fsh[temp] THEN nfsh + 1 ELSE nfsh
          /\ nevent' = nevent + 1
          /\ temp' = temp - 1
          /\ UNCHANGED tpc
    /\ UNCHANGED <<dev_list, done, fsh, time, timer_started, timer_stop, dpc, mpc, slots>>

\* Mutant: the clock advances inside the loop over the devices.
TimerTickEarly ==
    /\ tpc = "wait"
    /\ time' = time + 1
    /\ tpc' = "release"
    /\ temp' = dev_list
    /\ UNCHANGED <<dev_list, done, fsh, timer_started, timer_stop, nfsh, nevent,
                   dpc, mpc, slots>>

\* _time++ once every device has been waited for.
TimerTick ==
    /\ tpc = "wait"
    /\ temp = NULL
    /\ time' = time + 1
    /\ tpc' = "release"
    /\ temp' = dev_list
    /\ UNCHANGED <<dev_list, done, fsh, timer_started, timer_stop, nfsh, nevent,
                   dpc, mpc, slots>>

\* Mutant: timer_cond is not signalled.
SignalDeviceNot(d) == UNCHANGED dpc

\* pthread_cond_signal(timer_cond) of device d: wakes it if it sleeps.
SignalDevice(d) ==
    dpc' = [dpc EXCEPT ![d] = IF @ = "sleep" THEN "test" ELSE @]

\* Mutant: _time++ in the loop that releases the devices.
TimerReleaseTicks ==
    /\ tpc = "release"
    /\ temp # NULL
    /\ done' = [done EXCEPT ![temp] = FALSE]
    /\ SignalDevice(temp)
    /\ temp' = temp - 1
    /\ time' = time + 1
    /\ UNCHANGED <<dev_list, fsh, timer_started, timer_stop, tpc, nfsh, nevent, mpc, slots>>

\* Under timer_lock of the visited device: let it go on.
TimerRelease ==
    /\ tpc = "release"
    /\ temp # NULL
    /\ done' = [done EXCEPT ![temp] = FALSE]
    /\ SignalDevice(temp)
    /\ temp' = temp - 1
    /\ UNCHANGED <<dev_list, fsh, time, timer_started, timer_stop, tpc, nfsh,
                   nevent, mpc, slots>>

\* The foot of the loop: break when every device was seen finished.
TimerFoot ==
    /\ tpc = "release"
    /\ temp = NULL
    /\ tpc' = IF nfsh = nevent THEN "exit" ELSE "top"
    /\ UNCHANGED <<dev_list, done, fsh, time, timer_started, timer_stop, temp,
                   nfsh, nevent, dpc, mpc, slots>>

\* Mutant: "if" instead of "while" around the wait of the timer.
TimerSpuriousWakeGoesOn ==
    /\ tpc = "sleep"
    /\ tpc' = "wait"
    /\ temp' = temp - 1
    /\ nevent' = nevent + 1
    /\ UNCHANGED <<dev_list, done, fsh, time, timer_started, timer_stop, nfsh, dpc, mpc, slots>>

\* pthread_cond_wait() may return without a signal.
TimerSpuriousWake ==
    /\ tpc = "sleep"
    /\ tpc' = "wait"
    /\ UNCHANGED <<dev_list, done, fsh, time, timer_started, timer_stop, temp,
                   nfsh, nevent, dpc, mpc, slots>>

TimerThread == TimerTop \/ TimerWait \/ TimerTick \/ TimerRelease \/ TimerFoot

-----------------------------------------------------------------------------
(* The devices *)

\* Mutant: event_cond is not signalled.
SignalTimerNot(d) == UNCHANGED tpc

\* pthread_cond_signal(event_cond) of device d: wakes the timer if it sleeps there.
SignalTimer(d) ==
    tpc' = IF tpc = "sleep" /\ temp = d THEN "wait" ELSE tpc

\* First half of next_slot(), under event_lock.
NextSlot(d) ==
    /\ dpc[d] = "run"
    /\ time < MaxSlots
    /\ done' = [done EXCEPT ![d] = TRUE]
    /\ SignalTimer(d)
    /\ dpc' = [dpc EXCEPT ![d] = "test"]
    /\ UNCHANGED <<dev_list, fsh, time, timer_started, timer_stop, temp, nfsh,
                   nevent, mpc, slots>>

\* Second half of next_slot(), under timer_lock: return once done is 0.
TestDone(d) ==
    /\ dpc[d] = "test"
    /\ \/ /\ done[d]
          /\ dpc' = [dpc EXCEPT ![d] = "sleep"]
          /\ UNCHANGED slots
       \/ /\ ~done[d]
          /\ dpc' = [dpc EXCEPT ![d] = "run"]
          /\ slots' = [slots EXCEPT ![d] = @ + 1]
    /\ UNCHANGED <<dev_list, done, fsh, time, timer_started, timer_stop,
                   timerVars, mpc>>

\* Mutant: "if" instead of "while" around the wait of the device.
DeviceSpuriousWakeReturns(d) ==
    /\ dpc[d] = "sleep"
    /\ dpc' = [dpc EXCEPT ![d] = "run"]
    /\ slots' = [slots EXCEPT ![d] = @ + 1]
    /\ UNCHANGED <<dev_list, done, fsh, time, timer_started, timer_stop, timerVars, mpc>>

DeviceSpuriousWake(d) ==
    /\ dpc[d] = "sleep"
    /\ dpc' = [dpc EXCEPT ![d] = "test"]
    /\ UNCHANGED <<dev_list, done, fsh, time, timer_started, timer_stop,
                   timerVars, mpc, slots>>

\* Mutant: the thread exits without fsh = 1.
DetachEventUnmarked(d) ==
    /\ dpc[d] = "run"
    /\ SignalTimer(d)
    /\ dpc' = [dpc EXCEPT ![d] = "gone"]
    /\ UNCHANGED <<dev_list, done, fsh, time, timer_started, timer_stop, temp, nfsh,
                   nevent, mpc, slots>>

\* detach_event() under event_lock, then pthread_exit().
DetachEvent(d) ==
    /\ dpc[d] = "run"
    /\ fsh' = [fsh EXCEPT ![d] = TRUE]
    /\ SignalTimer(d)
    /\ dpc' = [dpc EXCEPT ![d] = "gone"]
    /\ UNCHANGED <<dev_list, done, time, timer_started, timer_stop, temp, nfsh,
                   nevent, mpc, slots>>

Main == AttachEvent \/ StartTimer \/ (\E d \in Device : CreateThread(d))
        \/ StopTimer \/ FreeDevList

DeviceThread(d) == NextSlot(d) \/ TestDone(d) \/ DetachEvent(d)

\* The program has ended: nothing more happens.
Terminated == mpc = "exit" /\ UNCHANGED vars

Next ==
    \/ Main
    \/ TimerThread
    \/ TimerSpuriousWake
    \/ \E d \in Device : DeviceThread(d) \/ DeviceSpuriousWake(d)
    \/ Terminated

Spec == Init /\ [][Next]_vars

\* Every thread that can take a step eventually takes one: the scheduler of
\* the host runs every thread, and no section above is contended for ever.
Fairness ==
    /\ WF_vars(Main)
    /\ WF_vars(TimerThread)
    /\ \A d \in Device : WF_vars(DeviceThread(d))

FairSpec == Spec /\ Fairness

-----------------------------------------------------------------------------
(* Properties *)

\* Lockstep of next_slot(): a device that works is in the slot the clock shows,
\* and a device inside next_slot() is there or exactly one slot behind.  No
\* device ever begins a slot while another still works in the one before.
Lockstep ==
    \A d \in Device :
        /\ dpc[d] = "run" => slots[d] = time
        /\ dpc[d] \in {"test", "sleep"} => slots[d] = time \/ slots[d] + 1 = time

\* No wakeup is lost: while the timer sleeps on event_cond of a device that
\* device has neither ended its slot nor detached, and while a device sleeps on
\* its timer_cond the timer has not released it.
NoLostWakeup ==
    /\ tpc = "sleep" => ~done[temp] /\ ~fsh[temp]
    /\ \A d \in Device : dpc[d] = "sleep" => done[d]

\* done is written by next_slot() under event_lock and by timer_routine() under
\* timer_lock: two locks for one field.  The two writers are never both at
\* their critical section for the same device, so the writes do not race.
DoneHandoff ==
    \A d \in Device : ~(dpc[d] = "run" /\ tpc = "release" /\ temp = d)

\* current_time() reads _time without a lock.  The clock changes only when no
\* device works, so the loader never reads it while it changes.
TimeStable ==
    [][time' # time => \A d \in Device : dpc[d] \notin {"none", "run"}]_vars

\* The timer thread ends only when every device has detached, whichever of its
\* two exits it takes (timer_stop, or fsh == event): no device is left waiting,
\* and nobody uses a container that stop_timer() has freed.
TimerExit ==
    (tpc = "exit" \/ (timer_started /\ dev_list = NULL)) =>
        \A d \in Device : dpc[d] = "gone"

\* The barrier that this timer implements.  A device counts as arrived from
\* done := 1 on until the clock advances; the timer then still has to visit it.
arrived == {d \in Device : done[d] /\ ~(tpc = "release" /\ d <= temp)}
left == {d \in Device : fsh[d]}
Barrier == INSTANCE SlotBarrier WITH TimeCap <- MaxSlots + 1

-----------------------------------------------------------------------------
(* The inductive invariant behind the properties above *)

\* main() starts the timer before any device thread, and stops it after all.
BootInv ==
    /\ ~timer_started => /\ tpc = "none"
                         /\ mpc = "boot"
                         /\ \A d \in Device : dpc[d] = "none"
    /\ timer_started => tpc # "none" /\ (dev_list = N \/ mpc = "exit")
    /\ mpc # "boot" => timer_started /\ \A d \in Device : dpc[d] # "none"
    /\ timer_stop => mpc \in {"stop", "exit"} /\ \A d \in Device : dpc[d] = "gone"
    /\ mpc = "exit" => tpc = "exit"

\* The two flags of a device say where its thread is.
FlagInv ==
    \A d \in Device :
        /\ fsh[d] <=> dpc[d] = "gone"
        /\ done[d] => dpc[d] \in {"test", "sleep"}
        /\ dpc[d] = "sleep" => done[d]

\* The devices the timer has passed while it waits, and those it has still to
\* release, have all ended their slot; and what its two counters tell.
TimerInv ==
    /\ tpc \in {"wait", "sleep"} =>
          /\ \A d \in Device : d > temp => done[d] \/ fsh[d]
          /\ nfsh <= nevent
          /\ nfsh = nevent => \A d \in Device : d > temp => fsh[d]
          /\ nfsh # nevent => \E d \in Device : d > temp /\ done[d]
    /\ tpc = "sleep" => temp # NULL /\ ~done[temp] /\ ~fsh[temp]
    /\ tpc = "release" =>
          /\ \A d \in Device : d <= temp => done[d] \/ fsh[d]
          /\ nfsh = nevent => \A d \in Device : fsh[d]
    /\ tpc = "exit" => \A d \in Device : fsh[d]

\* The slot every device is in; MaxSlots bounds the clock.
SlotInv ==
    /\ \A d \in Device :
          /\ dpc[d] = "none" => slots[d] = 0 /\ time = 0
          /\ dpc[d] = "run" => slots[d] = time
          /\ d \in arrived => slots[d] = time /\ time < MaxSlots
          /\ dpc[d] \in {"test", "sleep"} /\ d \notin arrived => slots[d] + 1 = time
    /\ \/ time <= MaxSlots
       \/ time = MaxSlots + 1 /\ nfsh = nevent /\ tpc \in {"release", "exit"}

IInv == TypeOK /\ BootInv /\ FlagInv /\ TimerInv /\ SlotInv

-----------------------------------------------------------------------------
\* The timer implements SlotBarrier: the loops of timer_routine() over the
\* devices, the flags and the condition variables amount to one barrier.
TimerImplementsBarrier == Barrier!BarrierSpec

\* Every call of next_slot() returns.
SlotReturns ==
    \A d \in Device : (dpc[d] \in {"test", "sleep"}) ~> (dpc[d] = "run")

\* Once its devices detach, the program ends: the timer thread exits and
\* stop_timer() returns.
Termination == <>(mpc = "exit")

=============================================================================
