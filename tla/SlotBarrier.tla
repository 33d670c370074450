----------------------------- MODULE SlotBarrier -----------------------------
(***************************************************************************)
(* What the timer (src/timer.c) promises to the CPUs and the loader: the   *)
(* devices advance through time slots in lockstep.  A device that calls    *)
(* next_slot() is held until every attached device has called it too or    *)
(* has detached for good; then the clock advances by one and all the held  *)
(* devices go on.  Mutexes, condition variables and the order in which the *)
(* timer thread visits the devices are left out; module Timer has them and *)
(* is shown to implement this specification.                               *)
(***************************************************************************)
EXTENDS Naturals

CONSTANTS
    Device,    \* the events attached to the timer: every CPU, and the loader
    TimeCap    \* the clock stops counting here; keeps the model finite

ASSUME BarrierAssumption == TimeCap \in Nat

VARIABLES
    time,      \* _time, the number of the current slot
    arrived,   \* devices waiting in next_slot() for the next slot
    left       \* devices that have called detach_event()

barrierVars == <<time, arrived, left>>

BarrierTypeOK ==
    /\ time \in 0..TimeCap
    /\ arrived \in SUBSET Device
    /\ left \in SUBSET Device

BarrierInit ==
    /\ time = 0
    /\ arrived = {}
    /\ left = {}

\* A device that takes part in the current slot and has not yet ended it.
Working(d) == d \in Device \ (arrived \cup left)

\* The part of next_slot() up to the wait: the device has done its slot.
Arrive(d) ==
    /\ Working(d)
    /\ arrived' = arrived \cup {d}
    /\ UNCHANGED <<time, left>>

\* detach_event(): the device takes no further part.
Leave(d) ==
    /\ Working(d)
    /\ left' = left \cup {d}
    /\ UNCHANGED <<time, arrived>>

\* One turn of the loop of timer_routine(): the slot ends for everybody.
Tick ==
    /\ Device \subseteq arrived \cup left
    /\ time' = IF time < TimeCap THEN time + 1 ELSE time
    /\ arrived' = {}
    /\ UNCHANGED left

BarrierNext ==
    \/ \E d \in Device : Arrive(d) \/ Leave(d)
    \/ Tick

BarrierSpec == BarrierInit /\ [][BarrierNext]_barrierVars

=============================================================================
