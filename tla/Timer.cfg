\* Three devices (two CPUs and the loader), four slots.
CONSTANTS
    N = 3
    MaxSlots = 3
SPECIFICATION FairSpec
INVARIANTS
    TypeOK
    Lockstep
    NoLostWakeup
    DoneHandoff
    TimerExit
PROPERTIES
    TimeStable
    TimerImplementsBarrier
    SlotReturns
    Termination
