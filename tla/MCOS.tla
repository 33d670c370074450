--------------------------------- MODULE MCOS ---------------------------------
(* Instances of OS for TLC. *)
EXTENDS OS, TLC

CONSTANTS p1, p2, p3, p4

\* p1, p2 and p4 are urgent, p3 has the last level.  p3 comes late, so the loader waits
\* for it, and needs two quanta of two where its level has one slot, so the slots are
\* refilled.  p2 ends inside its second quantum, p4 inside its first.
MCPrio == p1 :> 0 @@ p2 :> 0 @@ p4 :> 0 @@ p3 :> MAX_PRIO - 1
MCStart == p1 :> 0 @@ p2 :> 0 @@ p4 :> 0 @@ p3 :> 3
MCSize == p1 :> 3 @@ p2 :> 3 @@ p4 :> 1 @@ p3 :> 3
MCOrder == <<p1, p2, p4, p3>>

\* A single process at the urgent level, with more work than the level has slots.
OnePrio == p1 :> 0
OneStart == p1 :> 0
OneSize == p1 :> MAX_PRIO + 1
OneOrder == <<p1>>

=============================================================================
