------------------------------- MODULE MCSched -------------------------------
(* Instances of Sched and SchedHistory for TLC. *)
EXTENDS SchedHistory, TLC

CONSTANTS p1, p2, p3, p4

\* Two processes share the most urgent level, one has the least urgent.
MCPrio == p1 :> 0 @@ p2 :> 0 @@ p3 :> MAX_PRIO - 1

\* Three share it: one more than a queue of two can hold.
CrowdPrio == p1 :> 0 @@ p2 :> 0 @@ p4 :> 0 @@ p3 :> MAX_PRIO - 1

\* They are alike.
Symmetry == Permutations({p1, p2, p4})

=============================================================================
