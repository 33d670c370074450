------------------------------- MODULE MCMemory -------------------------------
(* Instance of Memory for TLC. *)
EXTENDS Memory, FiniteSets, TLC

CONSTANTS
    Small,      \* processes of one byte
    MaxWritten  \* bound on the bytes that hold data

\* The indices are alike.
Symmetry == Permutations(Rgid)

Bounded ==
    /\ UntilAstray
    /\ \A p \in Small : sbrk[p] <= 1
    /\ \A p \in Proc : lost[p] = {}
    /\ Cardinality({e \in Proc \X Page \X Offset : written[e[1]][e[2]][e[3]] # None}) <= MaxWritten

=============================================================================
