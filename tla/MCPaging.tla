------------------------------- MODULE MCPaging -------------------------------
(* Instance of Paging for TLC. *)
EXTENDS Paging, TLC

\* The processes are alike.
Symmetry == Permutations(Proc)

=============================================================================
