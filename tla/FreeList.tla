------------------------------- MODULE FreeList -------------------------------
(***************************************************************************)
(* The list of free regions of a virtual memory area (src/mm-vm.c), as     *)
(* operators from a list to a list.  Modules Region and Memory own the     *)
(* variable.                                                               *)
(*                                                                         *)
(* The list ends with the dummy region [0, 0] that init_mm() makes.        *)
(* Nothing merges with it or fits into it, so it stays last, and it is     *)
(* left out here.  Removing a node, which the code does by copying the     *)
(* node behind it over it, is then always the removal of one element.      *)
(***************************************************************************)
EXTENDS Integers, Sequences

\* The bytes of a region.
Bytes(rg) == rg.rg_start .. (rg.rg_end - 1)

\* A symbol without a region.
NoRegion == [rg_start |-> 0, rg_end |-> 0]

\* delete_vm_rg_node(): the list without node i.
Delete(list, i) == SubSeq(list, 1, i - 1) \o SubSeq(list, i + 1, Len(list))

\* The nodes that a freed region rg can be merged with.
MergeUp(list, rg) == {i \in 1..Len(list) : list[i].rg_start = rg.rg_end}
MergeDown(list, rg) == {i \in 1..Len(list) : list[i].rg_end = rg.rg_start}

\* The loop leaves the last match in node_need_dec_base and node_need_inc_limit.
Last(S) == CHOOSE i \in S : \A j \in S : j <= i

\* Merging with both neighbours deletes two nodes.  The first deletion frees
\* the node behind node_need_dec_base; if that is node_need_inc_limit, the
\* second one reads the freed node and frees the node behind it, which stays
\* linked.
Dangles(list, rg) ==
    /\ rg.rg_start < rg.rg_end
    /\ MergeUp(list, rg) # {} /\ MergeDown(list, rg) # {}
    /\ Last(MergeDown(list, rg)) = Last(MergeUp(list, rg)) + 1

\* The node of both neighbours replaces them at the head of the list.
MergeBoth(list, dec, inc) ==
    <<[rg_start |-> list[inc].rg_start, rg_end |-> list[dec].rg_end]>>
    \o Delete(Delete(list, dec), IF inc < dec THEN inc ELSE inc - 1)

\* Mutant: a freed region is never merged.
EnlistedApart(list, rg) == IF rg.rg_start < rg.rg_end THEN <<rg>> \o list ELSE list

\* enlist_vm_freerg_list(), where the list does not dangle; an empty region is
\* ignored.
Enlisted(list, rg) ==
    LET up == MergeUp(list, rg)
        down == MergeDown(list, rg)
    IN
    CASE rg.rg_start >= rg.rg_end -> list
      [] rg.rg_start < rg.rg_end /\ up # {} /\ down = {} ->
            [list EXCEPT ![Last(up)].rg_start = rg.rg_start]
      [] rg.rg_start < rg.rg_end /\ up = {} /\ down # {} ->
            [list EXCEPT ![Last(down)].rg_end = rg.rg_end]
      [] rg.rg_start < rg.rg_end /\ up # {} /\ down # {} ->
            MergeBoth(list, Last(up), Last(down))
      [] rg.rg_start < rg.rg_end /\ up = {} /\ down = {} -> <<rg>> \o list

\* The free regions with room for size bytes; get_free_vmrg_area() takes the first.
Fits(list, size) == {i \in 1..Len(list) : list[i].rg_start + size <= list[i].rg_end}

First(S) == CHOOSE i \in S : \A j \in S : i <= j

\* Mutant: the free region keeps the bytes that it gives away.
TakenKeeps(list, i, size) == list

\* The front of free region i is given away, the rest stays.
Taken(list, i, size) ==
    IF list[i].rg_start + size < list[i].rg_end
      THEN [list EXCEPT ![i].rg_start = @ + size]
      ELSE Delete(list, i)

=============================================================================
