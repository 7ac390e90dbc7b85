------------------------------- MODULE MCPmm -------------------------------
(* Instances of Pmm for TLC.  A page has two bytes. *)
EXTENDS Pmm, TLC

CONSTANTS t1, t2

Ram(first, size) == [start |-> first, size |-> size, free |-> TRUE]
Hole(first, size) == [start |-> first, size |-> size, free |-> FALSE]

\* Regions that begin and end with a page: contiguous, with a hole, unordered,
\* no more than the low memory, less than that, and none.
AlignedMaps ==
    {<<Ram(0, 18)>>,
     <<Ram(0, 4), Hole(4, 4), Ram(8, 6), Hole(14, 2), Ram(16, 4)>>,
     <<Ram(14, 4), Hole(12, 2), Ram(8, 4)>>,
     <<Ram(0, 8)>>,
     <<Ram(0, 4)>>,
     <<>>}

\* Memory that reaches beyond the last page an unsigned int can address.
LargeMaps == {<<Ram(0, 24)>>}

TwoThreads == {t1, t2}
=============================================================================
