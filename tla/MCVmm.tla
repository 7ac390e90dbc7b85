------------------------------- MODULE MCVmm -------------------------------
(* Instances of Vmm for TLC: tables of two entries, pages of two bytes. *)
EXTENDS Vmm, TLC

CONSTANTS t1, t2

RW == {"PRESENT", "WRITE"}

Backed(addr, len, kernel) ==
    [fn |-> "map", addr |-> addr, p_addr |-> 0, len |-> len, perm |-> RW,
     unbacked |-> FALSE, kernel |-> kernel, phys |-> FALSE]

Unbacked(addr, len, kernel, phys) ==
    [fn |-> "map", addr |-> addr, p_addr |-> 0, len |-> len, perm |-> {"PRESENT"},
     unbacked |-> TRUE, kernel |-> kernel, phys |-> phys]

Direct(p, v, len) ==
    [fn |-> "map_direct", addr |-> v, p_addr |-> p, len |-> len, perm |-> RW,
     unbacked |-> FALSE, kernel |-> FALSE, phys |-> FALSE]

\* Every branch of map, ranges that share tables and ranges that cross into the
\* next table, aligned and unaligned lengths.  None ends with the address space.
AllRequests ==
    {Backed(0, 2, TRUE), Backed(0, 3, TRUE), Backed(0, 4, TRUE), Backed(11, 2, TRUE),
     Backed(8, 2, TRUE), Backed(0, 2, FALSE), Backed(11, 2, FALSE),
     Unbacked(1, 4, FALSE, TRUE), Unbacked(4, 1, TRUE, TRUE), Unbacked(2, 2, TRUE, FALSE),
     Direct(1, 7, 4)}

UnevenRequests == {Backed(0, 2, TRUE), Backed(0, 3, TRUE)}

OneThread == {t1}
TwoThreads == {t1, t2}
=============================================================================
