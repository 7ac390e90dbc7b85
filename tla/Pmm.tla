-------------------------------- MODULE Pmm --------------------------------
(***************************************************************************)
(* Lobo's physical memory: the page bitmap (mem/pmm.cpp), the kernel heap  *)
(* that shares the same memory (mem/heap.cpp) and the boot code that fills *)
(* the bitmap from the memory map (arch/x86_64/kernel_early.cpp).          *)
(*                                                                         *)
(* A byte address is physical; KERNEL_VMB, which the heap's addresses are  *)
(* offset by, is left out.  Boot runs alone and each of its loops is one   *)
(* step.  Afterwards any thread may call the allocator, and nothing guards *)
(* the bitmap: each test and each set is a step.  kmalloc runs between cli *)
(* and sti and is one step.  MaxBusy bounds the threads that are inside    *)
(* allocate at once: 1 means that calls do not overlap.                    *)
(***************************************************************************)
EXTENDS Integers, Sequences, FiniteSets, FiniteSetsExt

CONSTANTS Threads,      \* callers of the allocator
          MemoryMaps,   \* memory maps the kernel may be handed
          PageBytes,    \* 0x1000 in the code
          WrapPages,    \* pages whose address fits an unsigned int (2^20)
          LowPages,     \* pages below 4MB, 0x400 in the code
          HeapStart,    \* ptr_malloc_current, as AWD left it
          HeapLimit,    \* ptr_malloc_limit
          HeapSizes,    \* sizes kmalloc is asked for once the system runs
          MinAlign,     \* the alignment kmalloc asks for, 8 in the code
          Requests,     \* numbers of pages asked of allocate
          MaxBusy,      \* environment: threads inside allocate at once
          PageLimit,    \* bound: page numbers that can appear
          MaxShares     \* bound: times a page is out when allocate is called

ASSUME SizesAssumption ==
    /\ PageBytes \in Nat \ {0} /\ WrapPages \in Nat \ {0} /\ LowPages \in Nat
    /\ HeapStart \in Nat /\ HeapLimit \in Nat /\ HeapSizes \subseteq Nat
    /\ MinAlign \in Nat \ {0} /\ Requests \subseteq Nat
    /\ MaxBusy \in Nat \ {0} /\ PageLimit \in Nat /\ MaxShares \in Nat

ASSUME MapsAssumption ==
    MemoryMaps \subseteq Seq([start: Nat, size: Nat, free: BOOLEAN])

VARIABLES
    phase,      \* how far boot has come
    memmap,     \* the list awd_info->ptr_phys_mem_map points to
    numPages,   \* pmm::m_numPages
    used,       \* pmm::bitmap, the pages whose bit is set
    maxFree,    \* pmm::m_maxFreePages
    nonBacked,  \* pmm::m_nonMemoryBackedPages
    heapBase,   \* earlyAllocBase
    op,         \* the locals of each thread's call of allocate
    panicked,   \* why the kernel stopped
    grants,     \* history: how often each page is handed out and not freed
    heapPages   \* history: pages that a heap block lies on

bootVars == <<memmap, numPages, maxFree, nonBacked>>
vars == <<phase, memmap, numPages, used, maxFree, nonBacked, heapBase, op,
          panicked, grants, heapPages>>

-----------------------------------------------------------------------------
PageOf(addr) == addr \div PageBytes

NoCall == [pc |-> "out", n |-> 0, idx |-> 0, k |-> 0]

FreeRegions == {memmap[i] : i \in {j \in DOMAIN memmap : memmap[j].free}}

Panic(why) ==
    /\ panicked' = why
    /\ UNCHANGED <<phase, memmap, numPages, used, maxFree, nonBacked, heapBase,
                   op, grants, heapPages>>

\* kernel_early has set up the heap in memory that AWD allocated
Init ==
    /\ phase = "vmm"
    /\ memmap \in MemoryMaps
    /\ numPages = 0 /\ used = {} /\ maxFree = 0 /\ nonBacked = 0
    /\ heapBase = HeapStart
    /\ op = [t \in Threads |-> NoCall]
    /\ panicked = "no"
    /\ grants = [p \in 0 .. PageLimit |-> 0]
    /\ heapPages = {}

-----------------------------------------------------------------------------
(* kmalloc_aligned *)

\* Where the next block starts
AlignUp(a, align) == IF a % align = 0 THEN a ELSE a + (align - (a % align))

BlockPages(first, size) == {PageOf(first + i) : i \in 0 .. (size - 1)}

\* The block is taken from the heap, or the heap is exhausted.
HeapFits(size, align) == AlignUp(heapBase, align) + size <= HeapLimit

TakeBlock(size, align) ==
    LET block == AlignUp(heapBase, align)
    IN  /\ heapBase' = block + size
        /\ heapPages' = heapPages \union BlockPages(block, size)

-----------------------------------------------------------------------------
(* Boot: vmm::init, then init_memory *)

\* vmm::init allocates the kernel's page directory
VmmInit ==
    /\ panicked = "no" /\ phase = "vmm"
    /\ \/ /\ HeapFits(PageBytes, PageBytes)
          /\ TakeBlock(PageBytes, PageBytes)
          /\ phase' = "init"
          /\ UNCHANGED <<bootVars, used, op, panicked, grants>>
       \/ ~HeapFits(PageBytes, PageBytes) /\ Panic("heap")

\* mem_end_address, the end of the last free region
MemEnd == Max({r.start + r.size : r \in FreeRegions} \union {0})

\* phase 1, and pmm::init
PmmInit ==
    /\ panicked = "no" /\ phase = "init"
    /\ LET pages  == MemEnd \div PageBytes
           bitmap == (pages \div 8) + 1
       IN  \/ /\ HeapFits(bitmap, MinAlign)
              /\ TakeBlock(bitmap, MinAlign)
              /\ numPages' = pages
              /\ used' = 0 .. (pages - 1)
              /\ phase' = "free"
              /\ UNCHANGED <<memmap, maxFree, nonBacked, op, panicked, grants>>
           \/ ~HeapFits(bitmap, MinAlign) /\ Panic("heap")

\* the pages freed for a region: i = startAddress; i < endAddress; i += 0x1000
RegionPages(r) ==
    {PageOf(r.start + j * PageBytes) :
        j \in {i \in 0 .. r.size : i * PageBytes < r.size}}

\* Faulty variant: the region's type is not looked at.
FreeMemoryAnyType ==
    /\ panicked = "no" /\ phase = "free"
    /\ used' = used \ UNION {RegionPages(memmap[i]) : i \in DOMAIN memmap}
    /\ phase' = "reserve"
    /\ UNCHANGED <<bootVars, heapBase, op, panicked, grants, heapPages>>

\* phase 2; bitset::clear asserts that the page exists
FreeMemory ==
    /\ panicked = "no" /\ phase = "free"
    /\ LET freed == UNION {RegionPages(r) : r \in FreeRegions}
       IN  \/ /\ \A p \in freed : p < numPages
              /\ used' = used \ freed
              /\ phase' = "reserve"
              /\ UNCHANGED <<bootVars, heapBase, op, panicked, grants, heapPages>>
           \/ (\E p \in freed : p >= numPages) /\ Panic("assert")

\* Faulty variant: the bitset does not check that a page exists.
ReserveLowUnchecked ==
    /\ panicked = "no" /\ phase = "reserve"
    /\ used' = used \union (0 .. (LowPages - 1))
    /\ phase' = "count"
    /\ UNCHANGED <<bootVars, heapBase, op, panicked, grants, heapPages>>

\* "Forcibly mark the region below 4MB as used"
ReserveLow ==
    /\ panicked = "no" /\ phase = "reserve"
    /\ \/ /\ LowPages <= numPages
          /\ used' = used \union (0 .. (LowPages - 1))
          /\ phase' = "count"
          /\ UNCHANGED <<bootVars, heapBase, op, panicked, grants, heapPages>>
       \/ LowPages > numPages /\ Panic("assert")

\* pmm::set_free_memory, and heap_init_full
SetFreeMemory ==
    /\ panicked = "no" /\ phase = "count"
    /\ nonBacked' = nonBacked + Cardinality(used)
    /\ maxFree' = Cardinality((0 .. (numPages - 1)) \ used)
    /\ phase' = "run"
    /\ UNCHANGED <<memmap, numPages, used, heapBase, op, panicked, grants, heapPages>>

-----------------------------------------------------------------------------
(* The running system.  A thread inside allocate has a call in op. *)

Busy == {t \in Threads : op[t].pc # "out"}

Running == panicked = "no" /\ phase = "run"

\* A step of thread t's call that changes its locals only
Local(t, call) ==
    /\ op' = [op EXCEPT ![t] = call]
    /\ UNCHANGED <<phase, bootVars, used, heapBase, panicked, grants, heapPages>>

\* allocate(numContiguous) is called
Allocate(t, n) ==
    /\ Running /\ t \notin Busy /\ Cardinality(Busy) < MaxBusy
    /\ \A p \in DOMAIN grants : grants[p] <= MaxShares
    /\ Local(t, [NoCall EXCEPT !.pc = "scan", !.n = n])

\* the outer loop tests the page idx, or runs out of pages
Scan(t) ==
    /\ Running /\ op[t].pc = "scan"
    /\ LET c == op[t]
       IN  \/ /\ c.idx < numPages /\ c.idx \in used
              /\ Local(t, [c EXCEPT !.idx = @ + 1])
           \/ /\ c.idx < numPages /\ c.idx \notin used
              /\ Local(t, IF c.n <= 1 THEN [c EXCEPT !.pc = "set", !.k = c.idx]
                                      ELSE [c EXCEPT !.pc = "check", !.k = c.idx + 1])
           \/ c.idx >= numPages /\ Panic("oom")

\* Faulty variant: after a failed check the search skips a page too many.
CheckNextSkips(t) ==
    /\ Running /\ op[t].pc = "check"
    /\ LET c == op[t]
       IN  \/ /\ c.k \in used
              /\ Local(t, [c EXCEPT !.pc = "scan", !.idx = c.k + 2, !.k = 0])
           \/ /\ c.k < numPages /\ c.k \notin used
              /\ Local(t, IF c.k + 1 = c.idx + c.n THEN [c EXCEPT !.pc = "set", !.k = c.idx]
                                                   ELSE [c EXCEPT !.k = @ + 1])
           \/ c.k >= numPages /\ Panic("range")

\* the inner loop tests checkIndex * 0x1000, an unsigned int; bitset::test
\* asserts that the page exists
CheckNext(t) ==
    /\ Running /\ op[t].pc = "check"
    /\ LET c == op[t]
           p == c.k % WrapPages
       IN  \/ /\ p < numPages /\ p \in used
              /\ Local(t, [c EXCEPT !.pc = "scan", !.idx = @ + 1, !.k = 0])
           \/ /\ p < numPages /\ p \notin used
              /\ Local(t, IF c.k + 1 = c.idx + c.n THEN [c EXCEPT !.pc = "set", !.k = c.idx]
                                                   ELSE [c EXCEPT !.k = @ + 1])
           \/ p >= numPages /\ Panic("range")

\* allocate returns: the pages from idx on are the caller's
Granted(c) == c.idx .. (c.idx + Max({c.n, 1}) - 1)

\* Faulty variant: the last page of the run is not set.
SetPageShort(t) ==
    /\ Running /\ op[t].pc = "set"
    /\ LET c == op[t]
       IN  IF c.k + 2 \in Granted(c)
           THEN /\ used' = used \union {c.k}
                /\ op' = [op EXCEPT ![t].k = @ + 1]
                /\ UNCHANGED grants
           ELSE /\ used' = used \union {c.k}
                /\ op' = [op EXCEPT ![t] = NoCall]
                /\ grants' = [p \in DOMAIN grants |->
                                 IF p \in Granted(c) THEN grants[p] + 1 ELSE grants[p]]
    /\ UNCHANGED <<phase, bootVars, heapBase, panicked, heapPages>>

\* the bit of page k is set, k * 0x1000 again an unsigned int if there are several
SetPage(t) ==
    /\ Running /\ op[t].pc = "set"
    /\ LET c == op[t]
       IN  /\ used' = used \union {IF c.n <= 1 THEN c.k ELSE c.k % WrapPages}
           /\ \/ /\ c.k + 1 \in Granted(c)
                 /\ op' = [op EXCEPT ![t].k = @ + 1]
                 /\ UNCHANGED grants
              \/ /\ c.k + 1 \notin Granted(c)
                 /\ op' = [op EXCEPT ![t] = NoCall]
                 /\ grants' = [p \in DOMAIN grants |->
                                 IF p \in Granted(c) THEN grants[p] + 1 ELSE grants[p]]
    /\ UNCHANGED <<phase, bootVars, heapBase, panicked, heapPages>>

\* pmm::free, called by a holder of the page
Free(p) ==
    /\ Running /\ Cardinality(Busy) < MaxBusy
    /\ grants[p] > 0
    /\ \/ /\ p < numPages
          /\ used' = used \ {p}
          /\ grants' = [grants EXCEPT ![p] = @ - 1]
          /\ UNCHANGED <<phase, bootVars, heapBase, op, panicked, heapPages>>
       \/ p >= numPages /\ Panic("assert")

\* kmalloc_aligned once heap_init_full has run: when the heap enters another
\* page, that page is set in the bitmap; the pages in between are not.
Kmalloc(size, align) ==
    /\ Running /\ Cardinality(Busy) < MaxBusy
    /\ LET end   == AlignUp(heapBase, align) + size
           moved == PageOf(heapBase) # PageOf(end)
       IN  \/ /\ HeapFits(size, align)
              /\ moved => PageOf(end) < numPages
              /\ TakeBlock(size, align)
              /\ used' = IF moved THEN used \union {PageOf(end)} ELSE used
              /\ UNCHANGED <<phase, bootVars, op, panicked, grants>>
           \/ HeapFits(size, align) /\ moved /\ PageOf(end) >= numPages /\ Panic("assert")
           \/ ~HeapFits(size, align) /\ Panic("heap")

Boot == VmmInit \/ PmmInit \/ FreeMemory \/ ReserveLow \/ SetFreeMemory

Next ==
    \/ Boot
    \/ \E t \in Threads :
          \/ \E n \in Requests : Allocate(t, n)
          \/ Scan(t) \/ CheckNext(t) \/ SetPage(t)
    \/ \E p \in 0 .. PageLimit : Free(p)
    \/ \E size \in HeapSizes, align \in {MinAlign, PageBytes} : Kmalloc(size, align)

Spec == Init /\ [][Next]_vars

-----------------------------------------------------------------------------
(* Properties *)

\* The allocator's and the heap's fields hold values of their types, and every
\* set bit belongs to a page of the bitmap.
TypeOK ==
    /\ phase \in {"vmm", "init", "free", "reserve", "count", "run"}
    /\ memmap \in MemoryMaps
    /\ numPages \in Nat /\ used \subseteq 0 .. (numPages - 1)
    /\ maxFree \in Nat /\ nonBacked \in Nat /\ heapBase \in Nat
    /\ op \in [Threads -> [pc: {"out", "scan", "check", "set"},
                           n: Requests \union {0}, idx: Nat, k: Nat]]
    /\ panicked \in {"no", "heap", "assert", "oom", "range"}
    /\ grants \in [0 .. PageLimit -> Nat]
    /\ heapPages \subseteq Nat

\* No page is in two callers' hands, and a page in a caller's hands is set in
\* the bitmap, so that allocate will not return it again.
GrantsExclusive ==
    \A p \in 0 .. PageLimit : grants[p] > 0 => grants[p] = 1 /\ p \in used

\* allocate hands out only pages that the memory map says are free memory, every
\* byte of them, none of the first 4MB, and none on which a heap block lies.
OnlyFreeMemory ==
    \A p \in 0 .. PageLimit : grants[p] > 0 =>
        /\ p >= LowPages /\ p \notin heapPages
        /\ \A b \in (p * PageBytes) .. (p * PageBytes + PageBytes - 1) :
              \E r \in FreeRegions : r.start <= b /\ b < r.start + r.size

\* The page range from i on is free.
Fits(i, n) == \A p \in i .. (i + Max({n, 1}) - 1) : p < numPages /\ p \notin used

\* When allocate's search ends it has found a free range, and none starts lower;
\* it stops the kernel, by its panic or by the bitset's assertion at the end of
\* memory, only when no free range is long enough.
FirstFit ==
    /\ \A t \in Threads : op[t].pc = "set" /\ op[t].k = op[t].idx =>
          /\ Fits(op[t].idx, op[t].n)
          /\ \A i \in 0 .. (op[t].idx - 1) : ~Fits(i, op[t].n)
    /\ panicked \in {"oom", "range"} =>
          \E t \in Busy : \A i \in 0 .. (numPages - 1) : ~Fits(i, op[t].n)
=============================================================================
