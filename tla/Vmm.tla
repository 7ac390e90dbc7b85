-------------------------------- MODULE Vmm --------------------------------
(***************************************************************************)
(* Lobo's virtual memory manager: map, map_direct and unmap (mem/vmm.cpp), *)
(* the walk through the page tables and their creation                     *)
(* (arch/x86_64/vmm.cpp), and memmap, the object that maps a range when it *)
(* is made and unmaps it when it is destroyed (kernel/mem/memmap.h).       *)
(*                                                                         *)
(* An address is the number of a page and a length counts bytes: ranges    *)
(* begin with a page and may end inside one.  The addresses that a walk    *)
(* does not tell apart, those that differ in their upper 16 bits only, are *)
(* one address here.  Tables are numbered in the order the heap hands them *)
(* out.  Nothing guards the tables: each read and each store of an entry   *)
(* is a step.  pmm::allocate is one step, the promise that Pmm is checked  *)
(* for.  There is one directory, pdir_kernel, table 0, always the current  *)
(* one, and the boot tables are taken to map the heap.                     *)
(***************************************************************************)
EXTENDS Integers, FiniteSets, FiniteSetsExt

CONSTANTS Threads,      \* those that make and destroy memmaps
          Levels,       \* levels of page tables, 4 in the code
          Radix,        \* entries in a table, 512 in the code
          PageBytes,    \* PAGE_SIZE, 0x1000 in the code
          KernelBase,   \* the page KERNEL_VMB
          NumFrames,    \* pages of physical memory the bitmap knows
          ReservedFrames, \* those it has marked as used after boot
          MaxTables,    \* tables the heap has room for
          Requests,     \* calls of map and map_direct that are made
          MaxMaps       \* bound: memmaps in existence

ASSUME VmmAssumption ==
    /\ Levels \in Nat \ {0, 1} /\ Radix \in Nat \ {0, 1} /\ PageBytes \in Nat \ {0}
    /\ NumFrames \in Nat /\ ReservedFrames \subseteq 0 .. (NumFrames - 1)
    /\ MaxTables \in Nat \ {0} /\ MaxMaps \in Nat

VARIABLES tables,    \* the page tables, a function of their numbers
          used,      \* frames whose bit is set in the bitmap
          op,        \* the call each thread is in
          maps,      \* memmap objects that exist
          tlb,       \* pages whose translation the processor has cached
          panicked   \* "no", or why the kernel has stopped

vars == <<tables, used, op, maps, tlb, panicked>>

-----------------------------------------------------------------------------
\* The pages that a table of level k maps: Radix to the power of k.
Power[k \in 0 .. Levels] == IF k = 0 THEN 1 ELSE Radix * Power[k - 1]

SpacePages == Power[Levels]

Pages == 0 .. (SpacePages - 1)

Flags == {"PRESENT", "WRITE", "USER"}

\* The kernel, the memory and the tables lie in the space that an address can name.
ASSUME SpaceAssumption ==
    /\ KernelBase \in Pages /\ NumFrames <= SpacePages /\ MaxTables <= SpacePages
    /\ Requests \subseteq [fn: {"map", "map_direct"}, addr: Pages, p_addr: Pages, len: Nat,
                           perm: SUBSET Flags, unbacked: BOOLEAN, kernel: BOOLEAN,
                           phys: BOOLEAN]

Root == 0

\* An entry of a table: VMM_PAGE_CREATE_ENTRY and the value 0
Entry(at, flags) == [at |-> at, flags |-> flags]

Zero == Entry(0, {})

\* what a call does next: map_pages and unmap_pages test addr < addr_limit
Loop(c) ==
    IF c.addr * PageBytes < c.limit
    THEN [c EXCEPT !.pc = "walk", !.level = Levels, !.table = Root]
    ELSE [c EXCEPT !.pc = "flush"]

NoCall == [pc |-> "out", fn |-> "map", first |-> 0, phys |-> 0, len |-> 0, perm |-> {},
           backed |-> FALSE, addr |-> 0, p_addr |-> 0, limit |-> 0, level |-> 0,
           table |-> 0, new |-> 0]

\* addr >> 12, 21, 30 or 39, & 511
Index(addr, level) == (addr \div (Power[level - 1])) % Radix

\* MEM_PHYS_TO_VIRT and MEM_VIRT_TO_PHYS, 64 bits wide
PhysToVirt(p) == (p + KernelBase) % SpacePages
VirtToPhys(v) == (v - KernelBase) % SpacePages

Panic(why) ==
    /\ panicked' = why
    /\ UNCHANGED <<tables, used, op, maps, tlb>>

Init ==
    /\ tables = [n \in {Root} |-> [i \in 0 .. (Radix - 1) |-> Zero]]
    /\ used = ReservedFrames
    /\ op = [t \in Threads |-> NoCall]
    /\ maps = {} /\ tlb = {} /\ panicked = "no"

-----------------------------------------------------------------------------
(* map, up to its call of map_pages *)

Idle(t) == panicked = "no" /\ op[t].pc = "out"

\* map_pages or unmap_pages begins; addr + size wraps
Start(fn, first, phys, len, perm, backed) ==
    Loop([NoCall EXCEPT !.fn = fn, !.first = first, !.phys = phys, !.len = len,
                        !.perm = perm, !.backed = backed, !.addr = first, !.p_addr = phys,
                        !.limit = (first * PageBytes + len) % (SpacePages * PageBytes)])

\* Faulty variant: one page past the bitmap counts as memory.
FitsPastEnd(n) == {f \in 0 .. (NumFrames - 1) :
                      \A g \in f .. (f + Max({n, 1}) - 1) : g <= NumFrames /\ g \notin used}

\* frames from which allocate(n) could be served
Fits(n) == {f \in 0 .. (NumFrames - 1) :
               \A g \in f .. (f + Max({n, 1}) - 1) : g < NumFrames /\ g \notin used}

\* ram_backed, desired_addr == 0: frames from the bitmap, length / 0x1000 of them
MapAnywhere(t, r) ==
    LET n == r.len \div PageBytes
        f == Min(Fits(n))
    IN  \/ /\ Fits(n) # {} /\ r.kernel
           /\ used' = used \union (f .. (f + Max({n, 1}) - 1))
           /\ op' = [op EXCEPT ![t] = Start("map", PhysToVirt(f), f, r.len, r.perm, TRUE)]
           /\ UNCHANGED <<tables, maps, tlb, panicked>>
        \/ Fits(n) # {} /\ ~r.kernel /\ Panic("unimplemented")
        \/ Fits(n) = {} /\ Panic("oom")

\* ram_backed with an address: its frame in the kernel's linear mapping
MapAt(t, r) ==
    \/ /\ r.kernel /\ r.addr > KernelBase
       /\ op' = [op EXCEPT ![t] = Start("map", r.addr, VirtToPhys(r.addr), r.len, r.perm, TRUE)]
       /\ UNCHANGED <<tables, used, maps, tlb, panicked>>
    \/ r.kernel /\ r.addr <= KernelBase /\ Panic("assert")
    \/ ~r.kernel /\ Panic("unimplemented")

\* VMM_MAP_UNBACKED: the address is physical, and identity mapped outside the kernel
MapUnbacked(t, r) ==
    \/ /\ r.phys
       /\ op' = [op EXCEPT ![t] =
                   Start("map", IF r.kernel THEN PhysToVirt(r.addr) ELSE r.addr,
                         r.addr, r.len, r.perm, FALSE)]
       /\ UNCHANGED <<tables, used, maps, tlb, panicked>>
    \/ ~r.phys /\ Panic("unimplemented")

\* a memmap is made with a size, or with an address and a size
Map(t, r) ==
    /\ Idle(t) /\ Cardinality(maps) < MaxMaps /\ r.fn = "map"
    /\ \/ ~r.unbacked /\ r.addr = 0 /\ MapAnywhere(t, r)
       \/ ~r.unbacked /\ r.addr # 0 /\ MapAt(t, r)
       \/ r.unbacked /\ MapUnbacked(t, r)

\* a memmap is made with a physical and a virtual address
MapDirect(t, r) ==
    /\ Idle(t) /\ Cardinality(maps) < MaxMaps /\ r.fn = "map_direct"
    /\ op' = [op EXCEPT ![t] = Start("map", r.addr, r.p_addr, r.len, r.perm, FALSE)]
    /\ UNCHANGED <<tables, used, maps, tlb, panicked>>

\* Faulty variant: only the whole pages of the range are unmapped.
UnmapWholePages(t, m) ==
    /\ Idle(t)
    /\ maps' = maps \ {m}
    /\ op' = [op EXCEPT ![t] = Start("unmap", m.addr, 0, m.len - (m.len % PageBytes), {}, m.backed)]
    /\ UNCHANGED <<tables, used, tlb, panicked>>

\* a memmap is destroyed; its frames stay set in the bitmap
Unmap(t, m) ==
    /\ Idle(t)
    /\ maps' = maps \ {m}
    /\ op' = [op EXCEPT ![t] = Start("unmap", m.addr, 0, m.len, {}, m.backed)]
    /\ UNCHANGED <<tables, used, tlb, panicked>>

-----------------------------------------------------------------------------
(* find_page_entry, always with create, and the loops around it *)

\* the walk goes one table down
Down(c, n) == [c EXCEPT !.table = n, !.level = @ - 1,
                        !.pc = IF c.level = 2 THEN "entry" ELSE "walk"]

\* Faulty variant: the third level is read at the index of the second.
WalkWrongIndex(t) ==
    LET c == op[t]
        e == tables[c.table][Index(c.addr, IF c.level = 3 THEN 2 ELSE c.level)]
        n == Cardinality(DOMAIN tables)
    IN  /\ panicked = "no" /\ c.pc = "walk"
        /\ \/ /\ e # Zero
              /\ op' = [op EXCEPT ![t] = Down(c, e.at)]
              /\ UNCHANGED tables
           \/ /\ e = Zero /\ n < MaxTables
              /\ tables' = [m \in 0 .. n |-> IF m = n THEN [i \in 0 .. (Radix - 1) |-> Zero]
                                                      ELSE tables[m]]
              /\ op' = [op EXCEPT ![t].pc = "link", ![t].new = n]
        /\ UNCHANGED <<used, maps, tlb, panicked>>

\* find_page_table reads an entry: the table it names, or a new one that is zeroed
Walk(t) ==
    LET c == op[t]
        e == tables[c.table][Index(c.addr, c.level)]
        n == Cardinality(DOMAIN tables)
    IN  /\ panicked = "no" /\ c.pc = "walk"
        /\ \/ /\ e # Zero
              /\ op' = [op EXCEPT ![t] = Down(c, e.at)]
              /\ UNCHANGED <<tables, used, maps, tlb, panicked>>
           \/ /\ e = Zero /\ n < MaxTables
              /\ tables' = [m \in 0 .. n |-> IF m = n THEN [i \in 0 .. (Radix - 1) |-> Zero]
                                                      ELSE tables[m]]
              /\ op' = [op EXCEPT ![t].pc = "link", ![t].new = n]
              /\ UNCHANGED <<used, maps, tlb, panicked>>
           \/ e = Zero /\ n >= MaxTables /\ Panic("heap")

\* and stores its address
Link(t) ==
    LET c == op[t]
    IN  /\ panicked = "no" /\ c.pc = "link"
        /\ tables' = [tables EXCEPT ![c.table][Index(c.addr, c.level)] =
                                        Entry(c.new, {"PRESENT", "WRITE"})]
        /\ op' = [op EXCEPT ![t] = Down(c, c.new)]
        /\ UNCHANGED <<used, maps, tlb, panicked>>

\* Faulty variant: a page that is mapped is mapped again.
TestEntryUnchecked(t) ==
    /\ panicked = "no" /\ op[t].pc = "entry" /\ op[t].fn = "map"
    /\ op' = [op EXCEPT ![t].pc = "store"]
    /\ UNCHANGED <<tables, used, maps, tlb, panicked>>

\* map_pages tests whether the page is mapped already
TestEntry(t) ==
    LET c == op[t]
        e == tables[c.table][Index(c.addr, 1)]
    IN  /\ panicked = "no" /\ c.pc = "entry" /\ c.fn = "map"
        /\ \/ /\ "PRESENT" \notin e.flags
              /\ op' = [op EXCEPT ![t].pc = "store"]
              /\ UNCHANGED <<tables, used, maps, tlb, panicked>>
           \/ "PRESENT" \in e.flags /\ Panic("remap")

\* the entry is stored, and the loop goes on with the next page
Store(t, e) ==
    LET c == op[t]
    IN  /\ tables' = [tables EXCEPT ![c.table][Index(c.addr, 1)] = e]
        /\ op' = [op EXCEPT ![t] = Loop([c EXCEPT !.addr = (@ + 1) % SpacePages,
                                                  !.p_addr = (@ + 1) % SpacePages])]
        /\ UNCHANGED <<used, maps, tlb, panicked>>

MapPage(t) ==
    /\ panicked = "no" /\ op[t].pc = "store"
    /\ Store(t, Entry(op[t].p_addr, op[t].perm))

\* Faulty variant: the address is not advanced.
UnmapPageStuck(t) ==
    LET c == op[t]
    IN  /\ panicked = "no" /\ c.pc = "entry" /\ c.fn = "unmap"
        /\ tables' = [tables EXCEPT ![c.table][Index(c.addr, 1)] = Entry(0, {"WRITE"})]
        /\ op' = [op EXCEPT ![t] = Loop(c)]
        /\ UNCHANGED <<used, maps, tlb, panicked>>

\* unmap_pages
UnmapPage(t) ==
    /\ panicked = "no" /\ op[t].pc = "entry" /\ op[t].fn = "unmap"
    /\ Store(t, Entry(0, {"WRITE"}))

\* Faulty variant: unmap does not load cr3.
FlushAfterMapOnly(t) ==
    LET c == op[t]
    IN  /\ panicked = "no" /\ c.pc = "flush"
        /\ op' = [op EXCEPT ![t] = NoCall]
        /\ \/ /\ c.fn = "map" /\ tlb' = {}
              /\ maps' = maps \union {[addr |-> c.first, phys |-> c.phys, len |-> c.len,
                                       perm |-> c.perm, backed |-> c.backed]}
           \/ c.fn = "unmap" /\ UNCHANGED <<maps, tlb>>
        /\ UNCHANGED <<tables, used, panicked>>

\* swap_page_directory loads cr3, which empties the TLB; the call returns, and
\* the memmap's constructor with it
Flush(t) ==
    LET c == op[t]
    IN  /\ panicked = "no" /\ c.pc = "flush"
        /\ tlb' = {}
        /\ op' = [op EXCEPT ![t] = NoCall]
        /\ \/ /\ c.fn = "map"
              /\ maps' = maps \union {[addr |-> c.first, phys |-> c.phys, len |-> c.len,
                                       perm |-> c.perm, backed |-> c.backed]}
           \/ c.fn = "unmap" /\ UNCHANGED maps
        /\ UNCHANGED <<tables, used, panicked>>

-----------------------------------------------------------------------------
(* The processor *)

\* The table in which the walk for page v ends, if it gets there.
LastTable(v) ==
    LET at[l \in 1 .. Levels] ==
            IF l = Levels THEN {Root}
            ELSE {tables[n][Index(v, l + 1)].at :
                    n \in {m \in at[l + 1] : "PRESENT" \in tables[m][Index(v, l + 1)].flags}}
    IN  at[1]

\* The entry through which page v is translated, Zero if there is none.
Translation(v) ==
    LET e == {tables[n][Index(v, 1)] : n \in LastTable(v)}
        p == {x \in e : "PRESENT" \in x.flags}
    IN  IF p = {} THEN Zero ELSE CHOOSE x \in p : TRUE

\* an access to page v: the processor caches the translation it finds
Access(v) ==
    /\ panicked = "no"
    /\ Translation(v) # Zero /\ \A c \in tlb : c.page # v
    /\ tlb' = tlb \union {[page |-> v, entry |-> Translation(v)]}
    /\ UNCHANGED <<tables, used, op, maps, panicked>>

Step(t) ==
    Walk(t) \/ Link(t) \/ TestEntry(t) \/ MapPage(t) \/ UnmapPage(t) \/ Flush(t)

Next ==
    \/ \E t \in Threads :
          \/ \E r \in Requests : Map(t, r) \/ MapDirect(t, r)
          \/ \E m \in maps : Unmap(t, m)
          \/ Step(t)
    \/ \E v \in Pages : Access(v)

Spec == Init /\ [][Next]_vars

\* Threads execute; they need not make or destroy anything.
FairSpec == Spec /\ \A t \in Threads : WF_vars(Step(t))

-----------------------------------------------------------------------------
(* Properties *)

\* The tables, the bitmap and the calls hold values of their types, and the tables a
\* call refers to exist.
TypeOK ==
    /\ DOMAIN tables = 0 .. (Cardinality(DOMAIN tables) - 1)
    /\ \A n \in DOMAIN tables : \A i \in 0 .. (Radix - 1) :
          /\ tables[n][i].at \in Pages
          /\ tables[n][i].flags \subseteq Flags
    /\ used \subseteq 0 .. (NumFrames - 1)
    /\ \A t \in Threads :
          /\ op[t].pc \in {"out", "walk", "link", "entry", "store", "flush"}
          /\ op[t].addr \in Pages /\ op[t].p_addr \in Pages
          /\ op[t].level \in 0 .. Levels
          /\ {op[t].table, op[t].new} \subseteq DOMAIN tables
    /\ panicked \in {"no", "unimplemented", "oom", "assert", "remap", "heap"}

Quiet == \A t \in Threads : op[t].pc = "out"

\* The pages on which some byte of the range lies
PagesOf(addr, len) == {addr + i : i \in {j \in 0 .. len : j * PageBytes < len}}

\* Every page of a memmap is translated to the frame and with the permissions
\* that were asked for, from the moment map returns until it is destroyed, whatever
\* other memmaps come and go and whichever tables they share; and when no call is
\* in progress nothing else is: unmap removed all of a range and nothing but it.
MappingsHold ==
    /\ \A m \in maps : \A v \in PagesOf(m.addr, m.len) :
          v \in Pages /\ Translation(v) = Entry(m.phys + (v - m.addr), m.perm)
    /\ panicked = "no" /\ Quiet =>
          \A v \in Pages : Translation(v) # Zero => \E m \in maps : v \in PagesOf(m.addr, m.len)

\* A cached translation that no longer stands in the tables does not outlive the
\* call that changed them.
NoStaleTranslation ==
    panicked = "no" /\ Quiet => \A c \in tlb : Translation(c.page) = c.entry

\* The tables form a tree: each but the root is named by one entry, and none is lost,
\* except one that a call has just been given and is about to enter.
TablesFormTree ==
    LET last  == UNION {LastTable(v) : v \in Pages}
        names == {x \in (DOMAIN tables \ last) \X (0 .. (Radix - 1)) :
                      tables[x[1]][x[2]] # Zero}
        fresh == {op[t].new : t \in {u \in Threads : op[u].pc = "link"}}
    IN  \A n \in DOMAIN tables \ ({Root} \union fresh) :
            Cardinality({x \in names : tables[x[1]][x[2]].at = n}) = 1

\* memmap's "physically backed memory": the frames of such a map are set in the
\* bitmap, so that allocate gives them to nobody else.
BackedFramesReserved ==
    \A m \in maps : m.backed =>
        \A v \in PagesOf(m.addr, m.len) : m.phys + (v - m.addr) \in used

\* Each call of map, map_direct and unmap returns or stops the kernel.
CallsReturn ==
    \A t \in Threads : op[t].pc # "out" ~> (op[t].pc = "out" \/ panicked # "no")

\* The four levels of tables implement a flat address space.
Flat == INSTANCE AddressSpace
            WITH Translations <- [at: Pages, flags: SUBSET Flags],
                 None <- Zero,
                 space <- [v \in Pages |-> Translation(v)]
ImplementsAddressSpace == Flat!Spec
=============================================================================
