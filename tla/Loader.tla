------------------------------- MODULE Loader -------------------------------
(***************************************************************************)
(* AWD, the boot loader: awd_main from GRUB's hand-over to the jump into   *)
(* Lobo.  It finds the kernel among the multiboot modules, places its own  *)
(* heap behind it, builds the kernel's memory image there from the ELF     *)
(* program headers, and maps the image, itself, the heap and the first     *)
(* WindowPages of memory with four levels of tables.                       *)
(*                                                                         *)
(* The unit of memory is the 64-bit word, an entry of a page table; a page *)
(* has Radix words (512 in the code) and so has a table.  An address is a  *)
(* number of words; ram is all of physical memory, tables, image and       *)
(* modules included, so that whoever writes where it should not is seen.   *)
(***************************************************************************)
EXTENDS Integers, Sequences, FiniteSets

CONSTANTS Radix,        \* words of a page, entries of a table
          MemPages,     \* physical memory
          LowPages,     \* low memory, 1MB in the code
          AwdPages,     \* AWD's image behind it, whose last page is paging_pml4
          HeapPages,    \* AWD_ALLOC_SIZE in pages, 64 in the code
          WindowPages,  \* pages mapped at KERNEL_VMB, 2MB in the code
          VMB,          \* KERNEL_VMB's page
          QueueMax,     \* PAGING_QUEUE_MAX
          Boots,        \* what the machine and GRUB may hand over
          DirtyPages    \* pages that hold something when AWD starts

Levels == 4

\* The pages that an entry of a table of level k maps: Radix to the power of k.
Power[k \in 0 .. Levels] == IF k = 0 THEN 1 ELSE Radix * Power[k - 1]

Zero == <<"zero">>
Dirty == <<"dirty">>
Entry(p) == <<"entry", p>>
File(m, i) == <<"file", m, i>>
Awd == <<"awd">>

Pml4 == LowPages + AwdPages - 1
PageOf(a) == a \div Radix
PAGE_ROUND_UP(a) == ((a + Radix - 1) \div Radix) * Radix

ASSUME SizesAssumption ==
    /\ Radix \in Nat \ {0, 1} /\ LowPages \in Nat \ {0} /\ AwdPages \in Nat \ {0}
    /\ MemPages \in Nat /\ HeapPages \in Nat /\ WindowPages \in Nat /\ QueueMax \in Nat
    /\ LowPages + AwdPages <= MemPages /\ WindowPages <= MemPages
    /\ VMB \in 0 .. (Power[Levels] - 1) /\ DirtyPages \subseteq 0 .. (MemPages - 1)

\* A program header
Header == [load: BOOLEAN, offset: Nat, vaddr: Nat, filesz: Nat, memsz: Nat]

\* A module GRUB loaded, the kernel or another one
Module == [kernel: BOOLEAN, elf: BOOLEAN, mod_start: Nat, mod_end: Nat, headers: Seq(Header)]

\* What awd_main is started with.
ASSUME BootsAssumption ==
    /\ Boots \subseteq [magic: BOOLEAN, longmode: BOOLEAN, mods: Seq(Module)]
    /\ \A b \in Boots : \A m \in 1 .. Len(b.mods) :
          /\ (LowPages + AwdPages) * Radix <= b.mods[m].mod_start
          /\ b.mods[m].mod_start < b.mods[m].mod_end
          /\ \A h \in 1 .. Len(b.mods[m].headers) :
                b.mods[m].headers[h].filesz <= b.mods[m].headers[h].memsz

VARIABLES
    mb,            \* what GRUB handed over; never changes
    pc,            \* where awd_main is
    ram,           \* physical memory
    kernel,        \* index of the kernel's module
    i,             \* the loop over program headers
    virt_start,    \* info.virt.start; None until a LOAD header is met
    size,          \* info.phys.size and info.virt.size
    image,         \* memory_image.start
    heap,          \* heap_phys_base, heap_phys_current, heap_phys_limit
    blocks,        \* history: what malloc_aligned returned
    paging_queue,  \* paging_queue[0 .. paging_queue_num - 1]
    region, j,     \* paging_commit's loops
    level, table,  \* where paging_map_page is in its walk
    awd_info       \* the heap as handed to Lobo

vars == <<mb, pc, ram, kernel, i, virt_start, size, image, heap, blocks,
          paging_queue, region, j, level, table, awd_info>>

None == -1
Ended == {"entered", "panicked", "wild"}
Modules == 1 .. Len(mb.mods)
Headers == mb.mods[kernel].headers

\* The memory GRUB leaves: AWD's image, the modules, and whatever was there.
Init ==
    /\ mb \in Boots
    /\ ram = [a \in 0 .. (MemPages * Radix - 1) |->
          LET holds == {m \in Modules : mb.mods[m].mod_start <= a /\ a < mb.mods[m].mod_end}
          IN  IF holds # {} THEN LET m == CHOOSE m \in holds : TRUE
                                 IN  File(m, a - mb.mods[m].mod_start)
              ELSE IF PageOf(a) \in LowPages .. (Pml4 - 1) THEN Awd
              ELSE IF PageOf(a) \in DirtyPages THEN Dirty ELSE Zero]
    /\ pc = "verify"
    /\ kernel = None /\ i = 1 /\ virt_start = None /\ size = 0 /\ image = None
    /\ heap = [base |-> 0, current |-> 0, limit |-> 0]
    /\ blocks = <<>> /\ paging_queue = <<>>
    /\ region = 1 /\ j = 0 /\ level = Levels - 1 /\ table = Pml4
    /\ awd_info = [ptr_malloc_current |-> None, ptr_malloc_limit |-> None]

-----------------------------------------------------------------------------
walkVars == <<region, j, level, table>>
elfVars == <<kernel, i, virt_start, size, image>>

\* panic and awd_halt: print and stop
Halt == pc' = "panicked"

\* multiboot_verify, awd_cpu_requirements; memory_init's two regions are the
\* constants LowPages and AwdPages
Verify ==
    /\ pc = "verify"
    /\ \/ mb.magic /\ mb.longmode /\ pc' = "multiboot"
       \/ ~(mb.magic /\ mb.longmode) /\ Halt
    /\ UNCHANGED <<mb, ram, elfVars, heap, blocks, paging_queue, walkVars, awd_info>>

\* multiboot_analyse: the first module tagged "kernel".  With modules but no
\* kernel among them multiboot_find_kernel returns 0, which is dereferenced.
multiboot_analyse ==
    /\ pc = "multiboot"
    /\ LET tagged == {m \in Modules : mb.mods[m].kernel}
       IN  \/ /\ tagged # {}
              /\ kernel' = CHOOSE m \in tagged : \A n \in tagged : m <= n
              /\ pc' = "analyse"
           \/ /\ tagged = {}
              /\ IF Modules = {} THEN Halt ELSE pc' = "wild"
              /\ UNCHANGED kernel
    /\ UNCHANGED <<mb, ram, i, virt_start, size, image, heap, blocks, paging_queue,
                   walkVars, awd_info>>

\* kernel_analyse, one program header a step: the lowest address and the sum
\* of the sizes, rounded to a page at each
kernel_analyse ==
    /\ pc = "analyse"
    /\ \/ /\ ~mb.mods[kernel].elf
          /\ Halt
          /\ UNCHANGED <<i, virt_start, size>>
       \/ /\ mb.mods[kernel].elf /\ i <= Len(Headers)
          /\ i' = i + 1
          /\ LET h == Headers[i]
             IN  IF h.load
                 THEN /\ virt_start' = IF virt_start = None \/ h.vaddr < virt_start
                                       THEN h.vaddr ELSE virt_start
                      /\ size' = PAGE_ROUND_UP(size + h.memsz)
                 ELSE UNCHANGED <<virt_start, size>>
          /\ UNCHANGED pc
       \/ /\ mb.mods[kernel].elf /\ i > Len(Headers)
          /\ i' = 1 /\ pc' = "heap"
          /\ UNCHANGED <<virt_start, size>>
    /\ UNCHANGED <<mb, ram, kernel, image, heap, blocks, paging_queue, walkVars, awd_info>>

\* Faulty variant: the heap begins in the module's last page.
memory_heap_init_short ==
    /\ pc = "heap"
    /\ LET base == PageOf(mb.mods[kernel].mod_end - 1) * Radix
       IN  heap' = [base |-> base, current |-> base, limit |-> base + HeapPages * Radix]
    /\ pc' = "image"
    /\ UNCHANGED <<mb, ram, elfVars, blocks, paging_queue, walkVars, awd_info>>

\* memory_heap_init(PAGE_ROUND_UP(region_multiboot_files.end)) and alloc_init
memory_heap_init ==
    /\ pc = "heap"
    /\ LET files_end == PAGE_ROUND_UP(mb.mods[kernel].mod_end) - 1
           base == PAGE_ROUND_UP(files_end)
       IN  heap' = [base |-> base, current |-> base, limit |-> base + HeapPages * Radix]
    /\ pc' = "image"
    /\ UNCHANGED <<mb, ram, elfVars, blocks, paging_queue, walkVars, awd_info>>

\* Faulty variant: the last page of the heap is never given out.
AllocationFitsShort(n) == PAGE_ROUND_UP(heap.current) + n + Radix < heap.limit

\* malloc_aligned(n, 0x1000) does not hit its limit: a block that would end
\* with the heap is refused
AllocationFits(n) == PAGE_ROUND_UP(heap.current) + n < heap.limit

\* what malloc_aligned(n, 0x1000) does when the block fits
malloc_aligned(n) ==
    /\ heap' = [heap EXCEPT !.current = PAGE_ROUND_UP(@) + n]
    /\ blocks' = Append(blocks, [start |-> PAGE_ROUND_UP(heap.current), words |-> n])

\* kernel_load takes the memory image from the heap
AllocateImage ==
    /\ pc = "image"
    /\ \/ /\ AllocationFits(size)
          /\ malloc_aligned(size)
          /\ image' = PAGE_ROUND_UP(heap.current)
          /\ pc' = "load"
       \/ /\ ~AllocationFits(size)
          /\ Halt
          /\ UNCHANGED <<heap, blocks, image>>
    /\ UNCHANGED <<mb, ram, kernel, i, virt_start, size, paging_queue, walkVars, awd_info>>

\* Faulty variant: a section is placed by its offset in the file.
DestinationByOffset(h) == image + h.offset - Headers[1].offset

\* dest_address
Destination(h) == image + (h.vaddr - virt_start)

\* kernel_load, one program header a step
kernel_load ==
    /\ pc = "load"
    /\ \/ /\ i <= Len(Headers)
          /\ LET h == Headers[i]
                 d == Destination(h)
             IN  IF h.load
                 THEN ram' = [a \in DOMAIN ram |->
                         IF d <= a /\ a < d + h.filesz
                         THEN ram[mb.mods[kernel].mod_start + h.offset + (a - d)] ELSE ram[a]]
                 ELSE UNCHANGED ram
          /\ i' = i + 1 /\ UNCHANGED pc
       \/ /\ i > Len(Headers)
          /\ i' = 1 /\ pc' = "queue"
          /\ UNCHANGED ram
    /\ UNCHANGED <<mb, kernel, virt_start, size, image, heap, blocks, paging_queue,
                   walkVars, awd_info>>

\* paging_queue_mapping's region, from physical p, at virtual v
Mapping(p, v, words) == [phys |-> p, virt |-> v, words |-> words]

\* Faulty variant: the heap's pages are queued one by one.
QueuedByPage ==
    [n \in 1 .. HeapPages |->
        Mapping(heap.base + (n - 1) * Radix, heap.base + (n - 1) * Radix, Radix)]

\* the five regions of paging_init; a region that mem records ends with its
\* last word, the other two behind it
Queued ==
    << Mapping(0, 0, LowPages * Radix - 1),
       Mapping(LowPages * Radix, LowPages * Radix, AwdPages * Radix - 1),
       Mapping(heap.base, heap.base, HeapPages * Radix - 1),
       Mapping(0, VMB * Radix, WindowPages * Radix),
       Mapping(image, virt_start, size) >>

\* paging_init, and the loop with which paging_commit clears paging_pml4
paging_init ==
    /\ pc = "queue"
    /\ paging_queue' = Queued
    /\ ram' = [a \in DOMAIN ram |-> IF PageOf(a) = Pml4 THEN Zero ELSE ram[a]]
    /\ pc' = "commit"
    /\ UNCHANGED <<mb, elfVars, heap, blocks, walkVars, awd_info>>

-----------------------------------------------------------------------------
Index(v, l) == (v \div Power[l]) % Radix
VirtPage == PageOf(paging_queue[region].virt + j)

\* the slot of the table paging_map_page is at
Slot == table * Radix + Index(VirtPage, level)

\* Faulty variant: a page more than the region's size.
InRegionInclusive == region <= Len(paging_queue) /\ j <= paging_queue[region].words

\* paging_commit's inner loop goes on
InRegion == region <= Len(paging_queue) /\ j < paging_queue[region].words

\* Create: the entry is 0, so a table is taken from the heap, as it is
CreateTable ==
    /\ pc = "commit" /\ InRegion /\ level > 0 /\ ram[Slot] = Zero
    /\ \/ /\ AllocationFits(Radix)
          /\ malloc_aligned(Radix)
          /\ ram' = [ram EXCEPT ![Slot] = Entry(PageOf(PAGE_ROUND_UP(heap.current)))]
          /\ table' = PageOf(PAGE_ROUND_UP(heap.current))
          /\ level' = level - 1
          /\ UNCHANGED pc
       \/ /\ ~AllocationFits(Radix)
          /\ Halt
          /\ UNCHANGED <<ram, heap, blocks, table, level>>
    /\ UNCHANGED <<mb, elfVars, paging_queue, region, j, awd_info>>

\* Load: any other value is taken for the address of a table
LoadTable ==
    /\ pc = "commit" /\ InRegion /\ level > 0 /\ ram[Slot] # Zero
    /\ \/ /\ ram[Slot][1] = "entry"
          /\ table' = ram[Slot][2] /\ level' = level - 1
          /\ UNCHANGED pc
       \/ /\ ram[Slot][1] # "entry"
          /\ pc' = "wild"
          /\ UNCHANGED <<table, level>>
    /\ UNCHANGED <<mb, ram, elfVars, heap, blocks, paging_queue, region, j, awd_info>>

\* pg_p1[index_p1] = entry, whatever was there; the next page
StorePage ==
    /\ pc = "commit" /\ InRegion /\ level = 0
    /\ ram' = [ram EXCEPT ![Slot] = Entry(PageOf(paging_queue[region].phys + j))]
    /\ j' = j + Radix
    /\ level' = Levels - 1 /\ table' = Pml4
    /\ UNCHANGED <<mb, pc, elfVars, heap, blocks, paging_queue, region, awd_info>>

\* the next region of the queue
NextRegion ==
    /\ pc = "commit" /\ region <= Len(paging_queue) /\ ~InRegion
    /\ region' = region + 1 /\ j' = 0
    /\ UNCHANGED <<mb, pc, ram, elfVars, heap, blocks, paging_queue, level, table, awd_info>>

\* Faulty variant: Lobo is given the whole heap.
HandoverFromBase == [ptr_malloc_current |-> heap.base, ptr_malloc_limit |-> heap.limit]

\* what awd_info says of the heap
Handover == [ptr_malloc_current |-> heap.current, ptr_malloc_limit |-> heap.limit]

\* paging_enable, and awd_main's last lines
kernel_enter ==
    /\ pc = "commit" /\ region > Len(paging_queue)
    /\ awd_info' = Handover
    /\ pc' = "entered"
    /\ UNCHANGED <<mb, ram, elfVars, heap, blocks, paging_queue, walkVars>>

paging_commit == CreateTable \/ LoadTable \/ StorePage \/ NextRegion

Next ==
    \/ Verify \/ multiboot_analyse \/ kernel_analyse \/ memory_heap_init
    \/ AllocateImage \/ kernel_load \/ paging_init \/ paging_commit \/ kernel_enter

Spec == Init /\ [][Next]_vars

\* The processor goes on executing.
FairSpec == Spec /\ WF_vars(Next)

-----------------------------------------------------------------------------
(* Properties *)

\* Where the entry for page v of the table in page p, of level l, leads.
Follow(p, v, l) ==
    IF p = None \/ ram[p * Radix + Index(v, l)][1] # "entry" THEN None
    ELSE ram[p * Radix + Index(v, l)][2]

\* The physical page to which the tables in ram translate page v.
Translation(v) ==
    LET t[l \in 0 .. Levels] == IF l = Levels THEN Pml4 ELSE Follow(t[l + 1], v, l)
    IN  t[0]

\* The word a program sees at virtual address a.
Seen(a) ==
    IF Translation(PageOf(a)) = None THEN <<"fault">>
    ELSE ram[Translation(PageOf(a)) * Radix + (a % Radix)]

Loads == {h \in 1 .. Len(Headers) : Headers[h].load}

\* The loader's variables hold values of their types; in particular
\* paging_queue_mapping, which does not check, never passes PAGING_QUEUE_MAX.
TypeOK ==
    /\ mb \in Boots
    /\ pc \in {"verify", "multiboot", "analyse", "heap", "image", "load", "queue",
               "commit"} \union Ended
    /\ DOMAIN ram = 0 .. (MemPages * Radix - 1)
    /\ kernel \in Modules \union {None} /\ i \in Nat
    /\ virt_start \in Nat \union {None} /\ size \in Nat /\ image \in Nat \union {None}
    /\ heap \in [base: Nat, current: Nat, limit: Nat]
    /\ blocks \in Seq([start: Nat, words: Nat])
    /\ paging_queue \in Seq([phys: Nat, virt: Nat, words: Nat])
    /\ Len(paging_queue) <= QueueMax
    /\ region \in 1 .. (Len(paging_queue) + 1) /\ j \in Nat
    /\ level \in 0 .. (Levels - 1) /\ table \in 0 .. (MemPages - 1)
    /\ awd_info \in [ptr_malloc_current: Nat \union {None}, ptr_malloc_limit: Nat \union {None}]

\* When Lobo is entered, reading any address of a LOAD section through the page
\* tables yields the word of the kernel's file, or 0 beyond the file's part:
\* kernel_load, the image's size and paging_map_page agree on where it is.
KernelInPlace ==
    pc = "entered" =>
        \A h \in Loads : \A o \in 0 .. (Headers[h].memsz - 1) :
            Seen(Headers[h].vaddr + o) =
                IF o < Headers[h].filesz THEN File(kernel, Headers[h].offset + o) ELSE Zero

\* Lobo reaches the rest of AWD's heap where kernel_early looks for it, at
\* KERNEL_VMB, and nothing AWD built (image, tables) lies in it.
HeapReachable ==
    pc = "entered" =>
        /\ \A a \in awd_info.ptr_malloc_current .. (awd_info.ptr_malloc_limit - 1) :
              Translation(VMB + PageOf(a)) = PageOf(a)
        /\ \A b \in 1 .. Len(blocks) :
              blocks[b].start + blocks[b].words <= awd_info.ptr_malloc_current

\* What paging_init asks for, page by page: low memory with the screen, AWD's code
\* and tables and its heap where they are, the window at KERNEL_VMB, and the image.
\* The identity mapping of the first two megabytes that docs/awd/Loading.md lists
\* is commented out in paging_init and not part of it; see IdentityMapped.
Requested(v) ==
    CASE v \in (0 .. Pml4) \union (PageOf(heap.base) .. PageOf(heap.limit - 1)) -> v
      [] v \in VMB .. (VMB + WindowPages - 1) -> v - VMB
      [] v * Radix \in virt_start .. (virt_start + size - 1) -> PageOf(image + v * Radix - virt_start)
      [] OTHER -> None

\* paging_commit maps what paging_init queued and nothing else: every page of the
\* address space Lobo is entered in translates as requested, the regions of the
\* queue, whose ends are recorded in two ways, come out neither a page short nor a
\* page long, and no region's tables disturb another's.  This is about the queue as
\* it is, without the doc's identity mapping, and about tables taken from memory
\* that is clean.
MappedExactly ==
    pc = "entered" => \A v \in 0 .. (Power[Levels] - 1) : Translation(v) = Requested(v)

\* What docs/awd/Loading.md:17 says of the address space Lobo is entered in: the
\* first two megabytes, which are WindowPages long, are identity mapped.  paging_init
\* queues only the parts of them that AWD uses, and every boot that gets there
\* violates this, as MappedExactly implies for a module in the window.
IdentityMapped ==
    pc = "entered" => \A v \in 0 .. (WindowPages - 1) : Translation(v) = v

\* However far the boot gets, AWD writes neither into a module, nor into its own
\* code: the copies of kernel_load and the tables stay inside the heap.
ModulesIntact ==
    /\ \A m \in Modules : \A a \in mb.mods[m].mod_start .. (mb.mods[m].mod_end - 1) :
          ram[a] = File(m, a - mb.mods[m].mod_start)
    /\ \A a \in (LowPages * Radix) .. (Pml4 * Radix - 1) : ram[a] = Awd

\* The boot can succeed: the machine is right, there is a kernel, and the heap
\* has more pages than the image and one table per index prefix in use.
Bootable ==
    /\ mb.magic /\ mb.longmode
    /\ \E m \in Modules :
          /\ mb.mods[m].kernel /\ mb.mods[m].elf
          /\ LET hs    == mb.mods[m].headers
                 base  == PageOf(PAGE_ROUND_UP(mb.mods[m].mod_end))
                 load  == UNION {PageOf(hs[h].vaddr) .. PageOf(hs[h].vaddr + hs[h].memsz - 1) :
                                    h \in {n \in 1 .. Len(hs) : hs[n].load}}
                 pages == (0 .. Pml4) \union (base .. (base + HeapPages - 1))
                            \union (VMB .. (VMB + WindowPages - 1)) \union load
                 used(l) == Cardinality({v \div Power[l] : v \in pages})
             IN  Cardinality(load) + used(1) + used(2) + used(3) < HeapPages

\* A boot that can succeed does: every loop of the loader ends, AWD never stops
\* for want of heap that is there, and never follows an entry it did not write.
BootableBoots == Bootable => <>(pc = "entered")
=============================================================================
