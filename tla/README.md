# A verification of the CanidaeOS kernel

CanidaeOS is a small x86-64 operating system: the boot loader African Wild Dog
(AWD, `src/src/awd`) and the kernel Lobo (`src/src/lobo`). This directory holds
TLA+ models of both, TLC configurations that check them on small
instances, and TLAPS proofs for every value of the constants.

The models start where boot has got far enough. At this commit the kernel as
built does not get there: `vmm::init` loads a page directory that maps nothing
(`src/src/lobo/mem/vmm.cpp:28-42`, "TODO: FIXME"), and AWD never fills in
`ptr_phys_mem_map` (`src/src/awd/main.c`). The components are modelled as
working code called in the order `kernel_early` and `kernel_main` call them.

## Inventory

| Component | State | Operations | Meets | Hard because | Correct when |
|---|---|---|---|---|---|
| Scheduler (`task/scheduler.cpp`, `switch_thread.s`) | thread list, states, saved stack tops, current thread and index, on/off flag | Init, CreateThread, Schedule, SwitchThread, Yield, Enable/DisableScheduling | timer interrupt, debugger, `kernel_main` | the timer handler re-enables interrupts before it calls Schedule, so Schedule is re-entered on the same stack | contexts are saved where they belong, parked threads do not run, nobody is forgotten, dispatch is round robin |
| Interrupt dispatch (`interrupts.cpp`) | none of its own | timer, keyboard, fault | scheduler, keyboard | lands anywhere | |
| Debugger (`kernel_debugger.cpp`) | `wasSchedulingEnabled`, input line | enter, commands, exit | scheduler, keyboard | the flag is read and cleared in two steps | scheduling stops while it is open and resumes afterwards |
| Keyboard (`hal/keyboard.cpp`) | scancode queue and size, shift | recieve_scancode, getchar_async | PS/2 interrupt, reader thread | the interrupt appends while the reader moves the queue | FIFO, no loss, characters match typing |
| Physical memory (`mem/pmm.cpp`, `bitset.h`) | page bitmap, page counters | init, allocate, free, set, set_free_memory | heap, virtual memory, boot | 32-bit arithmetic, no lock, search at the end of memory | pages are handed out once, from free memory |
| Heap (`mem/heap.cpp`) | base, limit, mode | kmalloc, kmalloc_aligned | physical memory, everybody | shares memory with the bitmap but marks few of its pages | blocks and pages never overlap |
| Memory initialisation (`kernel_early.cpp`) | the memory map | init_memory | AWD, physical memory | unaligned or short maps | only free memory becomes allocatable |
| Virtual memory (`mem/vmm.cpp`, `arch/x86_64/vmm.cpp`) | page tables, current directory | map, map_direct, unmap, invalidate | heap, physical memory | table creation races, rounding | what was mapped is mapped, nothing is mapped twice |
| AWD (`src/src/awd`) | bump allocator, paging queue, memory regions | multiboot_analyse, kernel_analyse, kernel_load, malloc_aligned, paging_init, paging_commit | GRUB, Lobo | sizes from an ELF file, regions recorded in two ways, memory as GRUB left it | a kernel that can be booted is, and lies where its addresses say |
| Consoles and log (`console.c`, `vga_console.cpp`, `log.cpp`) | cursor, left column, screen | console_print_char, PrintChar, LogArg, FormatSetLeftColumn | AWD, every thread, the debugger | two drivers share the screen, threads share the cursor and the left column | what is printed stays, in order, on the screen |
| Formatting (`vprintf.c`, `itoa.c`) | one static buffer | vprintf, itoa, atoi | every line printed, interrupts too | flags, widths, zero; the buffer is shared with interrupt handlers | what is printed is what the format means |
| UART, driver registry | none, a list | output, add | log, boot | | |

## Modules

| Module | Models |
|---|---|
| `Scheduler` | the scheduler, the timer, thread creation at boot, the debugger's use of it |
| `RoundRobin` | what the scheduler promises: a list, who is runnable, who runs, and dispatch to the next runnable thread in cyclic order |
| `Keyboard` | the scancode queue and the decoding |
| `Pmm` | the page bitmap, the heap, memory initialisation |
| `Vmm` | the page tables, map, map_direct and unmap, and memmap, their caller |
| `AddressSpace` | what the page tables promise: a function from pages to translations, changed one page at a time and never overwritten |
| `Loader` | AWD from GRUB's hand-over to the jump into Lobo |
| `Terminal` | the screen: AWD's console, Lobo's log and VGA device, the debugger's line editor |
| `Printf` | vprintf and itoa, with the interrupt that formats a line of its own |
| `MCScheduler`, `MCKeyboard`, `MCPmm`, `MCVmm`, `MCLoader`, `MCTerminal`, `MCPrintf` | constants for TLC |
| `SchedulerProofs` | what is proved of the scheduler however ticks nest |
| `SchedulerSerialProofs` | what is proved when no tick lands inside Schedule, the order of dispatch, and the refinement of `RoundRobin` |
| `KeyboardProofs`, `PmmProofs`, `TerminalProofs`, `LoaderProofs`, `PrintfProofs` | what is proved of these components |
| `VmmProofs` | what is proved of the page tables, and the refinement of `AddressSpace` |

Definitions called "Faulty variant" are bugs such code might have. No
specification uses them; substituted for the definition after them, each makes
the property it is listed with in `PROJECT.json` fail.

### Scheduler

One processor executes on one stack, `rsp`. Each thread has a stack of Schedule
activations, `frames`; an activation is a record of its program counter and
locals. `Tick` pushes one on whatever stack is in use, `Yield` on that of a
thread executing its own code. From there one action per shared-memory access:
`Check` (line 109 of `scheduler.cpp`), `LoadIndex`, `StoreIndex`, `WrapIndex`
(114), `Pick` (115), `Test` (116-120), `MarkCurrent`, `MarkNew` (122-123),
`RereadIndex` (124), `LoadCurrent`, `SetCurrent` (61-64), `SaveContext`,
`LoadContext` (`switch_thread.s`, lines 25 and 27) and `Resumed`.
A saved context is a stack and a depth on it. Returning from an activation, or
resuming a context under others, reuses stack memory: contexts saved there become
`Dangling`, and loading one sets `halted`.

`MaxDepth` says how many activations may pile up on a stack. With 1 no tick lands
inside Schedule: this is the algorithm itself. The code, which executes `sti`
before it calls Schedule, allows more; the model then stops at `MaxDepth`, and so
would a stack of 16KB.

Boot is modelled from the return of `Scheduler::Init`: k/idle is current, has no
saved context, and its state is the zero of static storage, Ready. Thread names,
IDs and the task structures are left out. `SwitchTask` is not modelled: there is
one task. (`switch_task_vas` would load the old value of `cr3` into `cr3`,
`switch_thread.s:53`, where its comment says "Switch to new thread's VAS".)

### Keyboard

`recieve_scancode` is one step, since interrupt gates run with interrupts off.
The reader's pop is three: `PopMove` (`keyboard.cpp:103-106`), `PopClear` (107)
and `PopDec` (108 and the decoding). Two things are finer than the C++ text.
The store of 0 goes to `scancode_queue[scancode_queue_sz]`; when the queue is
full that is the first byte after the array, the low byte of
`scancode_queue_sz`, and the size reads 0 until the decrement. And g++ -Og
loads the size once for both statements, as it may, so the decrement stores the
loaded value minus one; this is what repairs the size of a full queue, and what
loses a scancode that arrives in between. `sent`, `taken` and `chars` are history,
and so is `raced`: an interrupt has landed inside a pop. The properties that such an
interrupt breaks are stated until the first one; `FifoAlways` is `Fifo` without that.

### Pmm

Addresses are physical bytes and a page has `PageBytes` of them. Boot runs alone:
`VmmInit` (its one heap allocation), `PmmInit`, `FreeMemory`, `ReserveLow`,
`SetFreeMemory`, each loop a step. Then threads call `Allocate`, whose outer loop
(`Scan`), inner loop (`CheckNext`) and marking (`SetPage`) test or set one bit a
step; a bit operation is a single instruction. `Kmalloc` runs between cli and sti
and is one step. `WrapPages` is 2^20 in the code: `checkIndex * 0x1000` is an
`unsigned int`. `grants` and `heapPages` are history.

### Vmm

A virtual address is a page number of `Levels` digits in base `Radix`, the indices of
the walk (`Power[k]` is the number of pages below a table of level k); lengths are in bytes, so that rounding is visible. `tables` holds the tables
by number, table 0 being `pdir_kernel`. A call is a record in `op` with the loop's
variables and the place of its walk. One action per access to the tables: `Walk`
reads an entry of an upper level, and when it is zero takes a new table from the heap,
`Link` stores it, `TestEntry` and `MapPage` are the test and the store in `map_pages`,
`UnmapPage` the store in `unmap_pages`, and `Flush` is `swap_page_directory` and the
return. `Map`, `MapDirect` and `Unmap` are the constructors and the destructor of
`memmap`, the only callers; `maps` is the set of memmaps that exist. Ranges begin
with a page. `pmm::allocate` is one step, first fit, which is what `Pmm` is checked
for; two calls of it that overlap are that module's matter. `Access` is the processor
caching a translation, at any time.

### Loader

Memory is a function from words to what they hold: a word of a module's file, of AWD,
a table entry, zero, or something left behind. A page has `Radix` words, a table
fills a page, and a virtual address has four indices; `mb` is what GRUB handed over.
`Verify`, `multiboot_analyse`, `kernel_analyse`, `memory_heap_init`, `AllocateImage`,
`kernel_load` and `paging_init` are the calls of `awd_main`, a loop over program
headers one header a step; `CreateTable`, `LoadTable` and `StorePage` are
`paging_map_page`, `NextRegion` the outer loop of `paging_commit`, and `kernel_enter`
the hand-over. `pc` ends as "entered", "panicked", or "wild" when the code follows a
pointer that is not one.

The kernels are laid out as Lobo's linker script does it, sections in consecutive
pages. `kernel_analyse` adds sizes up, so a gap between sections would let the copy run
past the image. The kernel is the last module in memory, since the heap begins behind
it whatever else is there, and the heap ends below the 2MB mapped at KERNEL_VMB, the
only place Lobo reaches it. With modules but no kernel among them
`multiboot_find_kernel` returns 0, which is dereferenced; the model goes wild there,
and `BootableBoots` does not ask for more. Only the file's part of a section is
written, so .bss is whatever the memory held.

`MappedExactly` compares the tables with `Requested`, which is what `paging_init`
queues. That is not what `docs/awd/Loading.md:17` lists: the identity mapping of the
first two megabytes is commented out (`paging.c:38`), so pages of it that are neither
low memory, AWD nor heap, the modules' for one, are mapped at KERNEL_VMB only.
`IdentityMapped` states the doc's sentence; no run lists it, since it is violated by
every boot that enters Lobo. `MappedExactly` is checked and proved for clean memory; what a table that
was not clean does is the matter of `loader_dirty`.

### Terminal

A cell of the screen shows ink or not. A call of the log is the sequence of device calls it makes,
kept in `todo`; `PrintChar` is eight actions, one for each point of
`vga_console.cpp:16-73` between which a tick could switch threads. `MaxBusy` says how
many threads may be inside it at once; 1 is a switch between characters only. The
debugger suspends scheduling while `open`; `Key`, `Backspace` and `Return` are the
branches of its input loop, `Process` what it does with the line. `typed` is history,
and so is `live`, the ink printed and neither erased nor scrolled away.

### Printf

A call is given as a sequence of directives; `Format` spells the format string, which
the model of `vprintf` takes apart again, and `Printed` says what the directives mean
without scanning anything. A call in progress is a frame, with `fmt_scan` the place in the format and `next` the argument
that `va_arg` takes next; `Interrupt` puts the line
"Recieved IRQ %d, handled." (`interrupts.cpp:90`) on top of it. itoa's loop and the reading of its digits are one
character a step, since the buffer is shared; scanning the flags and the width touches
nothing shared and is one. AWD's copy differs in having a second buffer for %p and no
interrupts. Formats are the well-formed ones: after a '%' at the very end of a format
`vprintf` would step over the terminator, and an eighth digit of a width would be
printed; the kernel has no such format. `%d` takes an unsigned int, prints a negative
one as 2^32 less, and is padded with blanks whatever the flags, and so `Meant` says.

## Runs

`cd tla; tlc -workers 2 -config X.cfg M`.

| Run | Bounds | Shows |
|---|---|---|
| `sched_serial` | k/idle and three threads, all of which may be parked, two debugger users, maxTries 2, MaxDepth 1, fairness | every scheduler property, the refinement of `RoundRobin`, and that every runnable thread runs |
| `sched_context` | k/idle and two threads, MaxDepth 2 | violation, below |
| `kbd_queue` | two keys, a queue of two, five scancodes, up to four unread, two interrupts in a pop, fairness | FIFO, characters, overflow only when behind, every scancode read; nothing read that was not sent |
| `kbd_fifo` | one interrupt in a pop | violation, below |
| `pmm_serial` | two-byte pages, ten pages, six memory maps, requests of 0 to 3 pages | every memory property, memory below 4GB, regions of whole pages, heap below 4MB |
| `vmm_serial` | four levels of two entries, sixteen pages of two bytes, three frames to allocate, room for nine tables, up to three memmaps of eleven kinds, fairness | every virtual memory property and the refinement of `AddressSpace` |
| `vmm_backed` | sizes of one page and one and a half | violation, below |
| `pmm_large` | twelve pages with WrapPages 8 | violation, below |
| `loader_boot` | tables of eight entries, machines without long mode or multiboot, module lists with and without a kernel, kernels of several section layouts, one that does not fit the heap, fairness | every loader property |
| `loader_dirty` | one kernel, one page of the heap not zero | violation, below |
| `console` | a screen of three by three, two threads, three calls, lines of up to four bytes and five keys, MaxBusy 1 | every console and line editor property |
| `printf` | ints of 8 bits, words of 16, a buffer of exactly the digits of the largest word, one or two directives of some fifty, one interrupt | every formatting property |

Why these bounds are enough to be interesting. Four threads let parked ones lie
between, before and after runnable ones, and maxTries 2 makes the search give up
one candidate before, at and after a full turn; the code's 500 differs only in
that no list comes near it. Depth 2 is the first at which ticks nest. A queue of
two is full, empty and in between within five scancodes. Ten pages have room for
a hole, a fragment too small for a request, and a run ending with the last page;
the maps include one shorter than the reserved memory and an empty one. The memmaps
of `vmm_serial` go through every branch of `map`, share tables at every level, cross
from one table to the next at the last level and at the root, and run out of frames
and of tables. The boots of `loader_boot` end in every way `awd_main` can end. Three
calls on a screen of three rows wrap, scroll and scroll again in each driver, and five
keys overflow a line of four bytes. The numbers of `printf` are zero, around the
base, and at and beyond the end of an int, and one interrupt can hit any digit of them.

`GiveUpSound` speaks of lists no longer than maxTries + 1. `OnlyFreeMemory` is
checked with the heap below the 4MB boot reserves, which is
where AWD puts it unless modules are large; the heap marks only the page each
block ends on (`heap.cpp:53`), so a heap above 4MB would have pages that
`allocate` hands out.

Deadlock is checked in `sched_serial`. It is not elsewhere: a panic ends the
behaviour of the keyboard's, the memory modules' and the loader's runs, as entering Lobo
does the loader's; the keyboard may send nothing more, and the calls of `console` and
`printf` come to an end.

Fairness: `sched_serial` assumes that the processor executes (`WF(Schedule)`) and
that the timer goes on interrupting (`WF(Tick)`, the PIT). Nothing is assumed of
threads. `kbd_queue` assumes that the reader executes, which is what the
scheduler's `EveryThreadRuns` gives it, and `vmm_serial` the same of a thread in a call.
`loader_boot` assumes that the processor executes; nothing else runs.

### Disagreements found

* `sched_context`: a tick between `currentThread = newThread` and the store of
  `rsp` makes the nested call save k/idle's stack in the other thread's TCB.
  `NoWildJump`, `ParkedNeverRuns` and `GiveUpSound` fail at depth 2 too.
* `kbd_fifo`: an interrupt inside a pop loses its scancode, and an older one is
  read twice.
* `pmm_large`: multi-page allocations that reach 4GB mark other pages than the
  ones they return.
* `vmm_backed`: `map` allocates `length / 0x1000` frames, rounded down, and maps the
  length rounded up. A memmap at a given address is in addition not allocated any
  frames at all, where `memmap.h:22` says it is.
* `loader_dirty`: page tables are taken from an allocator that does not clear them and
  are searched for entries that are not 0.
* `loader_boot`, by what `MappedExactly` says of the pages not queued: the first two
  megabytes are not identity mapped when Lobo is entered, where
  `docs/awd/Loading.md:17` says they are; the call that would do it is commented out.
  Added to `MCLoader_boot.cfg` as an invariant, `IdentityMapped` is violated; the
  first pages not mapped are those of the kernel's module.

The same causes show elsewhere; these have no run of their own. Lines 122-124 of
`scheduler.cpp` are marked "Critical Section" and are not one: a tick after the new
thread is marked Running and before the index is read again leaves that thread
Running and never picked (`NoGhostRunning` fails in the configuration of
`sched_context`). A page only partly in free memory becomes allocatable, where
`docs/lobo/Memory.md:16` says only memory marked FREE is used (`OnlyFreeMemory` of
`Pmm` fails for a region that ends inside a page), and a last region that ends so
fails the bitset's assertion during boot. With MaxBusy 2 `CursorAtEnd` fails: a tick inside
PrintChar lets two threads advance `y` before either scrolls, `AttemptScroll` takes
back one, and the next characters are stored behind the screen. A kernel that is not
the last module lets AWD's heap, and Lobo's after it, overwrite the ones behind it, where
`docs/lobo/Memory.md:16` says "It will not clobber GRUB modules".

`CommandIsEdited` states the one flaw of the line editor exactly: after a final
backspace one erased character may still be part of the command, since the slot after
the cursor is cleared before the cursor steps back. `TextKept` says
how far the damage of `itoa`'s static buffer goes: an interrupt inside a number may
change its digits. It is about the characters of the interrupted call; the interrupt's
own line still appears in the middle of them on the screen.

Not findings because nothing in the kernel does it yet: two threads inside
`allocate` can be given the same page (`GrantsExclusive` fails with MaxBusy 2), two
threads inside `map` that both find a table missing lose a mapping (`MappingsHold`
and `TablesFormTree` fail with `Threads <- TwoThreads`), and a range that ends with
the address space is not mapped, since `addr + size` is 0 (`MappingsHold` fails
with a request for page 15).

## Proofs

Theorems hold for every value of the constants that the named assumptions of the
modules allow; a condition beyond them is a hypothesis of the theorem
(`ASSUME ... PROVE`), named below. `PROJECT.json` lists them with the property each
states. Every inductive invariant was checked by TLC on the run's instance before it was
proved.

| Proved | With nothing assumed of overlap | When calls do not overlap |
|---|---|---|
| Scheduler | types, no null dispatch, scheduling restored, debugger freezes | contexts, no wild jump, one Running thread, parked threads, giving up, round robin |
| Keyboard | types, only sent codes, decoding; FIFO and the panic until the first interrupt in a pop | |
| Pmm | types | grants exclusive, only free memory, first fit |
| Terminal | left column restored, the command run is the edited line | nothing overprinted, nothing lost, types |
| Vmm | types, no stale translation | tree of tables, flat address space, mappings |
| Loader | types, modules and AWD's code intact; from clean memory every page mapped as paging_init asks, the heap reachable, the kernel in place | (nothing runs beside it) |

**Scheduler.** The two modules are for any set of threads, any `MaxTries`, any
`Parkable` and `Debuggers`. `SchedulerProofs` holds for any `MaxDepth`. Its inductive
invariant `AnyDepthInv` adds to `TypeOK`: `FramesOK`, the pointers an activation is
about to dereference are not null; `ContextsOK`, a saved context lies within the live
part of its stack; `IndexOK`, the index is past the end of the list only while an
activation on the executing stack is about to wrap it and all ticks above it will store
another such index before they read one, which is what keeps `at()` from answering
nullptr; `GateOK`, while scheduling is off no activation on the executing stack has
passed its first test; `BootOK` and `DebuggerOK`, a thread in the debugger found
scheduling on, and while its prompt is open it is the one executing and scheduling is
off.

`SchedulerSerialProofs` assumes `MaxDepth = 1`. `SerialInv` adds to `AnyDepthInv`,
for each point in Schedule: `StacksOK`, every created thread but the executing one
has its own innermost activation saved, and at the jump the executing one has too;
`CurrentOK`, `currentThread` names the executing thread until the switch assigns it;
`CandidateOK`, the candidate is the thread the index names, and is Ready until it is
marked Running; `RunningOK`, which one thread may be marked Running.

`OrderInv` adds to `SerialInv` what the search has learnt: `PassedOK`, no thread between
the current one and the index, round the list, is Ready, which survives a search that
gave up and left the index where it was; `TriesOK`, the last `tries` positions are not
Ready. From the first follows that a dispatch goes to the next runnable thread, a step
of `RoundRobin`; from the second that Schedule gives up only when nobody is Ready.

**Keyboard.** For any set of keys and any `QueueMax`, with interrupts anywhere.
`QueueInv` counts the codes waiting (`Waiting`) at each point of a pop, in memory or in
the register that will overwrite it; `SlotsSent` says that every slot a pop may read holds a code
that was sent, which no interleaving disturbs; `InOrder`, that taken and waiting codes
are the sent ones, holds until the first interrupt inside a pop. The decoding is proved
against `Typed`, which looks at the whole sequence: appending a code changes the
presses, and hence the characters, only at the end.

**Pmm.** `TypeCorrect` is for any overlap. The others assume `Machine`: calls do not overlap
(`SerialCalls`); free regions begin and end with a page (`WholePages`) and end below
4GB (`Addressable`), since `init_memory` frees every page that a region begins or steps
into and `checkIndex * 0x1000` is 32 bits wide; and boot reserves low memory with the
heap in it (`LowHeap`). `pmm_large` shows what happens beyond 4GB; the other conditions
are those of `pmm_serial`.
`SerialInv` says that a clear bit is free memory above the reserved pages, that a
granted page is set and granted once, and what a search in progress knows: no run
starts below its index, what it tested is clear, what it has set is set.

**Terminal.** `ColumnRestored` is for any overlap, from `Shape`: in what a writer has
still to print, each setting of the column is followed by its end. So is
`CommandCorrect`, from `LineInv`: the buffer holds, before the index, the line as edited
so far, at the index nothing or the character just erased, and nothing behind it.
`Edited` is a recursion over the typed keys; that a function satisfying it exists, and
that any two agree, is shown by a least counterexample (`LinesExist`, `LinesAgree`), and
then what one more key does (`EditedAppend`). The others assume
one thread at a time in `PrintChar` (`SerialPrinting`), which the runs assume too.
`ScreenInv` says for each of the eight points of `PrintChar` where the cursor is, from
which cell on the screen is blank, and how much ink it shows; between the moving up of
the rows and the blanking of the last one, that row is not counted.

**Vmm.** `LevelInv`, for any number of threads: the tables can be given levels such
that an entry names a table one level down. Two threads that race in `Link` lose a
table but never confuse levels, so that types hold. `TlbCoherent` needs only that a
page's translation changes inside a call and that the call ends with a load of cr3.

For one thread (`SingleThread`), `TreeInv`: tables have levels L and prefixes P, an
entry leads to the table whose prefix has the entry's index as its next digit, no two
tables have the same level and prefix, and a call is at the table that the digits of
its address lead to. The walk is a recursive function; what it yields at each level is
given by an explicit function (`OnWalk`), and that the two agree is shown by a least
counterexample, since induction over an operator is not available. So a store
changes the translation of one page only (`TreeStores`): that is the refinement of
`AddressSpace`. `MapInv` then relates translations to memmaps: a call has mapped what
lies below its address and has still to unmap what lies above, and every other
translation is that of one memmap. `MappingsKept` also assumes `RangesInSpace`: ranges
end before the last page and are asked for as present. With the last page `addr_limit`
wraps to 0 and the loop maps nothing, or the address after it does and the loop begins
again at page 0.

**Loader.** For every size of memory and heap and every list of modules and program
headers. `TypeCorrect` and `FilesIntact` hold whatever memory held before the boot. The hypothesis `SaneBoot` says what
the code takes for granted: modules lie in memory and apart (`ModulesApart`); no module
lies behind the kernel and memory has room for the heap there (`RoomForHeap`); the first
LOAD section begins with a page and is the lowest, and each other one begins no later
than the page behind one before it (`NoGaps`, what the linker script does); and
PAGING_QUEUE_MAX is at least 5. The boots of `loader_boot` satisfy it. `BootInv` follows
`awd_main`: `AnalysisOK`, the sections counted so far lie between the lowest
address and the sum of sizes, so that every copy lands inside the image; `HeapOK`, the
heap begins behind every module and the image begins the heap; `Unallocated`, no word
of the heap that is still free looks like an entry, so that a table taken as it is names
no page; `TablesOK`, tables can be given levels such that an entry names a table one
level down, so that `paging_map_page` writes nowhere else. Dirty memory may send AWD
wild, as `loader_dirty` shows, but not make it write into a file before that.

What the tables map needs more, `TidyBoot`: memory is 0 where the heap goes
(`CleanHeap`), since `malloc_aligned` clears nothing; the heap lies in the window at
KERNEL_VMB (`InWindow`), which lies above the memory it maps; and the kernel is linked
behind the window and not at the very end of the address space (`InSpace`, what KERNEL_VMA in
the linker script does). `MapInv` adds to `BootInv`: `MemoryOK`, `SpaceOK`, `QueueOK` and
`BlocksOK`, the rest of the heap is 0, the image has its place in the address space, and
five regions are queued; and `MapsOK`, paging_pml4 and the pages behind the image are a
`Tree`, with a level and a prefix of digits for each table as in `VmmProofs`, the walk is
where its page's digits lead, and the last level maps (`Leaf`) exactly the pages that the
two loops of `paging_commit` have come to (`Done`). A new table maps nothing (`TreeGrows`), a store
maps one page (`TreeStore`), and the five regions do not overlap (`IsPlan`), so that no
store replaces another. From this follow `TablesExact`, which is about the regions that
are queued and not about the doc's identity mapping, and `HeapHandedOver`.

`KernelPlaced` also needs a well-formed file (`LinkedBoot`): LOAD sections do not
overlap, and the module is as long as its headers say. `ImageInv` says that the image holds the
sections copied so far, read from a file that `ModulesIntact` says is as GRUB left it, and 0
elsewhere; tables are behind it. The boots of `loader_boot` satisfy `LinkedBoot`.

**Printf.** For all calls that are formats as the kernel writes them (`Directive`), every
width of an int and a word, and any number of interrupts; the buffer is to hold the digits
of the largest number (`SizesAssumption`, with 49 places for 64 bits true by far).
`Format`, `Args` and `Printed` each lay the directives of a call out one after the other
(`FormatLaid`, `ArgsLaid`, `OutputLaid`), so that a call is in one directive, and
`PrintfInv` says of every call in progress where in the three it therefore is: between
directives (`Scanning`), at the specifier with the flags and the width read (`Specifying`),
in itoa with the digits of the number that are written and the quotient that is left
(`Turning`), or printing and padding (`Printing`, with `Fresh`, how much of the directive is
out). Its digits that are still to be read are those of the number unless it is clobbered
(`DigitsKept`), and are digits in any case. A turn of another call's itoa preserves this
for the calls below (`BelowStep`): it writes below the terminator, which is the same for
all, so the length stays, and marks the calls whose digits it hits. `TakenApart` is that
vprintf reads the flag, the width and the specifier that were spelled; `AtoiIsValue`, that
`atoi` computes the positional value; `TurnFacts` and `PlacesIs`, that itoa stops at the
numeral's first digit. Powers and sums are recursive functions; they exist and are unique
by a least counterexample (`RecursionExists`, `RecursionAgrees`).

**Model-checked only.** Liveness (`EveryThreadRuns`, `EveryCodeRead`, `CallsReturn`,
`BootableBoots`), which under fairness is out of the prover's reach. Every safety invariant
and action property of the passing runs is proved.

## Not modelled

Not modelled: `SwitchTask` (one task); `find_page_entry` with create false and the `invalidate`
overloads, which nothing calls; the fault handler, which prints and halts; the driver
registry, a list that boot appends to three times; the UART, which polls a port and
keeps nothing; the IDT and PIC set-up, CPUID probing, colours and version banners (pure I/O
or fixed data); the unused `liballoc.h`; and `util/gdt_util.c`, a host tool.
