---------------------------- MODULE LoaderProofs ----------------------------
(***************************************************************************)
(* What holds of AWD for every size of memory and of the heap, every list  *)
(* of modules and every kernel that a linker lays out without gaps.        *)
(* That the files stay intact holds whatever the memory behind the modules *)
(* holds when AWD starts; what the tables map, and what Lobo sees through  *)
(* them, when it is 0 where AWD places its heap (TidyBoot, LinkedBoot).    *)
(***************************************************************************)
EXTENDS Loader, WellFoundedInduction, TLAPS

-----------------------------------------------------------------------------
(* What the theorems assume of the hand-over *)

\* Module k is the one that multiboot_find_kernel finds.
IsKernel(b, k) ==
    /\ k \in 1 .. Len(b.mods) /\ b.mods[k].kernel
    /\ \A m \in 1 .. Len(b.mods) : b.mods[m].kernel => k <= m

\* GRUB places modules in memory, none over another.
ModulesApart(b) ==
    \A m \in 1 .. Len(b.mods) :
        /\ b.mods[m].mod_end <= MemPages * Radix
        /\ \A n \in 1 .. Len(b.mods) :
              m # n => \/ b.mods[m].mod_end <= b.mods[n].mod_start
                       \/ b.mods[n].mod_end <= b.mods[m].mod_start

\* No module lies behind the kernel, and memory has room for the heap there.
RoomForHeap(b, k) ==
    LET base == PAGE_ROUND_UP(b.mods[k].mod_end)
    IN  /\ \A m \in 1 .. Len(b.mods) : b.mods[m].mod_end <= base
        /\ base + HeapPages * Radix <= MemPages * Radix

\* The kernel has a LOAD section; the first begins with a page and is the lowest; each
\* other one begins at the latest with the page behind one before it.
NoGaps(hs) ==
    /\ \E h \in 1 .. Len(hs) : hs[h].load
    /\ \A h \in 1 .. Len(hs) : hs[h].load =>
          \/ /\ \A g \in 1 .. (h - 1) : ~hs[g].load
             /\ \E p \in Nat : hs[h].vaddr = p * Radix
             /\ \A g \in 1 .. Len(hs) : hs[g].load => hs[h].vaddr <= hs[g].vaddr
          \/ \E g \in 1 .. (h - 1) :
                hs[g].load /\ hs[h].vaddr <= PAGE_ROUND_UP(hs[g].vaddr + hs[g].memsz)

\* paging_init queues five regions, and GRUB and the linker do as above.
SaneBoot ==
    /\ 5 <= QueueMax
    /\ \A b \in Boots :
          /\ ModulesApart(b)
          /\ \A k \in 1 .. Len(b.mods) :
                IsKernel(b, k) /\ b.mods[k].elf => RoomForHeap(b, k) /\ NoGaps(b.mods[k].headers)

-----------------------------------------------------------------------------
(* The inductive invariant *)

\* Where awd_main is before memory_heap_init, after it, and after the image was taken.
BeforeHeap == {"verify", "multiboot", "analyse", "heap"}
AfterHeap == {"image", "load", "queue", "commit", "entered"}
AfterImage == AfterHeap \ {"image"}

\* A number of whole pages.
Aligned(a) == \E p \in Nat : a = p * Radix

\* The kernel that was found, and that it is one.
KernelOK ==
    /\ pc \in {"analyse", "heap"} \union AfterHeap => IsKernel(mb, kernel)
    /\ pc \in {"heap"} \union AfterHeap => mb.mods[kernel].elf

\* The LOAD sections among the first n of hs lie between vs, where the lowest of all
\* begins, and vs + sz.
Covers(hs, vs, sz, n) ==
    /\ Aligned(sz)
    /\ vs = None <=> \A h \in 1 .. n : ~hs[h].load
    /\ vs # None =>
          /\ Aligned(vs)
          /\ \A h \in 1 .. Len(hs) : hs[h].load => vs <= hs[h].vaddr
          /\ \A h \in 1 .. n : hs[h].load => hs[h].vaddr + hs[h].memsz <= vs + sz

\* What kernel_analyse has summed up.
AnalysisOK ==
    /\ i >= 1
    /\ pc \in {"verify", "multiboot"} => i = 1 /\ virt_start = None /\ size = 0
    /\ pc = "analyse" => Covers(Headers, virt_start, size, i - 1)
    /\ pc \in {"heap"} \union AfterHeap =>
          Covers(Headers, virt_start, size, Len(Headers)) /\ virt_start # None

\* The heap begins behind the modules and ends in memory, and the image begins the heap.
HeapOK ==
    /\ pc \in BeforeHeap => heap.current = 0
    /\ pc \in AfterHeap =>
          /\ Aligned(heap.base) /\ Aligned(heap.current)
          /\ heap.base <= heap.current
          /\ heap.limit = heap.base + HeapPages * Radix /\ heap.limit <= MemPages * Radix
          /\ \A m \in Modules : mb.mods[m].mod_end <= heap.base
    /\ pc = "image" => heap.current = heap.base
    /\ pc \in AfterImage =>
          image = heap.base /\ image + size <= heap.current /\ heap.current < heap.limit
    /\ pc \in {"load", "queue"} => heap.current = image + size

\* Nothing that has not been allocated looks like an entry of a table.
Unallocated ==
    pc \notin Ended => \A a \in DOMAIN ram : a >= heap.current => ram[a][1] # "entry"

\* paging_commit has not begun.
WalkOK ==
    pc \in BeforeHeap \union {"image", "load", "queue"} =>
        region = 1 /\ level = Levels - 1 /\ table = Pml4

\* The pages that hold tables: paging_pml4 and what was allocated behind the image.
TablePages ==
    {p \in 0 .. (MemPages - 1) :
        p = Pml4 \/ (image + size <= p * Radix /\ p * Radix < heap.current)}

\* Each table has one level, one less than that of the tables whose entries name it.
Leveled(L) ==
    /\ L \in [TablePages -> 0 .. (Levels - 1)]
    /\ L[Pml4] = Levels - 1
    /\ table \in TablePages /\ L[table] = level
    /\ \A p \in TablePages, s \in 0 .. (Radix - 1) :
          L[p] > 0 /\ ram[p * Radix + s][1] = "entry" =>
              ram[p * Radix + s][2] \in TablePages /\ L[ram[p * Radix + s][2]] = L[p] - 1

\* While paging_commit runs the tables have levels.
TablesOK == pc = "commit" => \E L : Leveled(L)

\* The inductive invariant of a boot.
BootInv ==
    /\ TypeOK /\ ModulesIntact
    /\ KernelOK /\ AnalysisOK /\ HeapOK /\ Unallocated /\ WalkOK /\ TablesOK

-----------------------------------------------------------------------------
(* Numbers, pages and powers *)

\* A set of numbers that is not empty has a least element.
LEMMA LeastExists ==
    ASSUME NEW S \in SUBSET Nat, S # {}
    PROVE  \E x \in S : \A y \in S : x <= y
  <1> DEFINE R == OpToRel(<, Nat)
  <1>1. PICK x \in S : \A y \in S : ~ (<<y, x>> \in R)
    <2> HIDE DEF R
    <2>1. IsWellFoundedOn(R, Nat)
      BY NatLessThanWellFounded DEF R
    <2>2. S \subseteq Nat
      OBVIOUS
    <2> QED BY <2>1, <2>2, WFMin
  <1>2. \A y \in S : <<y, x>> \in R <=> y < x
    BY DEF OpToRel
  <1> HIDE DEF R
  <1>3. \A y \in S : x <= y
    <2>1. \A y \in S : ~(y < x) /\ y \in Nat /\ x \in Nat
      BY <1>1, <1>2
    <2> QED BY <2>1
  <1> QED BY <1>3

\* The sizes of memory.
LEMMA SizeFacts ==
    /\ Radix \in Nat \ {0, 1} /\ MemPages \in Nat \ {0} /\ MemPages * Radix \in Nat
    /\ LowPages \in Nat /\ AwdPages \in Nat /\ HeapPages \in Nat /\ WindowPages \in Nat
    /\ Pml4 \in Nat /\ Pml4 \in 0 .. (MemPages - 1) /\ LowPages + AwdPages = Pml4 + 1
    /\ VMB \in Nat /\ LowPages >= 1 /\ AwdPages >= 1
  BY SizesAssumption DEF Pml4

\* Products of pages and words.
LEMMA PageArith ==
    /\ \A p \in Nat : p * Radix \in Nat
    /\ \A p, q \in Nat : (p + q) * Radix = p * Radix + q * Radix
    /\ \A p, q \in Nat : p <= q => p * Radix <= q * Radix
    /\ \A p, q \in Nat : p < q => p * Radix + Radix <= q * Radix
    /\ \A p, q \in Nat : p * Radix <= q * Radix => p <= q
    /\ \A p, q \in Nat : p * Radix < q * Radix => p < q
  <1>1. Radix \in Nat \ {0, 1}
    BY SizeFacts
  <1>2. /\ \A p \in Nat : p * Radix \in Nat
        /\ \A p, q \in Nat : (p + q) * Radix = p * Radix + q * Radix
        /\ \A p, q \in Nat : p <= q => p * Radix <= q * Radix
        /\ \A p, q \in Nat : p < q => p * Radix < q * Radix
    BY <1>1
  <1>3. \A p, q \in Nat : p < q => p * Radix + Radix <= q * Radix
    <2> TAKE p, q \in Nat
    <2> HAVE p < q
    <2>1. p + 1 <= q /\ p + 1 \in Nat /\ (p + 1) * Radix = p * Radix + 1 * Radix
      BY <1>2
    <2>2. (p + 1) * Radix <= q * Radix
      BY <1>2, <2>1
    <2>3. 1 * Radix = Radix
      BY <1>1
    <2> QED BY <2>1, <2>2, <2>3
  <1>4. \A p, q \in Nat : (p * Radix <= q * Radix => p <= q) /\ (p * Radix < q * Radix => p < q)
    <2> TAKE p, q \in Nat
    <2> DEFINE a == p * Radix
               b == q * Radix
    <2>1. a \in Nat /\ b \in Nat /\ (p <= q => a <= b) /\ (q < p => b < a) /\ (q <= p => b <= a)
      BY <1>2
    <2> HIDE DEF a, b
    <2>2. (a <= b => p <= q) /\ (a < b => p < q)
      BY <2>1
    <2> QED BY <2>2 DEF a, b
  <1> QED BY <1>2, <1>3, <1>4

\* The words of a page.
LEMMA PageWords ==
    ASSUME NEW p \in Nat, NEW s \in 0 .. (Radix - 1)
    PROVE  /\ PageOf(p * Radix + s) = p /\ p * Radix + s \in Nat
           /\ p < MemPages => p * Radix + s \in 0 .. (MemPages * Radix - 1)
           /\ \A q \in Nat : p < q => p * Radix + s < q * Radix
           /\ \A q \in Nat : q <= p => q * Radix <= p * Radix + s
  <1> DEFINE a == p * Radix
             m == MemPages * Radix
  <1>1. Radix \in Nat \ {0, 1} /\ a \in Nat /\ m \in Nat /\ s \in Nat /\ s < Radix
    BY SizeFacts, PageArith
  <1>2. \A q \in Nat : p < q => a + Radix <= q * Radix /\ q * Radix \in Nat
    BY PageArith
  <1>3. \A q \in Nat : q <= p => q * Radix <= a /\ q * Radix \in Nat
    BY PageArith
  <1>4. p < MemPages => a + Radix <= m
    BY PageArith, SizeFacts
  <1>5. PageOf(a + s) = p
    BY <1>1 DEF PageOf
  <1> HIDE DEF a, m
  <1>6. \A q \in Nat : p < q => a + s < q * Radix
    <2> TAKE q \in Nat
    <2> DEFINE b == q * Radix
    <2>1. p < q => a + Radix <= b /\ b \in Nat
      BY <1>2
    <2> HIDE DEF b
    <2>2. p < q => a + s < b
      BY <1>1, <2>1
    <2> QED BY <2>2 DEF b
  <1>7. \A q \in Nat : q <= p => q * Radix <= a + s
    <2> TAKE q \in Nat
    <2> DEFINE b == q * Radix
    <2>1. q <= p => b <= a /\ b \in Nat
      BY <1>3
    <2> HIDE DEF b
    <2>2. q <= p => b <= a + s
      BY <1>1, <2>1
    <2> QED BY <2>2 DEF b
  <1>8. p < MemPages => a + s \in 0 .. (m - 1)
    BY <1>1, <1>4
  <1>9. a + s \in Nat
    BY <1>1
  <1> QED BY <1>5, <1>6, <1>7, <1>8, <1>9 DEF a, m

\* PAGE_ROUND_UP is the least number of whole pages that is not less.
LEMMA RoundUp ==
    ASSUME NEW a \in Nat
    PROVE  /\ PAGE_ROUND_UP(a) \in Nat /\ Aligned(PAGE_ROUND_UP(a)) /\ a <= PAGE_ROUND_UP(a)
           /\ \A p \in Nat : a <= p * Radix => PAGE_ROUND_UP(a) <= p * Radix
  <1> DEFINE q == (a + Radix - 1) \div Radix
  <1>1. Radix \in Nat \ {0, 1}
    BY SizeFacts
  <1>2. q \in Nat /\ q * Radix <= a + Radix - 1 /\ a + Radix - 1 < q * Radix + Radix
    BY <1>1
  <1>3. PAGE_ROUND_UP(a) = q * Radix
    BY DEF PAGE_ROUND_UP
  <1> HIDE DEF q
  <1> DEFINE b == q * Radix
  <1>4. b \in Nat /\ b <= a + Radix - 1 /\ a + Radix - 1 < b + Radix
    BY <1>2, PageArith
  <1>5. a <= b
    <2> HIDE DEF b
    <2> QED BY <1>1, <1>4
  <1>6. ASSUME NEW p \in Nat, a <= p * Radix PROVE b <= p * Radix
    <2>1. CASE q <= p
      BY <1>2, <2>1, PageArith
    <2>2. CASE ~(q <= p)
      <3> DEFINE c == p * Radix
      <3>1. c \in Nat /\ c + Radix <= b /\ a <= c
        BY <1>2, <1>6, <2>2, PageArith
      <3> HIDE DEF b, c
      <3>2. FALSE
        BY <1>1, <1>4, <3>1
      <3> QED BY <3>2
    <2> QED BY <2>1, <2>2
  <1> QED BY <1>2, <1>3, <1>4, <1>5, <1>6 DEF Aligned

\* Whole pages are rounded to themselves.
LEMMA RoundAligned ==
    ASSUME NEW a \in Nat, Aligned(a)
    PROVE  PAGE_ROUND_UP(a) = a
  <1>1. PICK p \in Nat : a = p * Radix
    BY DEF Aligned
  <1>2. PAGE_ROUND_UP(a) \in Nat /\ a <= PAGE_ROUND_UP(a) /\ PAGE_ROUND_UP(a) <= a
    BY <1>1, RoundUp
  <1> QED BY <1>2

\* Sums of whole pages are whole pages, and rounding commutes with adding them.
LEMMA RoundSum ==
    ASSUME NEW v \in Nat, Aligned(v), NEW a \in Nat
    PROVE  /\ PAGE_ROUND_UP(v + a) <= v + PAGE_ROUND_UP(a)
           /\ Aligned(a) => Aligned(v + a)
  <1>1. PICK p \in Nat : v = p * Radix
    BY DEF Aligned
  <1>2. PICK q \in Nat : PAGE_ROUND_UP(a) = q * Radix
    BY RoundUp DEF Aligned
  <1>3. p + q \in Nat /\ (p + q) * Radix = v + PAGE_ROUND_UP(a)
    BY <1>1, <1>2, PageArith
  <1>4. v + a \in Nat /\ v + a <= v + PAGE_ROUND_UP(a)
    BY RoundUp
  <1>5. PAGE_ROUND_UP(v + a) <= v + PAGE_ROUND_UP(a)
    BY <1>3, <1>4, RoundUp
  <1>6. Aligned(a) => PAGE_ROUND_UP(a) = a
    BY RoundAligned
  <1> QED BY <1>3, <1>5, <1>6 DEF Aligned

\* Rounding is monotone.
LEMMA RoundMonotone ==
    ASSUME NEW a \in Nat, NEW b \in Nat, a <= b
    PROVE  PAGE_ROUND_UP(a) <= PAGE_ROUND_UP(b)
  <1>1. PICK q \in Nat : PAGE_ROUND_UP(b) = q * Radix
    BY RoundUp DEF Aligned
  <1>2. b <= q * Radix /\ q * Radix \in Nat
    BY <1>1, RoundUp, PageArith
  <1> DEFINE c == q * Radix
  <1>3. a <= c
    <2> HIDE DEF c
    <2> QED BY <1>2 DEF c
  <1> QED BY <1>1, <1>3, RoundUp

\* memory_heap_init rounds the last word of the files up again.
LEMMA HeapBase ==
    ASSUME NEW a \in Nat \ {0}
    PROVE  PAGE_ROUND_UP(PAGE_ROUND_UP(a) - 1) = PAGE_ROUND_UP(a)
  <1>1. PICK q \in Nat : PAGE_ROUND_UP(a) = q * Radix
    BY RoundUp DEF Aligned
  <1> DEFINE b == q * Radix
  <1>2. b \in Nat /\ a <= b /\ PAGE_ROUND_UP(a) = b
    BY <1>1, RoundUp
  <1>3. b - 1 \in Nat /\ b - 1 <= b
    <2> HIDE DEF b
    <2> QED BY <1>2
  <1>4. PICK p \in Nat : PAGE_ROUND_UP(b - 1) = p * Radix
    BY <1>3, RoundUp DEF Aligned
  <1> DEFINE c == p * Radix
  <1>5. c \in Nat /\ b - 1 <= c /\ c <= b
    <2>1. c = PAGE_ROUND_UP(b - 1)
      BY <1>4
    <2> QED BY <1>3, <2>1, RoundUp
  <1>6. p <= q
    BY <1>5, PageArith
  <1>7. p < q => c + Radix <= b
    BY PageArith
  <1>8. Radix \in Nat /\ Radix >= 2
    BY SizeFacts
  <1>9. p = q
    <2> HIDE DEF b, c
    <2> QED BY <1>2, <1>5, <1>6, <1>7, <1>8
  <1> QED BY <1>2, <1>4, <1>9

\* Power is the function that its recursion defines: here is one that does.
LEMMA PowerDef ==
    /\ Power[0] = 1 /\ Power[1] = Radix * Power[0] /\ Power[2] = Radix * Power[1]
    /\ Power[3] = Radix * Power[2] /\ Power[4] = Radix * Power[3]
  <1> DEFINE R2 == Radix * Radix
             R3 == Radix * R2
             R4 == Radix * R3
             f == [k \in 0 .. Levels |-> IF k = 0 THEN 1 ELSE IF k = 1 THEN Radix
                                         ELSE IF k = 2 THEN R2 ELSE IF k = 3 THEN R3 ELSE R4]
  <1>1. Levels = 4 /\ Radix \in Nat \ {0, 1}
    BY SizeFacts DEF Levels
  <1>2. \A k \in 0 .. Levels : k # 0 => f[k] = Radix * f[k - 1]
    <2>1. /\ f[0] = 1 /\ f[1] = Radix /\ f[2] = R2 /\ f[3] = R3 /\ f[4] = R4
          /\ 0 .. Levels = {0, 1, 2, 3, 4}
      BY <1>1
    <2>2. Radix = Radix * 1
      BY <1>1
    <2> HIDE DEF f
    <2> QED BY <2>1, <2>2
  <1>3. f = [k \in 0 .. Levels |-> IF k = 0 THEN 1 ELSE Radix * f[k - 1]]
    <2>1. DOMAIN f = 0 .. Levels /\ f[0] = 1 /\ f = [k \in 0 .. Levels |-> f[k]]
      BY <1>1
    <2> HIDE DEF f
    <2> QED BY <1>2, <2>1
  <1>4. Power = [k \in 0 .. Levels |-> IF k = 0 THEN 1 ELSE Radix * Power[k - 1]]
    <2> HIDE DEF f
    <2> QED BY <1>3 DEF Power
  <1> QED BY <1>1, <1>4

\* The powers are numbers, none of them 0.
LEMMA PowerType == \A k \in 0 .. Levels : Power[k] \in Nat \ {0}
  <1>1. Levels = 4 /\ Radix \in Nat \ {0, 1}
    BY SizeFacts DEF Levels
  <1>2. \A x \in Nat \ {0} : Radix * x \in Nat \ {0}
    BY <1>1
  <1>3. /\ Power[0] \in Nat \ {0} /\ Power[1] \in Nat \ {0} /\ Power[2] \in Nat \ {0}
        /\ Power[3] \in Nat \ {0} /\ Power[4] \in Nat \ {0}
    BY <1>2, PowerDef
  <1>4. 0 .. Levels = {0, 1, 2, 3, 4}
    BY <1>1
  <1> QED BY <1>3, <1>4

\* An index of a walk is one of an entry.
LEMMA IndexType ==
    ASSUME NEW v \in Nat, NEW l \in 0 .. (Levels - 1)
    PROVE  Index(v, l) \in 0 .. (Radix - 1)
  <1>1. Power[l] \in Nat \ {0}
    BY PowerType DEF Levels
  <1>2. \A p \in Nat \ {0} : v \div p \in Nat
    OBVIOUS
  <1>3. v \div Power[l] \in Nat
    BY <1>1, <1>2
  <1>4. \A x \in Nat : x % Radix \in 0 .. (Radix - 1)
    BY SizeFacts
  <1> QED BY <1>3, <1>4 DEF Index

\* The page of an address.
LEMMA PageOfFacts ==
    ASSUME NEW a \in Nat
    PROVE  /\ PageOf(a) \in Nat
           /\ \E s \in 0 .. (Radix - 1) : a = PageOf(a) * Radix + s
           /\ \A q \in Nat : (a < q * Radix => PageOf(a) < q) /\ (q * Radix <= a => q <= PageOf(a))
  <1> DEFINE p == PageOf(a)
             s == a - p * Radix
  <1>1. p \in Nat /\ p * Radix <= a /\ a < p * Radix + Radix
    BY SizeFacts DEF PageOf
  <1>2. p * Radix \in Nat
    BY <1>1, PageArith
  <1>3. s \in 0 .. (Radix - 1) /\ a = p * Radix + s
    <2> DEFINE b == p * Radix
    <2>1. b \in Nat /\ b <= a /\ a < b + Radix /\ Radix \in Nat
      BY <1>1, <1>2, SizeFacts
    <2> HIDE DEF b
    <2>2. a - b \in 0 .. (Radix - 1) /\ a = b + (a - b)
      BY <2>1
    <2> QED BY <2>2 DEF b
  <1>4. ASSUME NEW q \in Nat PROVE (a < q * Radix => p < q) /\ (q * Radix <= a => q <= p)
    <2>1. q <= p => q * Radix <= a
      BY <1>1, <1>3, PageWords
    <2>2. p < q => a < q * Radix
      BY <1>1, <1>3, PageWords
    <2> DEFINE c == q * Radix
    <2>3. c \in Nat
      BY PageArith
    <2> HIDE DEF c, p
    <2>4. (a < c => p < q) /\ (c <= a => q <= p)
      BY <1>1, <2>1, <2>2, <2>3 DEF c
    <2> QED BY <2>4 DEF c
  <1> QED BY <1>1, <1>3, <1>4

\* What a word of memory is.
LEMMA Tags ==
    /\ Zero[1] = "zero" /\ Dirty[1] = "dirty" /\ Awd[1] = "awd"
    /\ \A p : Entry(p)[1] = "entry" /\ Entry(p)[2] = p
    /\ \A m, n : File(m, n)[1] = "file"
  BY DEF Zero, Dirty, Awd, Entry, File

\* The modules that GRUB hands over, and their program headers.
LEMMA BootFacts ==
    ASSUME NEW b \in Boots
    PROVE  /\ b.mods \in Seq(Module) /\ Len(b.mods) \in Nat
           /\ \A m \in 1 .. Len(b.mods) :
                 /\ b.mods[m].mod_start \in Nat /\ b.mods[m].mod_end \in Nat
                 /\ b.mods[m].kernel \in BOOLEAN /\ b.mods[m].elf \in BOOLEAN
                 /\ (LowPages + AwdPages) * Radix <= b.mods[m].mod_start
                 /\ b.mods[m].mod_start < b.mods[m].mod_end
                 /\ b.mods[m].headers \in Seq(Header) /\ Len(b.mods[m].headers) \in Nat
                 /\ \A h \in 1 .. Len(b.mods[m].headers) :
                       /\ b.mods[m].headers[h] \in Header
                       /\ b.mods[m].headers[h].filesz <= b.mods[m].headers[h].memsz
  <1>1. b.mods \in Seq(Module) /\ Len(b.mods) \in Nat
    BY BootsAssumption
  <1>2. ASSUME NEW m \in 1 .. Len(b.mods)
        PROVE  /\ b.mods[m].mod_start \in Nat /\ b.mods[m].mod_end \in Nat
               /\ b.mods[m].kernel \in BOOLEAN /\ b.mods[m].elf \in BOOLEAN
               /\ b.mods[m].headers \in Seq(Header) /\ Len(b.mods[m].headers) \in Nat
               /\ \A h \in 1 .. Len(b.mods[m].headers) : b.mods[m].headers[h] \in Header
    <2>1. b.mods[m] \in Module
      BY <1>1
    <2>2. b.mods[m].headers \in Seq(Header)
      BY <2>1 DEF Module
    <2> QED BY <2>1, <2>2 DEF Module
  <1>3. \A m \in 1 .. Len(b.mods) :
           /\ (LowPages + AwdPages) * Radix <= b.mods[m].mod_start
           /\ b.mods[m].mod_start < b.mods[m].mod_end
           /\ \A h \in 1 .. Len(b.mods[m].headers) :
                 b.mods[m].headers[h].filesz <= b.mods[m].headers[h].memsz
    BY BootsAssumption
  <1> QED BY <1>1, <1>2, <1>3

\* The words that AWD must not write: those of the modules and of its code.
Protected(a) ==
    /\ a \in Nat
    /\ \/ \E m \in Modules : mb.mods[m].mod_start <= a /\ a < mb.mods[m].mod_end
       \/ LowPages * Radix <= a /\ a < Pml4 * Radix

\* Steps that leave them alone keep them.
LEMMA IntactKept ==
    ASSUME TypeOK, ModulesIntact, mb' = mb, \A a : Protected(a) => ram'[a] = ram[a]
    PROVE  ModulesIntact'
  <1>1. Modules' = Modules
    BY DEF Modules
  <1>2. \A m \in Modules : mb.mods[m].mod_start \in Nat /\ mb.mods[m].mod_end \in Nat
    BY BootFacts DEF TypeOK, Modules
  <1>3. ASSUME NEW m \in Modules, NEW a \in mb.mods[m].mod_start .. (mb.mods[m].mod_end - 1)
        PROVE  ram'[a] = File(m, a - mb.mods[m].mod_start)
    <2>1. a \in Nat /\ mb.mods[m].mod_start <= a /\ a < mb.mods[m].mod_end
      BY <1>2
    <2> QED BY <2>1 DEF Protected, ModulesIntact
  <1>4. ASSUME NEW a \in (LowPages * Radix) .. (Pml4 * Radix - 1) PROVE ram'[a] = Awd
    <2>1. LowPages * Radix \in Nat /\ Pml4 * Radix \in Nat
      BY SizeFacts, PageArith
    <2>2. a \in Nat /\ LowPages * Radix <= a /\ a < Pml4 * Radix
      BY <2>1
    <2> QED BY <2>2 DEF Protected, ModulesIntact
  <1> QED BY <1>1, <1>3, <1>4 DEF ModulesIntact

\* What GRUB leaves satisfies the invariant.
LEMMA InitBoot ==
    ASSUME SaneBoot, Init
    PROVE  BootInv
  <1>1. mb \in Boots /\ ModulesApart(mb)
    BY DEF Init, SaneBoot
  <1>2. \A m \in Modules : mb.mods[m].mod_start \in Nat /\ mb.mods[m].mod_end \in Nat
                           /\ (LowPages + AwdPages) * Radix <= mb.mods[m].mod_start
    BY <1>1, BootFacts DEF Modules
  <1> DEFINE Holds(a) == {m \in Modules : mb.mods[m].mod_start <= a /\ a < mb.mods[m].mod_end}
             Top == MemPages * Radix
  <1>3. /\ DOMAIN ram = 0 .. (Top - 1)
        /\ \A a \in 0 .. (Top - 1) :
              ram[a] = IF Holds(a) # {} THEN LET m == CHOOSE m \in Holds(a) : TRUE
                                             IN  File(m, a - mb.mods[m].mod_start)
                       ELSE IF PageOf(a) \in LowPages .. (Pml4 - 1) THEN Awd
                       ELSE IF PageOf(a) \in DirtyPages THEN Dirty ELSE Zero
    BY DEF Init
  <1>4. Top \in Nat
    BY SizeFacts
  <1> HIDE DEF Top
  <1>5. ModulesIntact
    <2>1. ASSUME NEW m \in Modules, NEW a \in mb.mods[m].mod_start .. (mb.mods[m].mod_end - 1)
          PROVE  ram[a] = File(m, a - mb.mods[m].mod_start)
      <3>1. mb.mods[m].mod_end <= Top
        BY <1>1 DEF ModulesApart, Modules, Top
      <3>2. a \in 0 .. (Top - 1) /\ mb.mods[m].mod_start <= a /\ a < mb.mods[m].mod_end
        BY <1>2, <1>4, <3>1
      <3>3. m \in Holds(a)
        BY <3>2
      <3>4. ASSUME NEW n \in Holds(a) PROVE n = m
        <4>1. /\ n \in Modules /\ mb.mods[n].mod_start <= a /\ a < mb.mods[n].mod_end
              /\ mb.mods[n].mod_start \in Nat /\ mb.mods[n].mod_end \in Nat
              /\ mb.mods[m].mod_start \in Nat /\ mb.mods[m].mod_end \in Nat
          BY <1>2
        <4>2. m # n => \/ mb.mods[m].mod_end <= mb.mods[n].mod_start
                       \/ mb.mods[n].mod_end <= mb.mods[m].mod_start
          BY <1>1, <4>1 DEF ModulesApart, Modules
        <4> QED BY <3>2, <4>1, <4>2
      <3>5. Holds(a) = {m}
        BY <3>3, <3>4
      <3> HIDE DEF Holds
      <3> QED BY <1>3, <3>2, <3>5
    <2>2. ASSUME NEW a \in (LowPages * Radix) .. (Pml4 * Radix - 1) PROVE ram[a] = Awd
      <3> DEFINE lo == LowPages * Radix
                 hi == Pml4 * Radix
                 up == (LowPages + AwdPages) * Radix
      <3>1. lo \in Nat /\ hi \in Nat /\ up \in Nat /\ hi + Radix <= up /\ hi + Radix <= Top /\ Radix \in Nat
        <4>1. Pml4 < LowPages + AwdPages /\ Pml4 < MemPages
          BY SizeFacts
        <4> QED BY <4>1, SizeFacts, PageArith DEF Top
      <3>2. a \in lo .. (hi - 1)
        OBVIOUS
      <3>3. \A m \in Modules : up <= mb.mods[m].mod_start /\ mb.mods[m].mod_start \in Nat
        BY <1>2
      <3>4. a \in Nat /\ lo <= a /\ a < hi
        <4> HIDE DEF lo, hi, up
        <4> QED BY <3>1, <3>2
      <3>5. PageOf(a) \in Nat /\ PageOf(a) < Pml4 /\ LowPages <= PageOf(a)
        BY <3>4, PageOfFacts, SizeFacts
      <3>6. Holds(a) = {} /\ a \in 0 .. (Top - 1)
        <4> HIDE DEF lo, hi, up
        <4>1. \A m \in Modules : ~(mb.mods[m].mod_start <= a)
          BY <3>1, <3>3, <3>4
        <4> QED BY <1>4, <3>1, <3>4, <4>1
      <3>7. PageOf(a) \in LowPages .. (Pml4 - 1)
        BY <3>5, SizeFacts
      <3> HIDE DEF Holds
      <3> QED BY <1>3, <3>6, <3>7
    <2> QED BY <2>1, <2>2 DEF ModulesIntact
  <1>6. \A a \in DOMAIN ram : ram[a][1] # "entry"
    <2> TAKE a \in DOMAIN ram
    <2>1. \/ \E m, n : ram[a] = File(m, n)
          \/ ram[a] \in {Awd, Dirty, Zero}
      <3> HIDE DEF Holds
      <3> QED BY <1>3
    <2> QED BY <2>1, Tags
  <1>7. TypeOK
    <2>1. /\ pc = "verify" /\ kernel = None /\ i = 1 /\ virt_start = None /\ size = 0 /\ image = None
          /\ heap = [base |-> 0, current |-> 0, limit |-> 0]
          /\ blocks = <<>> /\ paging_queue = <<>>
          /\ region = 1 /\ j = 0 /\ level = Levels - 1 /\ table = Pml4
          /\ awd_info = [ptr_malloc_current |-> None, ptr_malloc_limit |-> None]
      BY DEF Init
    <2>2. Len(paging_queue) = 0 /\ QueueMax \in Nat /\ level \in 0 .. (Levels - 1)
      BY <2>1, SizesAssumption DEF Levels
    <2>3. /\ blocks \in Seq([start: Nat, words: Nat])
          /\ paging_queue \in Seq([phys: Nat, virt: Nat, words: Nat])
      BY <2>1
    <2>4. region \in 1 .. (Len(paging_queue) + 1) /\ Len(paging_queue) <= QueueMax
      BY <2>1, <2>2
    <2>5. DOMAIN ram = 0 .. (MemPages * Radix - 1)
      BY <1>3 DEF Top
    <2> QED BY <1>1, <2>1, <2>2, <2>3, <2>4, <2>5, SizeFacts DEF TypeOK
  <1>8. KernelOK /\ HeapOK /\ Unallocated /\ WalkOK /\ TablesOK /\ AnalysisOK
    <2>1. /\ pc = "verify" /\ i = 1 /\ virt_start = None /\ size = 0 /\ heap.current = 0
          /\ region = 1 /\ level = Levels - 1 /\ table = Pml4
      BY DEF Init
    <2>2. pc \notin {"multiboot", "analyse", "heap", "commit"} \union AfterHeap /\ pc # "image"
          /\ pc \notin AfterImage
      BY <2>1 DEF AfterHeap, AfterImage
    <2>3. KernelOK /\ HeapOK /\ TablesOK
      BY <2>1, <2>2 DEF KernelOK, HeapOK, TablesOK
    <2>4. AnalysisOK
      BY <2>1, <2>2 DEF AnalysisOK
    <2> QED BY <1>6, <2>1, <2>3, <2>4 DEF Unallocated, WalkOK
  <1> QED BY <1>5, <1>7, <1>8 DEF BootInv

\* kernel_analyse takes one more LOAD section into account.
LEMMA CoversNext ==
    ASSUME NEW hs \in Seq(Header), NoGaps(hs), NEW n \in 1 .. Len(hs), NEW vs \in Nat \union {None},
           NEW sz \in Nat, Covers(hs, vs, sz, n - 1), hs[n].load
    PROVE  LET vs2 == IF vs = None \/ hs[n].vaddr < vs THEN hs[n].vaddr ELSE vs
               sz2 == PAGE_ROUND_UP(sz + hs[n].memsz)
           IN  Covers(hs, vs2, sz2, n) /\ vs2 \in Nat /\ sz2 \in Nat
  <1> DEFINE vs2 == IF vs = None \/ hs[n].vaddr < vs THEN hs[n].vaddr ELSE vs
             sz2 == PAGE_ROUND_UP(sz + hs[n].memsz)
  <1>1. /\ \A h \in 1 .. Len(hs) : hs[h].vaddr \in Nat /\ hs[h].memsz \in Nat
        /\ Len(hs) \in Nat /\ n \in Nat /\ n <= Len(hs) /\ n >= 1
    <2>1. \A h \in 1 .. Len(hs) : hs[h] \in Header
      OBVIOUS
    <2>2. \A x \in Header : x.vaddr \in Nat /\ x.memsz \in Nat
      BY DEF Header
    <2>3. Len(hs) \in Nat
      OBVIOUS
    <2> QED BY <2>1, <2>2, <2>3
  <1>2. sz2 \in Nat /\ Aligned(sz2) /\ sz + hs[n].memsz <= sz2 /\ sz <= sz2
    <2>1. sz + hs[n].memsz \in Nat
      BY <1>1
    <2>2. sz2 \in Nat /\ Aligned(sz2) /\ sz + hs[n].memsz <= sz2
      BY <2>1, RoundUp
    <2> HIDE DEF sz2
    <2> QED BY <1>1, <2>2
  <1>3. CASE \A g \in 1 .. (n - 1) : ~hs[g].load
    <2>1. vs = None /\ vs2 = hs[n].vaddr
      BY <1>3 DEF Covers
    <2>2. /\ Aligned(hs[n].vaddr)
          /\ \A g \in 1 .. Len(hs) : hs[g].load => hs[n].vaddr <= hs[g].vaddr
      BY <1>3 DEF NoGaps, Aligned
    <2> HIDE DEF vs2, sz2
    <2>3. \A h \in 1 .. n : hs[h].load => h = n
      BY <1>1, <1>3
    <2>4. vs2 # None /\ hs[n].vaddr + hs[n].memsz <= vs2 + sz2
      BY <1>1, <1>2, <2>1 DEF None
    <2>5. n \in 1 .. n
      BY <1>1
    <2>6. Covers(hs, vs2, sz2, n)
      BY <1>2, <2>1, <2>2, <2>3, <2>4, <2>5 DEF Covers
    <2> QED BY <1>1, <1>2, <2>1, <2>6 DEF vs2, sz2
  <1>4. CASE ~ \A g \in 1 .. (n - 1) : ~hs[g].load
    <2>1. PICK g \in 1 .. (n - 1) : hs[g].load /\ hs[n].vaddr <= PAGE_ROUND_UP(hs[g].vaddr + hs[g].memsz)
      BY <1>4 DEF NoGaps
    <2>2. g \in 1 .. Len(hs) /\ n - 1 \in Nat
      BY <1>1
    <2>3. /\ vs # None /\ vs \in Nat /\ Aligned(vs) /\ Aligned(sz)
          /\ \A h \in 1 .. Len(hs) : hs[h].load => vs <= hs[h].vaddr
          /\ \A h \in 1 .. (n - 1) : hs[h].load => hs[h].vaddr + hs[h].memsz <= vs + sz
      BY <2>1 DEF Covers, None
    <2>4. vs2 = vs
      BY <1>1, <2>3
    <2>5. hs[n].vaddr <= vs + sz
      <3>1. hs[g].vaddr + hs[g].memsz <= vs + sz /\ hs[g].vaddr + hs[g].memsz \in Nat /\ vs + sz \in Nat
        BY <1>1, <2>1, <2>2, <2>3
      <3>2. PAGE_ROUND_UP(hs[g].vaddr + hs[g].memsz) <= PAGE_ROUND_UP(vs + sz)
        BY <3>1, RoundMonotone
      <3>3. PAGE_ROUND_UP(vs + sz) = vs + sz
        BY <2>3, <3>1, RoundSum, RoundAligned
      <3>4. PAGE_ROUND_UP(hs[g].vaddr + hs[g].memsz) \in Nat
        BY <3>1, RoundUp
      <3> DEFINE x == PAGE_ROUND_UP(hs[g].vaddr + hs[g].memsz)
      <3>5. hs[n].vaddr <= x /\ x <= vs + sz /\ x \in Nat
        BY <2>1, <3>2, <3>3, <3>4
      <3> HIDE DEF x
      <3> QED BY <1>1, <2>3, <3>5
    <2> HIDE DEF vs2, sz2
    <2>6. ASSUME NEW h \in 1 .. n, hs[h].load PROVE hs[h].vaddr + hs[h].memsz <= vs + sz2
      <3>1. CASE h = n
        BY <1>1, <1>2, <2>3, <2>5, <3>1
      <3>2. CASE h # n
        <4>1. h \in 1 .. (n - 1) /\ h \in 1 .. Len(hs)
          BY <1>1, <3>2
        <4> QED BY <1>1, <1>2, <2>3, <2>6, <4>1
      <3> QED BY <3>1, <3>2
    <2>7. n \in 1 .. n
      BY <1>1
    <2>8. Covers(hs, vs2, sz2, n)
      BY <1>2, <2>3, <2>4, <2>6, <2>7 DEF Covers
    <2> QED BY <1>2, <2>3, <2>4, <2>8 DEF vs2, sz2
  <1> QED BY <1>3, <1>4

\* A header that is not to be loaded changes nothing.
LEMMA CoversSkip ==
    ASSUME NEW hs, NEW n \in Nat, n >= 1, NEW vs, NEW sz, Covers(hs, vs, sz, n - 1), ~hs[n].load
    PROVE  Covers(hs, vs, sz, n)
  <1>1. \A h \in 1 .. n : h # n => h \in 1 .. (n - 1)
    OBVIOUS
  <1>2. \A h \in 1 .. (n - 1) : h \in 1 .. n
    OBVIOUS
  <1> QED BY <1>1, <1>2 DEF Covers

\* The kernel that was found, and its headers.
LEMMA KernelFacts ==
    ASSUME SaneBoot, TypeOK, IsKernel(mb, kernel)
    PROVE  /\ kernel \in Modules /\ Headers \in Seq(Header) /\ Len(Headers) \in Nat
           /\ mb.mods[kernel].mod_end \in Nat \ {0}
           /\ \A h \in 1 .. Len(Headers) :
                 /\ Headers[h].load \in BOOLEAN /\ Headers[h].vaddr \in Nat /\ Headers[h].memsz \in Nat
                 /\ Headers[h].filesz \in Nat /\ Headers[h].filesz <= Headers[h].memsz
           /\ mb.mods[kernel].elf => RoomForHeap(mb, kernel) /\ NoGaps(Headers)
  <1>1. kernel \in Modules /\ mb \in Boots
    BY DEF IsKernel, Modules, TypeOK
  <1>2. /\ mb.mods[kernel].mod_start \in Nat /\ mb.mods[kernel].mod_end \in Nat
        /\ mb.mods[kernel].mod_start < mb.mods[kernel].mod_end
        /\ Headers \in Seq(Header) /\ Len(Headers) \in Nat
        /\ \A h \in 1 .. Len(Headers) : Headers[h] \in Header /\ Headers[h].filesz <= Headers[h].memsz
    BY <1>1, BootFacts DEF Modules, Headers
  <1>3. mb.mods[kernel].elf => RoomForHeap(mb, kernel) /\ NoGaps(Headers)
    BY <1>1 DEF SaneBoot, Headers, Modules
  <1>4. mb.mods[kernel].mod_end \in Nat \ {0}
    BY <1>2
  <1> QED BY <1>1, <1>2, <1>3, <1>4 DEF Header

\* No word that is to be kept lies in the heap or in paging_pml4.
LEMMA ProtectedBelow ==
    ASSUME SaneBoot, BootInv, pc \in AfterHeap, NEW a, Protected(a)
    PROVE  a \in Nat /\ a < heap.base /\ PageOf(a) # Pml4
  <1> DEFINE up == (LowPages + AwdPages) * Radix
             hi == Pml4 * Radix
  <1>1. /\ kernel \in Modules /\ heap.base \in Nat /\ mb \in Boots
        /\ \A m \in Modules : /\ mb.mods[m].mod_end <= heap.base
                              /\ mb.mods[m].mod_start \in Nat /\ mb.mods[m].mod_end \in Nat
                              /\ up <= mb.mods[m].mod_start
                              /\ mb.mods[m].mod_start < mb.mods[m].mod_end
    <2>1. mb \in Boots /\ heap \in [base: Nat, current: Nat, limit: Nat]
      BY DEF BootInv, TypeOK
    <2>2. kernel \in Modules
      BY DEF BootInv, KernelOK, IsKernel, Modules
    <2>3. \A m \in Modules : mb.mods[m].mod_end <= heap.base
      BY DEF BootInv, HeapOK
    <2> QED BY <2>1, <2>2, <2>3, BootFacts DEF Modules
  <1>2. up \in Nat /\ hi \in Nat /\ hi + Radix <= up /\ Radix \in Nat
    <2>1. Pml4 < LowPages + AwdPages
      BY SizeFacts
    <2> QED BY <2>1, SizeFacts, PageArith
  <1>3. a \in Nat
    BY DEF Protected
  <1>4. \A q \in Nat : (a < q * Radix => PageOf(a) < q) /\ (q * Radix <= a => q <= PageOf(a))
    BY <1>3, PageOfFacts
  <1>5. PageOf(a) \in Nat /\ Pml4 \in Nat /\ LowPages + AwdPages \in Nat /\ Pml4 < LowPages + AwdPages
    BY <1>3, PageOfFacts, SizeFacts
  <1>6. ASSUME NEW m \in Modules, mb.mods[m].mod_start <= a, a < mb.mods[m].mod_end
        PROVE  a < heap.base /\ PageOf(a) # Pml4
    <2>1. up <= a /\ a < heap.base
      <3> HIDE DEF up
      <3> QED BY <1>1, <1>2, <1>3, <1>6
    <2>2. LowPages + AwdPages <= PageOf(a)
      BY <1>4, <1>5, <2>1
    <2> QED BY <1>5, <2>1, <2>2
  <1>7. ASSUME a < hi PROVE a < heap.base /\ PageOf(a) # Pml4
    <2>1. PageOf(a) < Pml4
      BY <1>4, <1>5, <1>7
    <2>2. a < heap.base
      <3> HIDE DEF up, hi
      <3> QED BY <1>1, <1>2, <1>3, <1>7
    <2> QED BY <1>5, <2>1, <2>2
  <1> QED BY <1>3, <1>6, <1>7 DEF Protected

\* paging_pml4 lies below the heap.
LEMMA Pml4Below ==
    ASSUME SaneBoot, BootInv, pc \in AfterHeap
    PROVE  /\ (Pml4 + 1) * Radix <= heap.base
           /\ heap.base \in Nat /\ heap.current \in Nat /\ heap.limit \in Nat
  <1>1. heap.base \in Nat /\ mb \in Boots /\ heap.current \in Nat /\ heap.limit \in Nat
    BY DEF BootInv, TypeOK
  <1>2. kernel \in Modules /\ mb.mods[kernel].mod_end <= heap.base
    BY DEF BootInv, KernelOK, IsKernel, Modules, HeapOK
  <1>3. /\ (LowPages + AwdPages) * Radix <= mb.mods[kernel].mod_start
        /\ mb.mods[kernel].mod_start < mb.mods[kernel].mod_end
        /\ mb.mods[kernel].mod_start \in Nat /\ mb.mods[kernel].mod_end \in Nat
    BY <1>1, <1>2, BootFacts DEF Modules
  <1>4. LowPages + AwdPages = Pml4 + 1 /\ (Pml4 + 1) * Radix \in Nat
    BY SizeFacts, PageArith
  <1> DEFINE x == (Pml4 + 1) * Radix
  <1>5. x \in Nat /\ x <= mb.mods[kernel].mod_start
    BY <1>3, <1>4
  <1>6. x <= heap.base
    <2> HIDE DEF x
    <2> QED BY <1>1, <1>2, <1>3, <1>5
  <1> QED BY <1>1, <1>6

-----------------------------------------------------------------------------
(* The steps of awd_main up to paging_commit *)

\* A step that ends the boot and changes nothing else.
LEMMA StopKeeps ==
    ASSUME BootInv, pc' \in {"panicked", "wild"},
           UNCHANGED <<mb, ram, kernel, i, virt_start, size, image, heap, blocks, paging_queue,
                       region, j, level, table, awd_info>>
    PROVE  BootInv'
  <1>1. TypeOK'
    BY DEF BootInv, TypeOK, Modules, Ended
  <1>2. ModulesIntact'
    BY DEF BootInv, ModulesIntact, Modules
  <1>3. /\ pc' \notin BeforeHeap \union AfterHeap \union AfterImage
        /\ pc' \notin {"verify", "multiboot", "analyse", "heap", "image", "load", "queue", "commit"}
        /\ pc' \in Ended /\ i' >= 1
    BY DEF BeforeHeap, AfterHeap, AfterImage, Ended, BootInv, AnalysisOK
  <1>4. (KernelOK /\ AnalysisOK /\ HeapOK /\ Unallocated /\ WalkOK /\ TablesOK)'
    BY <1>3 DEF KernelOK, AnalysisOK, HeapOK, Unallocated, WalkOK, TablesOK
  <1> QED BY <1>1, <1>2, <1>4 DEF BootInv

\* multiboot_verify and awd_cpu_requirements.
LEMMA VerifyKeeps ==
    ASSUME BootInv, Verify
    PROVE  BootInv'
  <1>1. pc = "verify" /\ UNCHANGED <<mb, ram, kernel, i, virt_start, size, image, heap, blocks,
                                     paging_queue, region, j, level, table, awd_info>>
    BY DEF Verify, elfVars, walkVars
  <1>2. CASE pc' = "panicked"
    BY <1>1, <1>2, StopKeeps
  <1>3. CASE pc' = "multiboot"
    <2>1. TypeOK' /\ ModulesIntact'
      BY <1>1, <1>3 DEF BootInv, TypeOK, Modules, ModulesIntact
    <2>2. pc' \notin {"analyse", "heap", "commit", "image", "load", "queue"} \union AfterHeap
          /\ pc' \notin AfterImage /\ pc' \in BeforeHeap /\ pc \in BeforeHeap /\ pc \notin Ended
      BY <1>1, <1>3 DEF AfterHeap, AfterImage, BeforeHeap, Ended
    <2>3. KernelOK' /\ TablesOK'
      BY <2>2 DEF KernelOK, TablesOK
    <2>4. AnalysisOK'
      BY <1>1, <1>3, <2>2 DEF BootInv, AnalysisOK
    <2>5. HeapOK' /\ WalkOK' /\ Unallocated'
      BY <1>1, <1>3, <2>2 DEF BootInv, HeapOK, WalkOK, Unallocated
    <2> QED BY <2>1, <2>3, <2>4, <2>5 DEF BootInv
  <1> QED BY <1>2, <1>3 DEF Verify, Halt

\* multiboot_analyse: the first module tagged as the kernel, if there is one.
LEMMA MultibootKeeps ==
    ASSUME BootInv, multiboot_analyse
    PROVE  BootInv'
  <1> DEFINE tagged == {m \in Modules : mb.mods[m].kernel}
  <1>1. pc = "multiboot" /\ UNCHANGED <<mb, ram, i, virt_start, size, image, heap, blocks,
                                        paging_queue, region, j, level, table, awd_info>>
    BY DEF multiboot_analyse, walkVars
  <1>2. CASE tagged = {}
    <2>1. pc' \in {"panicked", "wild"} /\ kernel' = kernel
      BY <1>2 DEF multiboot_analyse, Halt
    <2> QED BY <1>1, <2>1, StopKeeps
  <1>3. CASE tagged # {}
    <2>1. kernel' = (CHOOSE m \in tagged : \A n \in tagged : m <= n) /\ pc' = "analyse"
      BY <1>3 DEF multiboot_analyse
    <2>2. tagged \in SUBSET Nat /\ mb \in Boots
      BY DEF Modules, BootInv, TypeOK
    <2>3. \E m \in tagged : \A n \in tagged : m <= n
      <3> HIDE DEF tagged
      <3> QED BY <1>3, <2>2, LeastExists
    <2>4. kernel' \in tagged /\ \A n \in tagged : kernel' <= n
      <3> HIDE DEF tagged
      <3> QED BY <2>1, <2>3
    <2>5. IsKernel(mb, kernel') /\ kernel' \in Modules
      BY <2>4 DEF IsKernel, Modules
    <2>6. TypeOK' /\ ModulesIntact'
      BY <1>1, <2>1, <2>5 DEF BootInv, TypeOK, Modules, ModulesIntact
    <2>7. /\ pc' \notin {"verify", "multiboot", "heap", "commit", "image", "load", "queue"} \union AfterHeap
          /\ pc' \notin AfterImage /\ pc' \in BeforeHeap /\ pc \in BeforeHeap /\ pc \notin Ended
      BY <1>1, <2>1 DEF AfterHeap, AfterImage, BeforeHeap, Ended
    <2>8. KernelOK' /\ TablesOK'
      BY <1>1, <2>5, <2>7 DEF KernelOK, TablesOK
    <2>9. AnalysisOK'
      <3>1. i' = 1 /\ virt_start' = None /\ size' = 0 /\ i' - 1 = 0 /\ i' >= 1
        BY <1>1 DEF BootInv, AnalysisOK
      <3>2. 1 .. 0 = {} /\ Aligned(0)
        <4>1. 0 = 0 * Radix
          BY SizeFacts
        <4> QED BY <4>1 DEF Aligned
      <3>3. \A hs : Covers(hs, None, 0, 0)
        BY <3>2 DEF Covers
      <3> QED BY <2>7, <3>1, <3>3 DEF AnalysisOK
    <2>10. HeapOK' /\ WalkOK' /\ Unallocated'
      BY <1>1, <2>1, <2>7 DEF BootInv, HeapOK, WalkOK, Unallocated
    <2> QED BY <2>6, <2>8, <2>9, <2>10 DEF BootInv
  <1> QED BY <1>2, <1>3

\* kernel_analyse, a header at a time.
LEMMA AnalyseKeeps ==
    ASSUME SaneBoot, BootInv, kernel_analyse
    PROVE  BootInv'
  <1>1. pc = "analyse" /\ UNCHANGED <<mb, ram, kernel, image, heap, blocks,
                                      paging_queue, region, j, level, table, awd_info>>
    BY DEF kernel_analyse, walkVars
  <1>2. TypeOK /\ IsKernel(mb, kernel) /\ Covers(Headers, virt_start, size, i - 1) /\ i >= 1
        /\ i \in Nat /\ virt_start \in Nat \union {None} /\ size \in Nat
    BY <1>1 DEF BootInv, KernelOK, AnalysisOK, TypeOK
  <1>3. /\ Headers' = Headers /\ Headers \in Seq(Header) /\ Len(Headers) \in Nat
        /\ \A h \in 1 .. Len(Headers) : Headers[h].load \in BOOLEAN
        /\ mb.mods[kernel].elf => NoGaps(Headers)
    BY <1>1, <1>2, KernelFacts DEF Headers
  <1>4. CASE ~mb.mods[kernel].elf
    BY <1>1, <1>4, StopKeeps DEF kernel_analyse, Halt
  <1>5. ASSUME i' \in Nat, virt_start' \in Nat \union {None}, size' \in Nat, i' >= 1,
               pc' \in {"analyse", "heap"}, pc' = "heap" => mb.mods[kernel].elf,
               pc' = "analyse" => Covers(Headers, virt_start', size', i' - 1),
               pc' = "heap" => Covers(Headers, virt_start', size', Len(Headers)) /\ virt_start' # None
        PROVE  BootInv'
    <2>1. TypeOK' /\ ModulesIntact'
      BY <1>1, <1>5 DEF BootInv, TypeOK, Modules, ModulesIntact
    <2>2. /\ pc' \notin {"verify", "multiboot", "commit", "image", "load", "queue"} \union AfterHeap
          /\ pc' \notin AfterImage /\ pc' \in BeforeHeap /\ pc \in BeforeHeap /\ pc \notin Ended
      BY <1>1, <1>5 DEF AfterHeap, AfterImage, BeforeHeap, Ended
    <2>3. KernelOK'
      BY <1>1, <1>2, <1>5, <2>2 DEF KernelOK
    <2>4. AnalysisOK'
      BY <1>3, <1>5, <2>2 DEF AnalysisOK
    <2>5. HeapOK' /\ WalkOK' /\ Unallocated'
      BY <1>1, <2>2 DEF BootInv, HeapOK, WalkOK, Unallocated
    <2>6. TablesOK'
      BY <2>2 DEF TablesOK
    <2> QED BY <2>1, <2>3, <2>4, <2>5, <2>6 DEF BootInv
  <1>6. CASE mb.mods[kernel].elf /\ i <= Len(Headers)
    <2>1. i' = i + 1 /\ pc' = "analyse" /\ i \in 1 .. Len(Headers) /\ i' - 1 = i /\ i' \in Nat /\ i' >= 1
      BY <1>1, <1>2, <1>3, <1>6 DEF kernel_analyse
    <2>2. CASE Headers[i].load
      <3>1. /\ virt_start' = IF virt_start = None \/ Headers[i].vaddr < virt_start
                             THEN Headers[i].vaddr ELSE virt_start
            /\ size' = PAGE_ROUND_UP(size + Headers[i].memsz)
        BY <1>2, <1>3, <1>6, <2>2 DEF kernel_analyse
      <3>2. Covers(Headers, virt_start', size', i) /\ virt_start' \in Nat /\ size' \in Nat
        BY <1>2, <1>3, <1>6, <2>1, <2>2, <3>1, CoversNext
      <3> QED BY <1>5, <2>1, <3>2
    <2>3. CASE ~Headers[i].load
      <3>1. virt_start' = virt_start /\ size' = size
        BY <1>2, <1>3, <1>6, <2>3 DEF kernel_analyse
      <3>2. Covers(Headers, virt_start, size, i)
        BY <1>2, <2>3, CoversSkip
      <3> QED BY <1>2, <1>5, <2>1, <3>1, <3>2
    <2> QED BY <2>2, <2>3
  <1>7. CASE mb.mods[kernel].elf /\ ~(i <= Len(Headers))
    <2>1. i' = 1 /\ pc' = "heap" /\ virt_start' = virt_start /\ size' = size /\ Len(Headers) <= i - 1
          /\ i' \in Nat /\ i' >= 1
      BY <1>1, <1>2, <1>3, <1>7 DEF kernel_analyse
    <2>2. \A h \in 1 .. Len(Headers) : h \in 1 .. (i - 1)
      BY <1>2, <1>3, <2>1
    <2>3. virt_start # None
      BY <1>2, <1>3, <1>7, <2>2 DEF Covers, NoGaps
    <2>4. Covers(Headers, virt_start, size, Len(Headers))
      <3>1. \E h \in 1 .. Len(Headers) : Headers[h].load
        BY <1>3, <1>7 DEF NoGaps
      <3> QED BY <1>2, <2>2, <2>3, <3>1 DEF Covers
    <2> QED BY <1>2, <1>5, <1>7, <2>1, <2>3, <2>4
  <1> QED BY <1>4, <1>6, <1>7

\* memory_heap_init: the heap begins with the page behind the kernel's module.
LEMMA HeapInitKeeps ==
    ASSUME SaneBoot, BootInv, memory_heap_init
    PROVE  BootInv'
  <1> DEFINE top == mb.mods[kernel].mod_end
             base == PAGE_ROUND_UP(top)
             words == HeapPages * Radix
  <1>1. /\ pc = "heap" /\ pc' = "image"
        /\ UNCHANGED <<mb, ram, kernel, i, virt_start, size, image, blocks,
                       paging_queue, region, j, level, table, awd_info>>
        /\ heap' = [base |-> PAGE_ROUND_UP(base - 1), current |-> PAGE_ROUND_UP(base - 1),
                    limit |-> PAGE_ROUND_UP(base - 1) + words]
    BY DEF memory_heap_init, elfVars, walkVars
  <1>2. TypeOK /\ IsKernel(mb, kernel) /\ mb.mods[kernel].elf
    BY <1>1 DEF BootInv, KernelOK
  <1>3. top \in Nat \ {0} /\ RoomForHeap(mb, kernel)
    BY <1>2, KernelFacts
  <1>4. base \in Nat /\ Aligned(base) /\ PAGE_ROUND_UP(base - 1) = base /\ words \in Nat
    BY <1>3, RoundUp, HeapBase, SizeFacts, PageArith
  <1>5. base + words <= MemPages * Radix /\ \A m \in Modules : mb.mods[m].mod_end <= base
    BY <1>3 DEF RoomForHeap, Modules
  <1>6. Headers' = Headers /\ Modules' = Modules
    BY <1>1 DEF Headers, Modules
  <1> HIDE DEF base, words
  <1>7. heap' = [base |-> base, current |-> base, limit |-> base + words]
    BY <1>1, <1>4
  <1>8. heap'.base = base /\ heap'.current = base /\ heap'.limit = base + words
    BY <1>7
  <1>9. TypeOK'
    <2>1. heap' \in [base: Nat, current: Nat, limit: Nat]
      BY <1>4, <1>7
    <2> QED BY <1>1, <2>1 DEF BootInv, TypeOK, Modules
  <1>10. ModulesIntact'
    BY <1>1 DEF BootInv, ModulesIntact, Modules
  <1>11. /\ pc' \notin {"verify", "multiboot", "analyse", "heap", "load", "queue", "commit"}
         /\ pc' \notin BeforeHeap /\ pc' \notin AfterImage /\ pc' \in AfterHeap
         /\ pc \in BeforeHeap /\ pc \notin Ended
    BY <1>1 DEF AfterHeap, AfterImage, BeforeHeap, Ended
  <1>12. KernelOK'
    BY <1>1, <1>2 DEF KernelOK
  <1>13. AnalysisOK'
    <2>1. Covers(Headers, virt_start, size, Len(Headers)) /\ virt_start # None /\ i >= 1
      BY <1>1 DEF BootInv, AnalysisOK
    <2> QED BY <1>1, <1>6, <1>11, <2>1 DEF AnalysisOK
  <1>14. HeapOK'
    <2>1. Aligned(heap'.base) /\ Aligned(heap'.current) /\ heap'.base <= heap'.current
      BY <1>4, <1>8
    <2>2. /\ heap'.limit = heap'.base + HeapPages * Radix /\ heap'.limit <= MemPages * Radix
          /\ \A m \in Modules' : mb'.mods[m].mod_end <= heap'.base
      BY <1>1, <1>5, <1>6, <1>8 DEF words
    <2>3. heap'.current = heap'.base
      BY <1>8
    <2> QED BY <1>11, <2>1, <2>2, <2>3 DEF HeapOK, Aligned
  <1>15. Unallocated'
    <2>1. \A a \in DOMAIN ram : a >= 0 => ram[a][1] # "entry"
      BY <1>11 DEF BootInv, Unallocated, HeapOK
    <2>2. \A a \in DOMAIN ram : a >= 0
      BY SizeFacts DEF BootInv, TypeOK
    <2>3. ram' = ram
      BY <1>1
    <2> QED BY <2>1, <2>2, <2>3 DEF Unallocated
  <1>16. WalkOK' /\ TablesOK'
    BY <1>1, <1>11 DEF BootInv, WalkOK, TablesOK
  <1> QED BY <1>9, <1>10, <1>12, <1>13, <1>14, <1>15, <1>16 DEF BootInv

\* kernel_load's allocation: the image is the first block of the heap.
LEMMA ImageKeeps ==
    ASSUME SaneBoot, BootInv, AllocateImage
    PROVE  BootInv'
  <1>1. pc = "image" /\ UNCHANGED <<mb, ram, kernel, i, virt_start, size,
                                    paging_queue, region, j, level, table, awd_info>>
    BY DEF AllocateImage, walkVars
  <1>2. CASE ~AllocationFits(size)
    <2>1. pc' = "panicked" /\ UNCHANGED <<heap, blocks, image>>
      BY <1>2 DEF AllocateImage, Halt
    <2> QED BY <1>1, <2>1, StopKeeps
  <1>3. CASE AllocationFits(size)
    <2>1. /\ pc' = "load" /\ image' = PAGE_ROUND_UP(heap.current)
          /\ heap' = [heap EXCEPT !.current = PAGE_ROUND_UP(heap.current) + size]
          /\ blocks' = Append(blocks, [start |-> PAGE_ROUND_UP(heap.current), words |-> size])
          /\ PAGE_ROUND_UP(heap.current) + size < heap.limit
      BY <1>3 DEF AllocateImage, malloc_aligned, AllocationFits
    <2>2. /\ pc' \notin {"verify", "multiboot", "analyse", "heap", "image", "commit"}
          /\ pc' \notin BeforeHeap /\ pc' \in AfterImage /\ pc' \in AfterHeap
          /\ pc \in AfterHeap /\ pc \notin Ended /\ pc \in {"image", "load", "queue"}
      BY <1>1, <2>1 DEF AfterHeap, AfterImage, BeforeHeap, Ended
    <2>3. /\ heap \in [base: Nat, current: Nat, limit: Nat] /\ size \in Nat
          /\ blocks \in Seq([start: Nat, words: Nat])
      BY DEF BootInv, TypeOK
    <2>4. /\ Aligned(heap.base) /\ heap.current = heap.base
          /\ heap.limit = heap.base + HeapPages * Radix /\ heap.limit <= MemPages * Radix
          /\ \A m \in Modules : mb.mods[m].mod_end <= heap.base
      BY <1>1, <2>2 DEF BootInv, HeapOK
    <2>5. Covers(Headers, virt_start, size, Len(Headers)) /\ virt_start # None /\ i >= 1
      BY <2>2 DEF BootInv, AnalysisOK
    <2>6. PAGE_ROUND_UP(heap.current) = heap.base /\ heap.base \in Nat
      BY <2>3, <2>4, RoundAligned
    <2>7. /\ heap' = [heap EXCEPT !.current = heap.base + size]
          /\ heap.base + size \in Nat /\ heap.base + size < heap.limit
      BY <2>1, <2>3, <2>6
    <2>8. /\ heap'.base = heap.base /\ heap'.current = heap.base + size /\ heap'.limit = heap.limit
          /\ heap' \in [base: Nat, current: Nat, limit: Nat]
      BY <2>3, <2>7
    <2>9. TypeOK'
      <3>1. [start |-> heap.base, words |-> size] \in [start: Nat, words: Nat]
        BY <2>3, <2>6
      <3>2. blocks' \in Seq([start: Nat, words: Nat])
        BY <2>1, <2>3, <2>6, <3>1
      <3> QED BY <1>1, <2>1, <2>6, <2>8, <3>2 DEF BootInv, TypeOK, Modules
    <2>10. ModulesIntact'
      BY <1>1 DEF BootInv, ModulesIntact, Modules
    <2>11. Headers' = Headers /\ Modules' = Modules
      BY <1>1 DEF Headers, Modules
    <2>12. KernelOK'
      BY <1>1, <2>2 DEF BootInv, KernelOK
    <2>13. AnalysisOK'
      BY <1>1, <2>2, <2>5, <2>11 DEF AnalysisOK
    <2>14. HeapOK'
      <3>1. Aligned(heap.base + size)
        BY <2>3, <2>4, <2>5, <2>6, RoundSum DEF Covers
      <3>2. heap.base <= heap.base + size
        BY <2>3, <2>6
      <3>3. Aligned(heap'.base) /\ Aligned(heap'.current) /\ heap'.base <= heap'.current
        BY <2>4, <2>8, <3>1, <3>2
      <3>4. /\ heap'.limit = heap'.base + HeapPages * Radix /\ heap'.limit <= MemPages * Radix
            /\ \A m \in Modules' : mb'.mods[m].mod_end <= heap'.base
        BY <1>1, <2>4, <2>8, <2>11
      <3>5. /\ image' = heap'.base /\ image' + size' <= heap'.current /\ heap'.current < heap'.limit
            /\ heap'.current = image' + size'
        BY <1>1, <2>1, <2>6, <2>7, <2>8
      <3> QED BY <2>2, <3>3, <3>4, <3>5 DEF HeapOK, Aligned
    <2>15. Unallocated'
      <3>1. \A a \in DOMAIN ram : a >= heap.base => ram[a][1] # "entry"
        BY <2>2, <2>4 DEF BootInv, Unallocated
      <3>2. \A a \in DOMAIN ram : a \in Nat
        BY SizeFacts DEF BootInv, TypeOK
      <3>3. \A a \in DOMAIN ram : a >= heap.base + size => a >= heap.base
        BY <2>3, <2>6, <3>2
      <3>4. ram' = ram
        BY <1>1
      <3> QED BY <2>8, <3>1, <3>3, <3>4 DEF Unallocated
    <2>16. WalkOK' /\ TablesOK'
      BY <1>1, <2>1, <2>2 DEF BootInv, WalkOK, TablesOK
    <2> QED BY <2>9, <2>10, <2>12, <2>13, <2>14, <2>15, <2>16 DEF BootInv
  <1> QED BY <1>2, <1>3

\* A LOAD section has its place in the image.
LEMMA SectionInImage ==
    ASSUME SaneBoot, BootInv, pc \in AfterImage, NEW h \in Loads
    PROVE  /\ h \in 1 .. Len(Headers) /\ Headers[h].load
           /\ Headers[h].filesz \in Nat /\ Headers[h].memsz \in Nat /\ Headers[h].vaddr \in Nat
           /\ Headers[h].filesz <= Headers[h].memsz /\ virt_start <= Headers[h].vaddr
           /\ image \in Nat /\ size \in Nat /\ virt_start \in Nat
           /\ Destination(Headers[h]) \in Nat /\ image <= Destination(Headers[h])
           /\ Destination(Headers[h]) + Headers[h].memsz <= image + size
  <1>1. pc \in AfterHeap
    BY DEF AfterImage
  <1>2. /\ TypeOK /\ IsKernel(mb, kernel) /\ heap.base \in Nat /\ size \in Nat /\ virt_start \in Nat
        /\ Covers(Headers, virt_start, size, Len(Headers)) /\ virt_start # None /\ image = heap.base
    BY <1>1 DEF BootInv, TypeOK, KernelOK, AnalysisOK, HeapOK
  <1>3. h \in 1 .. Len(Headers) /\ Headers[h].load
    BY DEF Loads
  <1> DEFINE v == Headers[h].vaddr
             n == Headers[h].memsz
             d == Destination(Headers[h])
  <1>4. v \in Nat /\ n \in Nat /\ Headers[h].filesz \in Nat /\ Headers[h].filesz <= n
    BY <1>2, <1>3, KernelFacts
  <1>5. virt_start <= v /\ v + n <= virt_start + size
    BY <1>2, <1>3 DEF Covers
  <1>6. d = image + (v - virt_start)
    BY DEF Destination
  <1> HIDE DEF v, n, d
  <1>7. d \in Nat /\ image <= d /\ d + n <= image + size
    BY <1>2, <1>4, <1>5, <1>6
  <1> QED BY <1>2, <1>3, <1>4, <1>5, <1>7 DEF v, n, d

\* kernel_load's copies: a LOAD section goes into the image, which begins the heap.
LEMMA LoadKeeps ==
    ASSUME SaneBoot, BootInv, kernel_load
    PROVE  BootInv'
  <1>1. pc = "load" /\ UNCHANGED <<mb, kernel, virt_start, size, image, heap, blocks,
                                   paging_queue, region, j, level, table, awd_info>>
    BY DEF kernel_load, walkVars
  <1>2. /\ pc \in AfterHeap /\ pc \in AfterImage /\ pc \notin Ended
        /\ pc \in BeforeHeap \union {"image", "load", "queue"} /\ pc \in {"load", "queue"}
    BY <1>1 DEF AfterHeap, AfterImage, Ended
  <1>3. /\ TypeOK /\ ModulesIntact /\ IsKernel(mb, kernel) /\ mb.mods[kernel].elf
        /\ heap.base \in Nat /\ heap.current \in Nat /\ heap.limit \in Nat
        /\ i \in Nat /\ i >= 1 /\ size \in Nat /\ virt_start \in Nat
        /\ Covers(Headers, virt_start, size, Len(Headers)) /\ virt_start # None
    BY <1>2 DEF BootInv, TypeOK, KernelOK, AnalysisOK
  <1>4. /\ image = heap.base /\ heap.current = image + size /\ heap.current < heap.limit
        /\ heap.limit <= MemPages * Radix /\ heap.base <= heap.current
    BY <1>2 DEF BootInv, HeapOK
  <1>5. DOMAIN ram = 0 .. (MemPages * Radix - 1) /\ MemPages * Radix \in Nat
    BY <1>3, SizeFacts DEF TypeOK
  <1>6. Headers' = Headers /\ Modules' = Modules
    BY <1>1 DEF Headers, Modules
  <1>7. ASSUME i' \in Nat, i' >= 1, pc' \in {"load", "queue"}, DOMAIN ram' = DOMAIN ram,
               \A a \in DOMAIN ram : a < heap.base \/ a >= heap.current => ram'[a] = ram[a]
        PROVE  BootInv'
    <2>1. TypeOK'
      BY <1>1, <1>7 DEF BootInv, TypeOK, Modules
    <2>2. ModulesIntact'
      <3>1. ASSUME NEW a, Protected(a) PROVE ram'[a] = ram[a]
        <4>1. a \in Nat /\ a < heap.base
          BY <1>2, <3>1, ProtectedBelow
        <4> DEFINE top == MemPages * Radix
        <4>2. top \in Nat /\ heap.limit <= top
          BY <1>4, <1>5
        <4> HIDE DEF top
        <4>3. a \in 0 .. (top - 1)
          BY <1>3, <1>4, <4>1, <4>2
        <4> QED BY <1>5, <1>7, <4>1, <4>3 DEF top
      <3> QED BY <1>1, <1>3, <3>1, IntactKept
    <2>3. /\ pc' \notin {"verify", "multiboot", "analyse", "heap", "image", "commit"}
          /\ pc' \notin BeforeHeap /\ pc' \in AfterImage /\ pc' \in AfterHeap /\ pc' \notin Ended
          /\ pc' # "image" /\ pc' \in {"load", "queue"}
      BY <1>7 DEF AfterHeap, AfterImage, BeforeHeap, Ended
    <2>4. KernelOK'
      BY <1>1, <1>3 DEF KernelOK
    <2>5. AnalysisOK'
      BY <1>1, <1>3, <1>6, <1>7, <2>3 DEF AnalysisOK
    <2>6. HeapOK'
      BY <1>1, <1>2, <1>6, <2>3 DEF BootInv, HeapOK
    <2>7. Unallocated'
      BY <1>1, <1>2, <1>7 DEF BootInv, Unallocated
    <2>8. WalkOK' /\ TablesOK'
      BY <1>1, <1>2, <2>3 DEF BootInv, WalkOK, TablesOK
    <2> QED BY <2>1, <2>2, <2>4, <2>5, <2>6, <2>7, <2>8 DEF BootInv
  <1>8. Len(Headers) \in Nat /\ \A h \in 1 .. Len(Headers) :
           /\ Headers[h].load \in BOOLEAN /\ Headers[h].vaddr \in Nat /\ Headers[h].memsz \in Nat
           /\ Headers[h].filesz \in Nat /\ Headers[h].filesz <= Headers[h].memsz
    BY <1>3, KernelFacts
  <1>9. CASE i <= Len(Headers)
    <2>1. i' = i + 1 /\ pc' = "load" /\ i \in 1 .. Len(Headers) /\ i' \in Nat /\ i' >= 1
      BY <1>1, <1>3, <1>8, <1>9 DEF kernel_load
    <2>2. CASE ~Headers[i].load
      <3>1. ram' = ram
        BY <1>8, <1>9, <2>1, <2>2 DEF kernel_load
      <3> QED BY <1>7, <2>1, <3>1
    <2>3. CASE Headers[i].load
      <3> DEFINE d == Destination(Headers[i])
                 f == Headers[i].filesz
                 from(a) == ram[mb.mods[kernel].mod_start + Headers[i].offset + (a - d)]
      <3>1. ram' = [a \in DOMAIN ram |-> IF d <= a /\ a < d + f THEN from(a) ELSE ram[a]]
        BY <1>8, <1>9, <2>1, <2>3 DEF kernel_load
      <3>2. i \in Loads
        BY <2>1, <2>3 DEF Loads
      <3>3. f \in Nat /\ d \in Nat /\ heap.base <= d /\ d + f <= heap.current
        <4> DEFINE n == Headers[i].memsz
        <4>1. /\ f \in Nat /\ n \in Nat /\ f <= n /\ d \in Nat /\ heap.base <= d
              /\ d + n <= heap.current
          BY <1>2, <1>4, <3>2, SectionInImage
        <4> HIDE DEF d, f, n
        <4> QED BY <1>3, <4>1
      <3> HIDE DEF d, f, from
      <3>4. ASSUME NEW a \in DOMAIN ram, a < heap.base \/ a >= heap.current PROVE ram'[a] = ram[a]
        <4>1. a \in Nat
          BY <1>5
        <4>2. ~(d <= a /\ a < d + f)
          BY <1>3, <3>3, <3>4, <4>1
        <4> QED BY <3>1, <4>2
      <3>5. DOMAIN ram' = DOMAIN ram
        BY <3>1
      <3> QED BY <1>7, <2>1, <3>4, <3>5
    <2> QED BY <2>2, <2>3
  <1>10. CASE ~(i <= Len(Headers))
    <2>1. i' = 1 /\ pc' = "queue" /\ ram' = ram
      BY <1>3, <1>8, <1>10 DEF kernel_load
    <2> QED BY <1>7, <2>1
  <1> QED BY <1>9, <1>10

-----------------------------------------------------------------------------
(* paging_init and paging_commit *)

\* Steps of paging_commit: what they leave alone, and where they may write.
LEMMA CommitKeeps ==
    ASSUME SaneBoot, BootInv, pc \in {"queue", "commit"}, pc' = "commit", TypeOK',
           UNCHANGED <<mb, kernel, i, virt_start, size, image>>,
           heap'.base = heap.base, heap'.limit = heap.limit,
           heap.current <= heap'.current, heap'.current < heap.limit, Aligned(heap'.current),
           \A a \in DOMAIN ram :
              PageOf(a) = Pml4 \/ (heap.base <= a /\ a < heap'.current) \/ ram'[a] = ram[a],
           TablesOK'
    PROVE  BootInv'
  <1>1. /\ pc \in AfterHeap /\ pc \in AfterImage /\ pc \notin Ended
        /\ pc' \notin {"verify", "multiboot", "analyse", "heap", "image", "load", "queue"}
        /\ pc' \notin BeforeHeap /\ pc' \in AfterImage /\ pc' \in AfterHeap /\ pc' \notin Ended
    BY DEF AfterHeap, AfterImage, BeforeHeap, Ended
  <1>2. /\ heap.base \in Nat /\ heap.current \in Nat /\ heap.limit \in Nat /\ size \in Nat
        /\ heap'.current \in Nat /\ heap.base <= heap.current /\ heap.limit <= MemPages * Radix
        /\ Pml4 * Radix + Radix <= heap.base /\ Pml4 * Radix \in Nat
    <2>1. /\ heap.base \in Nat /\ heap.current \in Nat /\ heap.limit \in Nat /\ size \in Nat
          /\ heap'.current \in Nat
      BY DEF BootInv, TypeOK
    <2>2. heap.base <= heap.current /\ heap.limit <= MemPages * Radix
      BY <1>1 DEF BootInv, HeapOK
    <2>3. (Pml4 + 1) * Radix <= heap.base
      BY <1>1, Pml4Below
    <2>4. (Pml4 + 1) * Radix = Pml4 * Radix + Radix /\ Pml4 * Radix \in Nat
      <3>1. (Pml4 + 1) * Radix = Pml4 * Radix + 1 * Radix /\ 1 * Radix = Radix
        BY SizeFacts, PageArith
      <3> QED BY <3>1, SizeFacts, PageArith
    <2> QED BY <2>1, <2>2, <2>3, <2>4
  <1>3. DOMAIN ram = 0 .. (MemPages * Radix - 1) /\ MemPages * Radix \in Nat /\ DOMAIN ram' = DOMAIN ram
    BY SizeFacts DEF BootInv, TypeOK
  <1>4. Headers' = Headers /\ Modules' = Modules
    BY DEF Headers, Modules
  <1> DEFINE top == MemPages * Radix
  <1>5. ModulesIntact'
    <2>1. ASSUME NEW a, Protected(a) PROVE ram'[a] = ram[a]
      <3>1. a \in Nat /\ a < heap.base /\ PageOf(a) # Pml4
        BY <1>1, <2>1, ProtectedBelow
      <3>2. top \in Nat /\ heap.limit <= top
        BY <1>2, <1>3
      <3> HIDE DEF top
      <3>3. a \in 0 .. (top - 1) /\ ~(heap.base <= a)
        BY <1>2, <3>1, <3>2
      <3> QED BY <1>3, <3>1, <3>3 DEF top
    <2> QED BY <2>1, IntactKept DEF BootInv
  <1>6. KernelOK'
    BY <1>1 DEF BootInv, KernelOK
  <1>7. AnalysisOK'
    BY <1>1, <1>4 DEF BootInv, AnalysisOK
  <1>8. HeapOK'
    <2>1. image = heap.base /\ image + size <= heap.current
      BY <1>1 DEF BootInv, HeapOK
    <2>2. /\ image' = heap'.base /\ image' + size' <= heap'.current /\ heap'.current < heap'.limit
          /\ heap'.base <= heap'.current
      BY <1>2, <2>1
    <2>3. /\ Aligned(heap'.base) /\ heap'.limit = heap'.base + HeapPages * Radix
          /\ heap'.limit <= MemPages * Radix /\ \A m \in Modules' : mb'.mods[m].mod_end <= heap'.base
      BY <1>1, <1>4 DEF BootInv, HeapOK
    <2> QED BY <1>1, <2>2, <2>3 DEF HeapOK, Aligned
  <1>9. Unallocated'
    <2>1. ASSUME NEW a \in DOMAIN ram, a >= heap'.current PROVE ram'[a][1] # "entry"
      <3> DEFINE low == Pml4 * Radix
      <3>1. a \in Nat /\ a >= heap.current /\ low + Radix <= a
        <4>1. a \in Nat
          BY <1>3
        <4>2. low \in Nat /\ low + Radix <= heap.base /\ Radix \in Nat
          BY <1>2, SizeFacts
        <4> HIDE DEF low
        <4> QED BY <1>2, <2>1, <4>1, <4>2
      <3>2. PageOf(a) # Pml4
        <4>1. (Pml4 + 1) * Radix = Pml4 * Radix + 1 * Radix /\ 1 * Radix = Radix /\ Pml4 + 1 \in Nat
          BY SizeFacts, PageArith
        <4>2. Pml4 + 1 <= PageOf(a) /\ PageOf(a) \in Nat
          BY <3>1, <4>1, PageOfFacts
        <4> QED BY <4>2, SizeFacts
      <3>3. ~(a < heap'.current)
        BY <1>2, <2>1, <3>1
      <3>4. ram'[a] = ram[a]
        BY <3>2, <3>3
      <3> QED BY <1>1, <3>1, <3>4 DEF BootInv, Unallocated
    <2> QED BY <1>3, <2>1 DEF Unallocated
  <1>10. WalkOK'
    BY <1>1 DEF WalkOK
  <1> QED BY <1>5, <1>6, <1>7, <1>8, <1>9, <1>10 DEF BootInv

\* paging_init: five regions are queued, and paging_pml4, cleared, is the only table.
LEMMA PagingInitKeeps ==
    ASSUME SaneBoot, BootInv, paging_init
    PROVE  BootInv'
  <1>1. /\ pc = "queue" /\ pc' = "commit" /\ paging_queue' = Queued
        /\ ram' = [a \in DOMAIN ram |-> IF PageOf(a) = Pml4 THEN Zero ELSE ram[a]]
        /\ UNCHANGED <<mb, kernel, i, virt_start, size, image, heap, blocks,
                       region, j, level, table, awd_info>>
    BY DEF paging_init, elfVars, walkVars
  <1>2. pc \in AfterHeap /\ pc \in AfterImage /\ pc \in {"load", "queue"}
        /\ pc \in BeforeHeap \union {"image", "load", "queue"} /\ pc \in {"heap"} \union AfterHeap
    BY <1>1 DEF AfterHeap, AfterImage
  <1>3. /\ heap.base \in Nat /\ heap.current \in Nat /\ heap.limit \in Nat
        /\ size \in Nat /\ virt_start \in Nat
    BY <1>2 DEF BootInv, TypeOK, AnalysisOK
  <1>4. /\ image = heap.base /\ heap.current = image + size /\ heap.current < heap.limit
        /\ heap.limit = heap.base + HeapPages * Radix /\ Aligned(heap.current)
        /\ heap.base <= heap.current
    BY <1>2 DEF BootInv, HeapOK
  <1>5. region = 1 /\ level = Levels - 1 /\ table = Pml4
    BY <1>2 DEF BootInv, WalkOK
  <1>6. DOMAIN ram = 0 .. (MemPages * Radix - 1) /\ DOMAIN ram' = DOMAIN ram
    BY <1>1 DEF BootInv, TypeOK
  <1>7. TypeOK'
    <2> DEFINE low == LowPages * Radix
               awd == AwdPages * Radix
               hp == HeapPages * Radix
               win == WindowPages * Radix
               vmb == VMB * Radix
               R == [phys: Nat, virt: Nat, words: Nat]
    <2>1. /\ low \in Nat /\ awd \in Nat /\ hp \in Nat /\ win \in Nat /\ vmb \in Nat
          /\ low >= Radix /\ awd >= Radix /\ Radix \in Nat /\ Radix >= 2
      <3>1. 1 * Radix = Radix /\ 1 * Radix <= low /\ 1 * Radix <= awd
        BY SizeFacts, PageArith
      <3> QED BY <3>1, SizeFacts, PageArith
    <2>2. heap.current < heap.base + hp
      BY <1>4
    <2>3. paging_queue' = << Mapping(0, 0, low - 1), Mapping(low, low, awd - 1),
                             Mapping(heap.base, heap.base, hp - 1), Mapping(0, vmb, win),
                             Mapping(image, virt_start, size) >>
      BY <1>1 DEF Queued
    <2> HIDE DEF low, awd, hp, win, vmb
    <2>4. low - 1 \in Nat /\ awd - 1 \in Nat /\ hp - 1 \in Nat
      BY <1>3, <1>4, <2>1, <2>2
    <2>5. /\ Mapping(0, 0, low - 1) \in R /\ Mapping(low, low, awd - 1) \in R
          /\ Mapping(heap.base, heap.base, hp - 1) \in R /\ Mapping(0, vmb, win) \in R
          /\ Mapping(image, virt_start, size) \in R
      BY <1>3, <1>4, <2>1, <2>4 DEF Mapping
    <2> HIDE DEF R
    <2>6. paging_queue' \in Seq(R) /\ Len(paging_queue') = 5
      BY <2>3, <2>5
    <2>7. Len(paging_queue') <= QueueMax /\ region' \in 1 .. (Len(paging_queue') + 1)
      BY <1>1, <1>5, <2>6 DEF SaneBoot
    <2> QED BY <1>1, <1>6, <2>6, <2>7 DEF BootInv, TypeOK, Modules, R
  <1>8. TablePages' = {Pml4}
    <2>1. TablePages' = {p \in 0 .. (MemPages - 1) :
                            p = Pml4 \/ (image + size <= p * Radix /\ p * Radix < heap.current)}
      BY <1>1 DEF TablePages
    <2>2. ASSUME NEW p \in 0 .. (MemPages - 1)
          PROVE  ~(image + size <= p * Radix /\ p * Radix < heap.current)
      <3> DEFINE x == p * Radix
      <3>1. x \in Nat
        BY SizeFacts, PageArith
      <3> HIDE DEF x
      <3>2. ~(image + size <= x /\ x < heap.current)
        BY <1>3, <1>4, <3>1
      <3> QED BY <3>2 DEF x
    <2>3. Pml4 \in 0 .. (MemPages - 1)
      BY SizeFacts
    <2> QED BY <2>1, <2>2, <2>3
  <1>9. TablesOK'
    <2> DEFINE L == [p \in {Pml4} |-> Levels - 1]
    <2>1. L[Pml4] = Levels - 1 /\ L \in [{Pml4} -> 0 .. (Levels - 1)]
      BY DEF Levels
    <2> HIDE DEF L
    <2>2. \A s \in 0 .. (Radix - 1) : ram'[Pml4 * Radix + s][1] # "entry"
      <3> TAKE s \in 0 .. (Radix - 1)
      <3>1. PageOf(Pml4 * Radix + s) = Pml4 /\ Pml4 * Radix + s \in DOMAIN ram
        BY <1>6, SizeFacts, PageWords
      <3>2. ram'[Pml4 * Radix + s] = Zero
        BY <1>1, <3>1
      <3> QED BY <3>2, Tags
    <2>3. table' = Pml4 /\ level' = Levels - 1
      BY <1>1, <1>5
    <2>4. Leveled(L)'
      BY <1>8, <2>1, <2>2, <2>3 DEF Leveled
    <2> QED BY <2>4 DEF TablesOK
  <1>10. \A a \in DOMAIN ram : PageOf(a) = Pml4 \/ ram'[a] = ram[a]
    BY <1>1
  <1>11. heap' = heap /\ heap.current <= heap.current
    BY <1>1, <1>3
  <1> QED BY <1>1, <1>4, <1>7, <1>9, <1>10, <1>11, CommitKeeps DEF Aligned

\* Where a walk of paging_map_page is: at an entry of a table, which lies below what
\* the heap has left, in paging_pml4 or behind the image.
LEMMA SlotFacts ==
    ASSUME SaneBoot, BootInv, pc = "commit", InRegion
    PROVE  \E s \in 0 .. (Radix - 1) :
              /\ Slot = table * Radix + s /\ Slot \in DOMAIN ram /\ PageOf(Slot) = table
              /\ table \in TablePages /\ table \in Nat
              /\ PageOf(Slot) = Pml4 \/ (heap.base <= Slot /\ Slot < heap.current)
              /\ Slot < heap.current
  <1>1. /\ region \in 1 .. (Len(paging_queue) + 1) /\ j \in Nat /\ level \in 0 .. (Levels - 1)
        /\ table \in 0 .. (MemPages - 1) /\ paging_queue \in Seq([phys: Nat, virt: Nat, words: Nat])
        /\ DOMAIN ram = 0 .. (MemPages * Radix - 1) /\ size \in Nat
        /\ heap.base \in Nat /\ heap.current \in Nat
    BY DEF BootInv, TypeOK
  <1>2. region \in 1 .. Len(paging_queue)
    BY <1>1 DEF InRegion
  <1>3. paging_queue[region] \in [phys: Nat, virt: Nat, words: Nat]
    <2> DEFINE R == [phys: Nat, virt: Nat, words: Nat]
    <2>1. paging_queue \in Seq(R)
      BY <1>1
    <2> HIDE DEF R
    <2>2. paging_queue[region] \in R
      BY <1>2, <2>1
    <2> QED BY <2>2 DEF R
  <1>4. paging_queue[region].virt \in Nat /\ j \in Nat
    BY <1>1, <1>3
  <1>5. VirtPage \in Nat
    <2> DEFINE v == paging_queue[region].virt
    <2>1. v \in Nat
      BY <1>4
    <2> HIDE DEF v
    <2>2. v + j \in Nat
      BY <1>4, <2>1
    <2>3. paging_queue[region].virt + j \in Nat
      BY <2>2 DEF v
    <2> QED BY <2>3, PageOfFacts DEF VirtPage
  <1> DEFINE s == Index(VirtPage, level)
  <1>6. s \in 0 .. (Radix - 1)
    BY <1>1, <1>5, IndexType
  <1>7. Slot = table * Radix + s
    BY DEF Slot
  <1> HIDE DEF s
  <1>8. /\ table \in Nat /\ table < MemPages
    BY <1>1, SizeFacts
  <1>9. /\ PageOf(Slot) = table /\ Slot \in DOMAIN ram /\ Slot \in Nat
        /\ \A q \in Nat : table < q => Slot < q * Radix
        /\ \A q \in Nat : q <= table => q * Radix <= Slot
    BY <1>1, <1>6, <1>7, <1>8, PageWords
  <1>10. table \in TablePages
    BY DEF BootInv, TablesOK, Leveled
  <1>11. /\ image = heap.base /\ Aligned(heap.current)
         /\ (Pml4 + 1) * Radix <= heap.base /\ heap.base <= heap.current
    <2>1. pc \in AfterHeap /\ pc \in AfterImage
      BY DEF AfterHeap, AfterImage
    <2> QED BY <2>1, Pml4Below DEF BootInv, HeapOK
  <1>12. CASE table = Pml4
    <2> DEFINE x == (Pml4 + 1) * Radix
    <2>1. table < Pml4 + 1 /\ Pml4 + 1 \in Nat
      BY <1>12, SizeFacts
    <2>2. Slot < x /\ x <= heap.base /\ x \in Nat
      BY <1>9, <1>11, <2>1, PageArith
    <2> HIDE DEF x
    <2>3. Slot < heap.current
      BY <1>1, <1>9, <1>11, <2>2
    <2> QED BY <1>6, <1>7, <1>8, <1>9, <1>10, <1>12, <2>3
  <1>13. CASE table # Pml4
    <2>1. image + size <= table * Radix /\ table * Radix < heap.current
      BY <1>10, <1>13 DEF TablePages
    <2>2. PICK q \in Nat : heap.current = q * Radix
      BY <1>11 DEF Aligned
    <2>3. table < q
      BY <1>8, <2>1, <2>2, PageArith
    <2>4. Slot < heap.current
      BY <1>9, <2>2, <2>3
    <2> DEFINE x == table * Radix
    <2>5. x \in Nat /\ x <= Slot /\ image + size <= x
      BY <1>8, <1>9, <2>1, PageArith
    <2> HIDE DEF x
    <2>6. heap.base <= Slot
      BY <1>1, <1>9, <1>11, <2>5
    <2> QED BY <1>6, <1>7, <1>8, <1>9, <1>10, <2>4, <2>6
  <1> QED BY <1>12, <1>13

\* A write to the slot of a walk changes that entry of that table only.
LEMMA SlotUnique ==
    ASSUME SaneBoot, BootInv, pc = "commit", InRegion, NEW e, ram' = [ram EXCEPT ![Slot] = e]
    PROVE  /\ DOMAIN ram' = DOMAIN ram /\ ram'[Slot] = e
           /\ \A a \in DOMAIN ram :
                 PageOf(a) = Pml4 \/ (heap.base <= a /\ a < heap.current) \/ ram'[a] = ram[a]
           /\ \A p \in 0 .. (MemPages - 1), s \in 0 .. (Radix - 1) :
                 /\ p * Radix + s \in DOMAIN ram
                 /\ p * Radix + s # Slot => ram'[p * Radix + s] = ram[p * Radix + s]
                 /\ p * Radix + s = Slot => p = table
  <1>1. /\ Slot \in DOMAIN ram /\ PageOf(Slot) = table
        /\ PageOf(Slot) = Pml4 \/ (heap.base <= Slot /\ Slot < heap.current)
    BY SlotFacts
  <1>2. DOMAIN ram' = DOMAIN ram /\ ram'[Slot] = e /\ \A a \in DOMAIN ram : a # Slot => ram'[a] = ram[a]
    BY <1>1
  <1>3. DOMAIN ram = 0 .. (MemPages * Radix - 1)
    BY DEF BootInv, TypeOK
  <1>4. ASSUME NEW p \in 0 .. (MemPages - 1), NEW s \in 0 .. (Radix - 1)
        PROVE  p * Radix + s \in DOMAIN ram /\ PageOf(p * Radix + s) = p
    <2>1. p \in Nat /\ p < MemPages
      BY SizeFacts
    <2> QED BY <1>3, <2>1, PageWords
  <1> QED BY <1>1, <1>2, <1>4

\* Create takes the page n at the heap's end, which no table uses yet.
LEMMA CreateFacts ==
    ASSUME SaneBoot, BootInv, CreateTable, AllocationFits(Radix)
    PROVE  \E n \in 0 .. (MemPages - 1) :
              /\ heap.current = n * Radix
              /\ pc' = "commit" /\ table' = n /\ level' = level - 1
              /\ ram' = [ram EXCEPT ![Slot] = Entry(n)] /\ ram'[Slot] = Entry(n)
              /\ heap'.base = heap.base /\ heap'.limit = heap.limit
              /\ heap'.current = (n + 1) * Radix /\ heap'.current = heap.current + Radix
              /\ heap'.current < heap.limit
              /\ blocks' = Append(blocks, [start |-> heap.current, words |-> Radix])
              /\ TablePages' = TablePages \union {n} /\ n \notin TablePages
              /\ TypeOK'
  <1>0. /\ pc = "commit" /\ InRegion /\ level > 0
        /\ UNCHANGED <<mb, kernel, i, virt_start, size, image, paging_queue, region, j, awd_info>>
    BY DEF CreateTable, elfVars
  <1> DEFINE cur == heap.current
             n == PageOf(cur)
  <1>1. /\ heap.base \in Nat /\ cur \in Nat /\ heap.limit \in Nat /\ size \in Nat
        /\ heap \in [base: Nat, current: Nat, limit: Nat]
        /\ blocks \in Seq([start: Nat, words: Nat]) /\ level \in 0 .. (Levels - 1)
    BY DEF BootInv, TypeOK
  <1>2. /\ Aligned(cur) /\ heap.base <= cur /\ heap.limit <= MemPages * Radix
        /\ image = heap.base /\ image + size <= cur
    <2>1. pc \in AfterHeap /\ pc \in AfterImage
      BY <1>0 DEF AfterHeap, AfterImage
    <2> QED BY <2>1 DEF BootInv, HeapOK
  <1>3. PAGE_ROUND_UP(cur) = cur
    BY <1>1, <1>2, RoundAligned
  <1>4. /\ pc' = "commit" /\ ram' = [ram EXCEPT ![Slot] = Entry(n)] /\ table' = n /\ level' = level - 1
        /\ heap' = [heap EXCEPT !.current = cur + Radix] /\ cur + Radix < heap.limit
        /\ blocks' = Append(blocks, [start |-> cur, words |-> Radix])
    BY <1>0, <1>3 DEF CreateTable, malloc_aligned, AllocationFits
  <1>5. n \in Nat /\ cur = n * Radix /\ cur + Radix = (n + 1) * Radix
    <2>1. PICK p \in Nat : cur = p * Radix
      BY <1>2 DEF Aligned
    <2>2. 0 \in 0 .. (Radix - 1) /\ \A x \in Nat : x + 0 = x
      BY SizeFacts
    <2>3. PageOf(p * Radix + 0) = p /\ p * Radix + 0 = p * Radix
      BY <2>2, PageWords, PageArith
    <2>4. n = p
      BY <2>1, <2>3
    <2>5. (p + 1) * Radix = p * Radix + 1 * Radix /\ 1 * Radix = Radix
      BY PageArith, SizeFacts
    <2> QED BY <2>1, <2>4, <2>5
  <1>6. n < MemPages /\ n \in 0 .. (MemPages - 1)
    <2> DEFINE top == MemPages * Radix
    <2>1. top \in Nat /\ heap.limit <= top /\ Radix \in Nat
      BY <1>2, SizeFacts
    <2>2. cur < top
      <3> HIDE DEF cur, top
      <3> QED BY <1>1, <1>4, <2>1
    <2>3. n < MemPages
      BY <1>5, <2>2, PageArith, SizeFacts
    <2> QED BY <1>5, <2>3, SizeFacts
  <1> HIDE DEF cur, n
  <1>7. heap' = [base |-> heap.base, current |-> cur + Radix, limit |-> heap.limit]
    BY <1>1, <1>4
  <1>8. heap'.base = heap.base /\ heap'.current = cur + Radix /\ heap'.limit = heap.limit
    BY <1>7
  <1>9. cur + Radix \in Nat /\ cur <= cur + Radix /\ Radix \in Nat
    BY <1>1, SizeFacts
  <1>10. /\ DOMAIN ram' = DOMAIN ram /\ ram'[Slot] = Entry(n)
         /\ \A a \in DOMAIN ram :
               PageOf(a) = Pml4 \/ (heap.base <= a /\ a < cur) \/ ram'[a] = ram[a]
         /\ \A p \in 0 .. (MemPages - 1), s \in 0 .. (Radix - 1) :
               /\ p * Radix + s \in DOMAIN ram
               /\ p * Radix + s # Slot => ram'[p * Radix + s] = ram[p * Radix + s]
               /\ p * Radix + s = Slot => p = table
    BY <1>0, <1>4, SlotUnique DEF cur
  <1>11. TypeOK'
    <2>1. heap' \in [base: Nat, current: Nat, limit: Nat]
      BY <1>1, <1>7, <1>9
    <2>2. [start |-> cur, words |-> Radix] \in [start: Nat, words: Nat]
      BY <1>1, <1>9
    <2>3. blocks' \in Seq([start: Nat, words: Nat])
      BY <1>1, <1>4, <2>2
    <2>4. level' \in 0 .. (Levels - 1)
      BY <1>0, <1>1, <1>4 DEF Levels
    <2> QED BY <1>0, <1>4, <1>6, <1>10, <2>1, <2>3, <2>4 DEF BootInv, TypeOK, Modules
  <1>12. TablePages' = TablePages \union {n} /\ n \notin TablePages
    <2>1. \A p \in 0 .. (MemPages - 1) : p * Radix < cur + Radix <=> p * Radix < cur \/ p = n
      <3> TAKE p \in 0 .. (MemPages - 1)
      <3> DEFINE x == p * Radix
      <3>1. p \in Nat /\ x \in Nat
        BY SizeFacts, PageArith
      <3>2. (p < n <=> x < cur) /\ (p < n + 1 <=> x < cur + Radix)
        <4>1. n + 1 \in Nat
          BY <1>5
        <4>2. /\ p < n => p * Radix + Radix <= n * Radix
              /\ p < n + 1 => p * Radix + Radix <= (n + 1) * Radix
              /\ p * Radix < n * Radix => p < n
              /\ p * Radix < (n + 1) * Radix => p < n + 1
          BY <1>5, <3>1, <4>1, PageArith
        <4>3. /\ p < n => x + Radix <= cur
              /\ p < n + 1 => x + Radix <= cur + Radix
              /\ x < cur => p < n
              /\ x < cur + Radix => p < n + 1
          BY <1>5, <4>2
        <4>4. Radix >= 2
          BY SizeFacts
        <4> HIDE DEF x
        <4> QED BY <1>1, <1>9, <3>1, <4>3, <4>4
      <3> HIDE DEF x
      <3>3. x < cur + Radix <=> x < cur \/ p = n
        BY <1>5, <3>1, <3>2
      <3> QED BY <3>3 DEF x
    <2>2. TablePages = {p \in 0 .. (MemPages - 1) :
                           p = Pml4 \/ (image + size <= p * Radix /\ p * Radix < cur)}
      BY DEF TablePages, cur
    <2>3. TablePages' = {p \in 0 .. (MemPages - 1) :
                           p = Pml4 \/ (image + size <= p * Radix /\ p * Radix < cur + Radix)}
      BY <1>0, <1>8 DEF TablePages
    <2>4. image + size <= n * Radix /\ ~(n * Radix < cur)
      BY <1>1, <1>2, <1>5
    <2>5. n # Pml4
      <3>1. (Pml4 + 1) * Radix <= heap.base
        BY <1>0, Pml4Below DEF AfterHeap
      <3> DEFINE x == (Pml4 + 1) * Radix
      <3>2. x \in Nat /\ x <= heap.base
        BY <3>1, SizeFacts, PageArith
      <3>3. x <= cur
        <4> HIDE DEF x
        <4> QED BY <1>1, <1>2, <3>2
      <3>4. Pml4 + 1 <= n
        BY <1>5, <3>3, SizeFacts, PageArith
      <3> QED BY <1>5, <3>4, SizeFacts
    <2> QED BY <1>6, <2>1, <2>2, <2>3, <2>4, <2>5
  <1> QED BY <1>4, <1>5, <1>6, <1>8, <1>10, <1>11, <1>12 DEF cur

\* Create: the new table is the page at the heap's end, which holds no entry yet.
LEMMA CreateKeeps ==
    ASSUME SaneBoot, BootInv, CreateTable
    PROVE  BootInv'
  <1>1. /\ pc = "commit" /\ InRegion /\ level > 0
        /\ UNCHANGED <<mb, kernel, i, virt_start, size, image, paging_queue, region, j, awd_info>>
    BY DEF CreateTable, elfVars
  <1>2. CASE ~AllocationFits(Radix)
    <2>1. pc' = "panicked" /\ UNCHANGED <<ram, heap, blocks, table, level>>
      BY <1>2 DEF CreateTable, Halt
    <2> QED BY <1>1, <2>1, StopKeeps
  <1>3. CASE AllocationFits(Radix)
    <2> DEFINE cur == heap.current
    <2>1. PICK n \in 0 .. (MemPages - 1) :
              /\ cur = n * Radix
              /\ pc' = "commit" /\ table' = n /\ level' = level - 1
              /\ ram' = [ram EXCEPT ![Slot] = Entry(n)] /\ ram'[Slot] = Entry(n)
              /\ heap'.base = heap.base /\ heap'.limit = heap.limit
              /\ heap'.current = (n + 1) * Radix /\ heap'.current = cur + Radix
              /\ heap'.current < heap.limit
              /\ TablePages' = TablePages \union {n} /\ n \notin TablePages
              /\ TypeOK'
      BY <1>3, CreateFacts
    <2>2. cur \in Nat /\ n \in Nat /\ n + 1 \in Nat /\ level \in 0 .. (Levels - 1)
      BY <2>1, SizeFacts DEF BootInv, TypeOK
    <2>3. cur + Radix \in Nat /\ cur <= cur + Radix
      <3> HIDE DEF cur
      <3> QED BY <2>2, SizeFacts
    <2> HIDE DEF cur
    <2>4. /\ DOMAIN ram' = DOMAIN ram
          /\ \A a \in DOMAIN ram :
                PageOf(a) = Pml4 \/ (heap.base <= a /\ a < cur) \/ ram'[a] = ram[a]
          /\ \A p \in 0 .. (MemPages - 1), s \in 0 .. (Radix - 1) :
                /\ p * Radix + s \in DOMAIN ram
                /\ p * Radix + s # Slot => ram'[p * Radix + s] = ram[p * Radix + s]
                /\ p * Radix + s = Slot => p = table
      BY <1>1, <2>1, SlotUnique DEF cur
    <2>5. TablesOK'
      <3>1. PICK L : Leveled(L)
        BY <1>1 DEF BootInv, TablesOK
      <3>2. PICK K : K = [p \in TablePages \union {n} |-> IF p = n THEN level - 1 ELSE L[p]]
        OBVIOUS
      <3>3. /\ L \in [TablePages -> 0 .. (Levels - 1)] /\ L[Pml4] = Levels - 1
            /\ table \in TablePages /\ L[table] = level /\ Pml4 \in TablePages
            /\ TablePages \subseteq 0 .. (MemPages - 1)
        BY <3>1, SizeFacts DEF Leveled, TablePages
      <3>4. level - 1 \in 0 .. (Levels - 1)
        BY <1>1, <2>2 DEF Levels
      <3>5. /\ DOMAIN K = TablePages \union {n} /\ K[n] = level - 1
            /\ \A p \in TablePages : K[p] = L[p]
            /\ K \in [TablePages \union {n} -> 0 .. (Levels - 1)]
        BY <2>1, <3>3, <3>4, <3>2
      <3>6. ASSUME NEW p \in TablePages \union {n}, NEW s \in 0 .. (Radix - 1),
                   K[p] > 0, ram'[p * Radix + s][1] = "entry"
            PROVE  /\ ram'[p * Radix + s][2] \in TablePages \union {n}
                   /\ K[ram'[p * Radix + s][2]] = K[p] - 1
        <4>1. p \in 0 .. (MemPages - 1)
          BY <2>1, <3>3
        <4>2. CASE p * Radix + s = Slot
          <5>1. p = table /\ ram'[p * Radix + s] = Entry(n)
            BY <2>1, <2>4, <4>1, <4>2
          <5>2. ram'[p * Radix + s][2] = n
            BY <5>1, Tags
          <5> QED BY <3>3, <3>5, <5>1, <5>2
        <4>3. CASE p * Radix + s # Slot
          <5>1. ram'[p * Radix + s] = ram[p * Radix + s] /\ p * Radix + s \in DOMAIN ram
            BY <2>4, <4>1, <4>3
          <5>2. CASE p = n
            <6>1. n * Radix + s \in Nat /\ n <= n /\ n * Radix <= n * Radix + s
              BY <2>1, <2>2, PageWords
            <6>2. n * Radix + s >= cur
              BY <2>1, <2>2, <6>1
            <6>3. pc \notin Ended
              BY <1>1 DEF Ended
            <6>4. ram[n * Radix + s][1] # "entry"
              BY <5>1, <5>2, <6>2, <6>3 DEF BootInv, Unallocated, cur
            <6> QED BY <3>6, <5>1, <5>2, <6>4
          <5>3. CASE p # n
            <6>1. p \in TablePages /\ K[p] = L[p]
              BY <3>5, <5>3
            <6>2. ram[p * Radix + s][2] \in TablePages /\ L[ram[p * Radix + s][2]] = L[p] - 1
              BY <3>1, <3>6, <5>1, <6>1 DEF Leveled
            <6> QED BY <3>5, <5>1, <6>1, <6>2
          <5> QED BY <5>2, <5>3
        <4> QED BY <4>2, <4>3
      <3>7. K[Pml4] = Levels - 1 /\ table' \in TablePages \union {n} /\ K[table'] = level'
        BY <2>1, <3>3, <3>5
      <3>8. Leveled(K)'
        BY <2>1, <3>5, <3>6, <3>7 DEF Leveled
      <3> QED BY <3>8 DEF TablesOK
    <2>6. Aligned(cur + Radix)
      <3>1. n + 1 \in Nat
        BY <2>1, <2>2
      <3> QED BY <2>1, <2>2, <3>1 DEF Aligned
    <2>7. heap.current <= heap'.current /\ heap'.current < heap.limit /\ Aligned(heap'.current)
      BY <2>1, <2>3, <2>6 DEF cur
    <2>8. \A a \in DOMAIN ram :
              PageOf(a) = Pml4 \/ (heap.base <= a /\ a < heap'.current) \/ ram'[a] = ram[a]
      <3> TAKE a \in DOMAIN ram
      <3>1. a \in Nat
        BY SizeFacts DEF BootInv, TypeOK
      <3>2. a < cur => a < heap'.current
        BY <2>2, <2>1, <2>3, <3>1
      <3> QED BY <2>4, <3>2
    <2> QED BY <1>1, <2>1, <2>5, <2>7, <2>8, CommitKeeps
  <1> QED BY <1>2, <1>3

\* Steps of paging_commit that allocate nothing.
LEMMA NoAllocation ==
    ASSUME SaneBoot, BootInv, pc = "commit", pc' = "commit", TypeOK', TablesOK',
           UNCHANGED <<mb, kernel, i, virt_start, size, image, heap>>,
           \A a \in DOMAIN ram :
              PageOf(a) = Pml4 \/ (heap.base <= a /\ a < heap.current) \/ ram'[a] = ram[a]
    PROVE  BootInv'
  <1>1. heap.current < heap.limit /\ Aligned(heap.current) /\ heap.current <= heap.current
    <2>1. pc \in AfterHeap /\ pc \in AfterImage /\ heap.current \in Nat
      BY DEF AfterHeap, AfterImage, BootInv, TypeOK
    <2> QED BY <2>1 DEF BootInv, HeapOK
  <1>2. Aligned(heap'.current)
    BY <1>1 DEF Aligned
  <1> QED BY <1>1, <1>2, CommitKeeps

\* Load: an entry of a table that is not of the last level names a table.
LEMMA LoadTableKeeps ==
    ASSUME SaneBoot, BootInv, LoadTable
    PROVE  BootInv'
  <1>1. /\ pc = "commit" /\ InRegion /\ level > 0
        /\ UNCHANGED <<mb, ram, kernel, i, virt_start, size, image, heap, blocks,
                       paging_queue, region, j, awd_info>>
    BY DEF LoadTable, elfVars
  <1>2. CASE ram[Slot][1] # "entry"
    <2>1. pc' = "wild" /\ UNCHANGED <<table, level>>
      BY <1>2 DEF LoadTable
    <2> QED BY <1>1, <2>1, StopKeeps
  <1>3. CASE ram[Slot][1] = "entry"
    <2>1. pc' = "commit" /\ table' = ram[Slot][2] /\ level' = level - 1
      BY <1>1, <1>3 DEF LoadTable
    <2>2. PICK L : Leveled(L)
      BY <1>1 DEF BootInv, TablesOK
    <2>3. PICK s \in 0 .. (Radix - 1) : Slot = table * Radix + s
      BY <1>1, SlotFacts
    <2>4. level \in 0 .. (Levels - 1)
      BY DEF BootInv, TypeOK
    <2>5. ram[Slot][2] \in TablePages /\ L[ram[Slot][2]] = level - 1
      BY <1>1, <1>3, <2>2, <2>3 DEF Leveled
    <2>6. TypeOK'
      <3>1. table' \in 0 .. (MemPages - 1)
        BY <2>1, <2>5 DEF TablePages
      <3>2. level' \in 0 .. (Levels - 1)
        BY <1>1, <2>1, <2>4 DEF Levels
      <3> QED BY <1>1, <2>1, <3>1, <3>2 DEF BootInv, TypeOK, Modules
    <2>7. TablePages' = TablePages
      BY <1>1 DEF TablePages
    <2>8. Leveled(L)'
      BY <1>1, <2>1, <2>2, <2>5, <2>7 DEF Leveled
    <2>9. TablesOK'
      BY <2>8 DEF TablesOK
    <2> QED BY <1>1, <2>1, <2>6, <2>9, NoAllocation
  <1> QED BY <1>2, <1>3

\* The entry of a page is written into a table of the last level.
LEMMA StoreKeeps ==
    ASSUME SaneBoot, BootInv, StorePage
    PROVE  BootInv'
  <1>1. /\ pc = "commit" /\ pc' = "commit" /\ InRegion /\ level = 0 /\ j' = j + Radix
        /\ level' = Levels - 1 /\ table' = Pml4
        /\ UNCHANGED <<mb, kernel, i, virt_start, size, image, heap, blocks,
                       paging_queue, region, awd_info>>
    BY DEF StorePage, elfVars
  <1>2. PICK e : ram' = [ram EXCEPT ![Slot] = e]
    BY DEF StorePage
  <1>3. /\ DOMAIN ram' = DOMAIN ram
        /\ \A a \in DOMAIN ram :
              PageOf(a) = Pml4 \/ (heap.base <= a /\ a < heap.current) \/ ram'[a] = ram[a]
        /\ \A p \in 0 .. (MemPages - 1), s \in 0 .. (Radix - 1) :
              p # table => ram'[p * Radix + s] = ram[p * Radix + s]
    BY <1>1, <1>2, SlotUnique
  <1>4. PICK L : Leveled(L)
    BY <1>1 DEF BootInv, TablesOK
  <1>5. TypeOK'
    <2>1. j' \in Nat /\ level' \in 0 .. (Levels - 1) /\ table' \in 0 .. (MemPages - 1)
      BY <1>1, SizeFacts DEF BootInv, TypeOK, Levels
    <2> QED BY <1>1, <1>3, <2>1 DEF BootInv, TypeOK, Modules
  <1>6. TablePages' = TablePages /\ TablePages \subseteq 0 .. (MemPages - 1) /\ Pml4 \in TablePages
    BY <1>1, SizeFacts DEF TablePages
  <1>7. \A p \in TablePages : L[p] > 0 => p # table
    BY <1>1, <1>4 DEF Leveled
  <1>8. Leveled(L)'
    BY <1>1, <1>3, <1>4, <1>6, <1>7 DEF Leveled
  <1>9. TablesOK'
    BY <1>8 DEF TablesOK
  <1> QED BY <1>1, <1>3, <1>5, <1>9, NoAllocation

\* The next region of the queue.
LEMMA RegionKeeps ==
    ASSUME SaneBoot, BootInv, NextRegion
    PROVE  BootInv'
  <1>1. /\ pc = "commit" /\ pc' = "commit" /\ region <= Len(paging_queue)
        /\ region' = region + 1 /\ j' = 0
        /\ UNCHANGED <<mb, ram, kernel, i, virt_start, size, image, heap, blocks,
                       paging_queue, level, table, awd_info>>
    BY DEF NextRegion, elfVars
  <1>2. region' \in 1 .. (Len(paging_queue) + 1)
    <2>1. Len(paging_queue) \in Nat /\ region \in 1 .. (Len(paging_queue) + 1)
      BY DEF BootInv, TypeOK
    <2> QED BY <1>1, <2>1
  <1>3. TypeOK'
    BY <1>1, <1>2 DEF BootInv, TypeOK, Modules
  <1>4. TablePages' = TablePages
    BY <1>1 DEF TablePages
  <1>5. TablesOK'
    <2>1. PICK L : Leveled(L)
      BY <1>1 DEF BootInv, TablesOK
    <2>2. Leveled(L)'
      BY <1>1, <1>4, <2>1 DEF Leveled
    <2> QED BY <2>2 DEF TablesOK
  <1> QED BY <1>1, <1>3, <1>5, NoAllocation

\* Lobo is entered.
LEMMA EnterKeeps ==
    ASSUME BootInv, kernel_enter
    PROVE  BootInv'
  <1>1. /\ pc = "commit" /\ pc' = "entered" /\ awd_info' = Handover
        /\ UNCHANGED <<mb, ram, kernel, i, virt_start, size, image, heap, blocks,
                       paging_queue, region, j, level, table>>
    BY DEF kernel_enter, elfVars, walkVars
  <1>2. /\ pc \in AfterHeap /\ pc \in AfterImage /\ pc' \in AfterHeap /\ pc' \in AfterImage
        /\ pc' \notin {"verify", "multiboot", "analyse", "heap", "image", "load", "queue", "commit"}
        /\ pc' \notin BeforeHeap /\ pc' \in Ended
    BY <1>1 DEF AfterHeap, AfterImage, BeforeHeap, Ended
  <1>3. TypeOK' /\ ModulesIntact'
    <2>1. awd_info' \in [ptr_malloc_current: Nat \union {None}, ptr_malloc_limit: Nat \union {None}]
      BY <1>1 DEF BootInv, TypeOK, Handover
    <2> QED BY <1>1, <1>2, <2>1 DEF BootInv, TypeOK, ModulesIntact, Modules
  <1>4. Headers' = Headers /\ Modules' = Modules
    BY <1>1 DEF Headers, Modules
  <1>5. KernelOK'
    BY <1>1, <1>2 DEF BootInv, KernelOK
  <1>6. AnalysisOK'
    BY <1>1, <1>2, <1>4 DEF BootInv, AnalysisOK
  <1>7. HeapOK'
    BY <1>1, <1>2, <1>4 DEF BootInv, HeapOK
  <1>8. Unallocated' /\ WalkOK' /\ TablesOK'
    BY <1>2 DEF Unallocated, WalkOK, TablesOK
  <1> QED BY <1>3, <1>5, <1>6, <1>7, <1>8 DEF BootInv

-----------------------------------------------------------------------------
(* Every boot: types, modules and AWD's code *)

\* Every step of awd_main keeps the invariant.
LEMMA BootStep ==
    ASSUME SaneBoot, BootInv, [Next]_vars
    PROVE  BootInv'
  <1>1. CASE UNCHANGED vars
    <2>1. UNCHANGED <<mb, pc, ram, kernel, i, virt_start, size, image, heap, blocks,
                      paging_queue, region, j, level, table, awd_info>>
      BY <1>1 DEF vars
    <2>2. Headers' = Headers /\ Modules' = Modules /\ TablePages' = TablePages
      BY <2>1 DEF Headers, Modules, TablePages
    <2>3. TypeOK' /\ ModulesIntact' /\ KernelOK'
      BY <2>1, <2>2 DEF BootInv, TypeOK, ModulesIntact, KernelOK
    <2>4. AnalysisOK' /\ HeapOK'
      BY <2>1, <2>2 DEF BootInv, AnalysisOK, HeapOK
    <2>5. Unallocated' /\ WalkOK'
      BY <2>1 DEF BootInv, Unallocated, WalkOK
    <2>6. TablesOK'
      BY <2>1, <2>2 DEF BootInv, TablesOK, Leveled
    <2> QED BY <2>3, <2>4, <2>5, <2>6 DEF BootInv
  <1>2. CASE Next
    BY <1>2, VerifyKeeps, MultibootKeeps, AnalyseKeeps, HeapInitKeeps, ImageKeeps, LoadKeeps,
       PagingInitKeeps, CreateKeeps, LoadTableKeeps, StoreKeeps, RegionKeeps, EnterKeeps
       DEF Next, paging_commit
  <1> QED BY <1>1, <1>2

\* The invariant holds of every boot that GRUB and the linker lay out as SaneBoot says.
THEOREM BootInvariant ==
    ASSUME SaneBoot
    PROVE  Spec => []BootInv
  <1>1. Init => BootInv
    BY InitBoot
  <1>2. BootInv /\ [Next]_vars => BootInv'
    BY BootStep
  <1> QED BY <1>1, <1>2, PTL DEF Spec

\* The loader's variables have their types: in particular paging_map_page never walks
\* to a page that memory does not have, and paging_queue_mapping, which does not check,
\* never passes PAGING_QUEUE_MAX.
THEOREM TypeCorrect ==
    ASSUME SaneBoot
    PROVE  Spec => []TypeOK
  <1>1. BootInv => TypeOK
    BY DEF BootInv
  <1> QED BY <1>1, BootInvariant, PTL

\* However far the boot gets, and whatever memory held before it, AWD writes neither
\* into a module nor into its own code: what kernel_load copies stays inside the image,
\* and paging_map_page writes only into tables that paging_pml4 leads to.
THEOREM FilesIntact ==
    ASSUME SaneBoot
    PROVE  Spec => []ModulesIntact
  <1>1. BootInv => ModulesIntact
    BY DEF BootInv
  <1> QED BY <1>1, BootInvariant, PTL

-----------------------------------------------------------------------------
(* What the tables map: what is assumed *)

\* Where the heap begins when the kernel is module m.
HeapBehind(m) == PAGE_ROUND_UP(m.mod_end)

\* Memory is 0 where AWD places its heap: malloc_aligned clears nothing.
CleanHeap(m) ==
    \A a \in HeapBehind(m) .. (HeapBehind(m) + HeapPages * Radix - 1) : PageOf(a) \notin DirtyPages

\* The heap lies in the memory that is mapped at KERNEL_VMB.
InWindow(m) == HeapBehind(m) + HeapPages * Radix <= WindowPages * Radix

\* The kernel is linked behind that window, and an image the heap can hold ends with
\* the address space.
InSpace(m) ==
    \A h \in 1 .. Len(m.headers) : m.headers[h].load =>
        /\ (VMB + WindowPages) * Radix <= m.headers[h].vaddr
        /\ m.headers[h].vaddr + HeapPages * Radix <= Power[Levels] * Radix

\* The memory AWD identity maps lies below KERNEL_VMB, and GRUB and the linker do as above.
TidyBoot ==
    /\ SaneBoot /\ WindowPages <= VMB
    /\ \A b \in Boots : \A k \in 1 .. Len(b.mods) :
          IsKernel(b, k) /\ b.mods[k].elf =>
              CleanHeap(b.mods[k]) /\ InWindow(b.mods[k]) /\ InSpace(b.mods[k])

\* No LOAD section lies over another.
SectionsApart(hs) ==
    \A g, h \in 1 .. Len(hs) : hs[g].load /\ hs[h].load /\ g # h =>
        \/ hs[g].vaddr + hs[g].memsz <= hs[h].vaddr
        \/ hs[h].vaddr + hs[h].memsz <= hs[g].vaddr

\* The module holds what its headers say it does.
FileHolds(m) ==
    \A h \in 1 .. Len(m.headers) : m.headers[h].load =>
        m.mod_start + m.headers[h].offset + m.headers[h].filesz <= m.mod_end

\* The kernel is a well-formed file.
LinkedBoot ==
    /\ TidyBoot
    /\ \A b \in Boots : \A k \in 1 .. Len(b.mods) :
          IsKernel(b, k) /\ b.mods[k].elf =>
              SectionsApart(b.mods[k].headers) /\ FileHolds(b.mods[k])

-----------------------------------------------------------------------------
(* What the tables map: the inductive invariant *)

Digits == 0 .. (Radix - 1)
Space == 0 .. (Power[Levels] - 1)

\* The digits of page v above its l lowest: the pages before the range that a table of
\* level l - 1 on the walk for v maps, counted in such ranges.
Prefix(v, l) == v \div Power[l]

\* What is left of the heap is 0, and lies in the window.
MemoryOK ==
    /\ pc \in BeforeHeap =>
          \A k \in Modules : IsKernel(mb, k) /\ mb.mods[k].elf =>
              LET base == HeapBehind(mb.mods[k])
              IN  \A a \in base .. (base + HeapPages * Radix - 1) : ram[a] = Zero
    /\ pc \in AfterHeap =>
          /\ \A a \in heap.current .. (heap.limit - 1) : ram[a] = Zero
          /\ heap.limit <= WindowPages * Radix

\* The image goes behind the window, and into the address space.
SpaceOK ==
    virt_start # None =>
        /\ (VMB + WindowPages) * Radix <= virt_start
        /\ virt_start + HeapPages * Radix <= Power[Levels] * Radix

\* What paging_commit has to do, and that it has done it when Lobo is entered.
QueueOK ==
    /\ pc \in BeforeHeap \union {"image", "load", "queue"} => j = 0
    /\ pc \in {"commit", "entered"} => paging_queue = Queued
    /\ Aligned(j)
    /\ pc = "entered" => region > Len(paging_queue) /\ awd_info = Handover

\* What malloc_aligned returned ends where the rest of the heap begins.
BlocksOK ==
    /\ pc \in BeforeHeap \union {"image"} => blocks = <<>>
    /\ pc \in AfterHeap =>
          \A b \in 1 .. Len(blocks) : blocks[b].start + blocks[b].words <= heap.current

\* All but what the tables map.
PlacesOK == MemoryOK /\ SpaceOK /\ QueueOK /\ BlocksOK

\* The pages T hold tables with levels L and prefixes P in mem: an entry is 0 or, in a
\* table that is not of the last level, names the table whose prefix has the entry's
\* index as its next digit; no two tables have the same level and prefix, and each but
\* paging_pml4 is named by an entry.
Tree(mem, T, L, P) ==
    /\ L \in [T -> 0 .. (Levels - 1)] /\ P \in [T -> Nat]
    /\ Pml4 \in T /\ L[Pml4] = Levels - 1 /\ P[Pml4] = 0
    /\ \A p, q \in T : L[p] = L[q] /\ P[p] = P[q] => p = q
    /\ \A p \in T, s \in Digits :
          \/ mem[p * Radix + s] = Zero
          \/ \E x \in Nat :
                /\ mem[p * Radix + s] = Entry(x)
                /\ L[p] > 0 => x \in T /\ L[x] = L[p] - 1 /\ P[x] = P[p] * Radix + s
    /\ \A q \in T \ {Pml4} : \E p \in T, s \in Digits : L[p] > 0 /\ mem[p * Radix + s] = Entry(q)

\* A table of the last level maps page v to x.
Leaf(mem, T, L, P, v, x) ==
    \E p \in T :
        L[p] = 0 /\ P[p] = Prefix(v, 1) /\ mem[p * Radix + Index(v, 0)] = Entry(x)

\* paging_commit, at offset o of region r of queue q, has mapped page v to x.
Done(q, r, o, v, x) ==
    \E n \in 1 .. Len(q), m \in Nat :
        /\ m * Radix < q[n].words /\ (n < r \/ (n = r /\ m * Radix < o))
        /\ v = PageOf(q[n].virt + m * Radix) /\ x = PageOf(q[n].phys + m * Radix)

\* The walk of paging_map_page is at the table that the digits of its page lead to.
WalkAt(L, P) ==
    /\ table \in TablePages /\ L[table] = level
    /\ InRegion => P[table] = Prefix(VirtPage, level + 1)
    /\ ~InRegion => level = Levels - 1

\* The tables map what paging_commit has done, and nothing else.
MapsOK ==
    pc \in {"commit", "entered"} =>
        \E L, P :
            /\ Tree(ram, TablePages, L, P)
            /\ pc = "commit" => WalkAt(L, P)
            /\ \A v \in Space, x \in Nat :
                  Leaf(ram, TablePages, L, P, v, x) <=> Done(paging_queue, region, j, v, x)

\* The inductive invariant of a boot into clean memory.
MapInv == BootInv /\ PlacesOK /\ MapsOK

\* Where section h of headers hs goes in the image at base of a kernel linked at vs.
Place(hs, h, base, vs) == base + (hs[h].vaddr - vs)

\* What the file has of section h goes over address a.
Over(hs, h, base, vs, a) ==
    Place(hs, h, base, vs) <= a /\ a < Place(hs, h, base, vs) + hs[h].filesz

\* In mem the image, sz words at base, has the sections C from module k's file, and 0 elsewhere.
Placed(mem, C, hs, k, base, vs, sz) ==
    /\ \A h \in C : \A o \in 0 .. (hs[h].filesz - 1) :
          mem[Place(hs, h, base, vs) + o] = File(k, hs[h].offset + o)
    /\ \A a \in base .. (base + sz - 1) :
          (\A h \in C : ~Over(hs, h, base, vs, a)) => mem[a] = Zero

\* The sections that kernel_load has come to.
Copied == {h \in Loads : pc = "load" => h < i}

\* The sections that kernel_load has copied are in the image, and the rest of it is 0.
ImageOK ==
    /\ pc \in {"heap", "image"} => i = 1
    /\ pc \in AfterImage => Placed(ram, Copied, Headers, kernel, image, virt_start, size)

\* The inductive invariant of a boot of a well-formed kernel into clean memory.
ImageInv == MapInv /\ ImageOK

-----------------------------------------------------------------------------
(* Addresses and their digits *)

\* A quotient is the number whose multiples enclose the dividend.
LEMMA DivUnique ==
    ASSUME NEW a \in Nat, NEW b \in Nat \ {0}, NEW q \in Nat, q * b <= a, a < (q + 1) * b
    PROVE  a \div b = q
  OBVIOUS

\* What division and remainder of numbers are.
LEMMA DivMod ==
    ASSUME NEW a \in Nat, NEW b \in Nat \ {0}
    PROVE  /\ a \div b \in Nat /\ a % b \in 0 .. (b - 1)
           /\ a = (a \div b) * b + (a % b)
  OBVIOUS

\* Dividing twice is dividing by the product.
LEMMA DivDiv ==
    ASSUME NEW a \in Nat, NEW b \in Nat \ {0}, NEW c \in Nat \ {0}
    PROVE  a \div (c * b) = (a \div b) \div c
  <1> DEFINE p == a \div b
             q == p \div c
             x == a % b
             y == p % c
  <1>1. p \in Nat /\ x \in 0 .. (b - 1) /\ a = p * b + x
    BY DivMod
  <1>2. q \in Nat /\ y \in 0 .. (c - 1) /\ p = q * c + y
    BY <1>1, DivMod
  <1>3. c * b \in Nat \ {0}
    OBVIOUS
  <1> HIDE DEF p, q, x, y
  <1>4. (y * b) + x < c * b /\ (y * b) + x >= 0
    <2>1. (y + 1) * b <= c * b
      BY <1>2
    <2>2. (y + 1) * b = (y * b) + b
      BY <1>2
    <2> QED BY <2>1, <2>2, <1>1, <1>2
  <1>5. a = (q * (c * b)) + ((y * b) + x)
    <2>1. p * b = (q * c) * b + y * b
      BY <1>2
    <2>2. (q * c) * b = q * (c * b)
      BY <1>2
    <2> QED BY <2>1, <2>2, <1>1, <1>2
  <1>6. q * (c * b) <= a /\ a < (q + 1) * (c * b)
    <2>1. (q + 1) * (c * b) = q * (c * b) + c * b
      BY <1>2
    <2> DEFINE A == q * (c * b)
               B == c * b
               r == (y * b) + x
    <2>2. A \in Nat /\ B \in Nat /\ r \in Int
      BY <1>1, <1>2
    <2>3. a = A + r /\ r >= 0 /\ r < B
      BY <1>4, <1>5
    <2> HIDE DEF A, B, r
    <2>4. A <= a /\ a < A + B
      BY <2>2, <2>3
    <2> QED BY <2>1, <2>4 DEF A, B
  <1>7. a \div (c * b) = q
    BY <1>2, <1>3, <1>6, DivUnique
  <1> QED BY <1>7 DEF q, p

\* A number has one last digit and one prefix before it.
LEMMA DigitUnique ==
    ASSUME NEW p \in Nat, NEW q \in Nat, NEW s \in Digits, NEW t \in Digits,
           p * Radix + s = q * Radix + t
    PROVE  p = q /\ s = t
  <1>1. PageOf(p * Radix + s) = p /\ PageOf(q * Radix + t) = q
    BY PageWords DEF Digits
  <1>2. p = q
    BY <1>1
  <1> DEFINE a == p * Radix
  <1>3. a \in Nat /\ s \in Nat /\ t \in Nat /\ a + s = a + t
    BY <1>2, PageArith, SizeFacts DEF Digits
  <1> HIDE DEF a
  <1>4. s = t
    BY <1>3
  <1> QED BY <1>2, <1>4

\* The walk for page v goes down by its digits: its prefix of all levels is 0, each
\* prefix is the one above extended by the index, and the last is the page itself.
LEMMA PrefixFacts ==
    ASSUME NEW v \in Nat
    PROVE  /\ \A l \in 0 .. Levels : Prefix(v, l) \in Nat
           /\ \A l \in 0 .. (Levels - 1) :
                 /\ Index(v, l) \in Digits
                 /\ Prefix(v, l) = Prefix(v, l + 1) * Radix + Index(v, l)
           /\ Prefix(v, 0) = v
           /\ v \in Space => Prefix(v, Levels) = 0
  <1>0. Levels = 4 /\ Radix \in Nat \ {0}
    BY SizeFacts DEF Levels
  <1>1. \A l \in 0 .. Levels : Power[l] \in Nat \ {0}
    BY PowerType
  <1>2. \A l \in 0 .. Levels : Prefix(v, l) \in Nat
    <2>1. \A b \in Nat \ {0} : v \div b \in Nat
      OBVIOUS
    <2> QED BY <1>1, <2>1 DEF Prefix
  <1>3. ASSUME NEW l \in 0 .. (Levels - 1)
        PROVE  /\ Index(v, l) \in Digits
               /\ Prefix(v, l) = Prefix(v, l + 1) * Radix + Index(v, l)
    <2>1. l \in 0 .. Levels /\ Power[l + 1] = Radix * Power[l]
      <3>1. l = 0 \/ l = 1 \/ l = 2 \/ l = 3
        BY <1>0
      <3> QED BY <1>0, <3>1, PowerDef
    <2> DEFINE b == Power[l]
               p == v \div b
    <2>2. b \in Nat \ {0} /\ p \in Nat
      BY <1>1, <1>2, <2>1 DEF Prefix
    <2>3. Prefix(v, l + 1) = p \div Radix
      <3>1. v \div (Radix * b) = (v \div b) \div Radix
        BY <1>0, <2>2, DivDiv
      <3> QED BY <2>1, <3>1 DEF Prefix
    <2>4. p = (p \div Radix) * Radix + (p % Radix) /\ p % Radix \in 0 .. (Radix - 1)
      BY <1>0, <2>2, DivMod
    <2> QED BY <2>3, <2>4 DEF Prefix, Index, Digits
  <1>4. Prefix(v, 0) = v
    <2>1. v \div 1 = v
      OBVIOUS
    <2> QED BY <2>1, PowerDef DEF Prefix
  <1>5. v \in Space => Prefix(v, Levels) = 0
    <2>1. ASSUME NEW b \in Nat \ {0}, v < b PROVE v \div b = 0
      BY <2>1, DivUnique
    <2>2. Power[Levels] \in Nat \ {0}
      BY <1>0, <1>1
    <2> QED BY <2>1, <2>2 DEF Prefix, Space
  <1> QED BY <1>2, <1>3, <1>4, <1>5

\* A page is its prefix of the last level and its index there.
LEMMA PageByDigits ==
    ASSUME NEW v \in Nat, NEW w \in Nat, Prefix(v, 1) = Prefix(w, 1), Index(v, 0) = Index(w, 0)
    PROVE  v = w
  <1>1. 0 \in 0 .. (Levels - 1) /\ 0 + 1 = 1
    BY DEF Levels
  <1>2. /\ Prefix(v, 0) = Prefix(v, 0 + 1) * Radix + Index(v, 0) /\ Prefix(v, 0) = v
        /\ Prefix(w, 0) = Prefix(w, 0 + 1) * Radix + Index(w, 0) /\ Prefix(w, 0) = w
    BY <1>1, PrefixFacts
  <1> QED BY <1>1, <1>2

-----------------------------------------------------------------------------
(* The tables and the walks through them *)

\* The walk for page v, level by level.
LEMMA TranslationIs ==
    ASSUME NEW v
    PROVE  Translation(v) = Follow(Follow(Follow(Follow(Pml4, v, 3), v, 2), v, 1), v, 0)
  <1> DEFINE t3 == Follow(Pml4, v, 3)
             t2 == Follow(t3, v, 2)
             t1 == Follow(t2, v, 1)
             t0 == Follow(t1, v, 0)
             f == [l \in 0 .. Levels |-> IF l = 4 THEN Pml4 ELSE IF l = 3 THEN t3
                                         ELSE IF l = 2 THEN t2 ELSE IF l = 1 THEN t1 ELSE t0]
  <1>1. Levels = 4 /\ 0 .. Levels = {0, 1, 2, 3, 4}
    BY DEF Levels
  <1>2. f = [l \in 0 .. Levels |-> IF l = Levels THEN Pml4 ELSE Follow(f[l + 1], v, l)]
    <2>1. /\ f[0] = t0 /\ f[1] = t1 /\ f[2] = t2 /\ f[3] = t3 /\ f[4] = Pml4
          /\ f = [l \in 0 .. Levels |-> f[l]]
      BY <1>1
    <2>2. \A l \in 0 .. Levels : f[l] = IF l = Levels THEN Pml4 ELSE Follow(f[l + 1], v, l)
      <3>1. 0 + 1 = 1 /\ 1 + 1 = 2 /\ 2 + 1 = 3 /\ 3 + 1 = 4
        OBVIOUS
      <3> HIDE DEF f
      <3> QED BY <1>1, <2>1, <3>1
    <2> HIDE DEF f
    <2> QED BY <2>1, <2>2
  <1> DEFINE g == CHOOSE t : t = [l \in 0 .. Levels |-> IF l = Levels THEN Pml4 ELSE Follow(t[l + 1], v, l)]
  <1>3. Translation(v) = g[0]
    BY DEF Translation
  <1>4. g = [l \in 0 .. Levels |-> IF l = Levels THEN Pml4 ELSE Follow(g[l + 1], v, l)]
    <2> HIDE DEF f
    <2> QED BY <1>2
  <1> HIDE DEF g
  <1>5. /\ g[4] = Pml4 /\ g[3] = Follow(g[4], v, 3) /\ g[2] = Follow(g[3], v, 2)
        /\ g[1] = Follow(g[2], v, 1) /\ g[0] = Follow(g[1], v, 0)
    BY <1>1, <1>4
  <1> QED BY <1>3, <1>5

\* Words that are entries, and words that are not.
LEMMA EntryFacts ==
    /\ \A x, y : Entry(x) = Entry(y) => x = y
    /\ \A x : Entry(x) # Zero /\ Entry(x)[1] = "entry" /\ Entry(x)[2] = x
    /\ Zero[1] # "entry"
  BY Tags DEF Entry, Zero

\* A table that is not paging_pml4 is named by the table one level up whose prefix and
\* index make its own; paging_pml4 alone has the highest level.
LEMMA NamedBy ==
    ASSUME NEW mem, NEW T \in SUBSET Nat, NEW L, NEW P, Tree(mem, T, L, P), NEW q \in T
    PROVE  /\ q # Pml4 =>
                 \E p \in T, s \in Digits :
                    /\ L[p] > 0 /\ mem[p * Radix + s] = Entry(q)
                    /\ L[q] = L[p] - 1 /\ P[q] = P[p] * Radix + s
           /\ L[q] = Levels - 1 => q = Pml4
  <1>1. q # Pml4 => \E p \in T, s \in Digits : L[p] > 0 /\ mem[p * Radix + s] = Entry(q)
    BY DEF Tree
  <1>2. \A p \in T, s \in Digits : L[p] > 0 /\ mem[p * Radix + s] = Entry(q) =>
            L[q] = L[p] - 1 /\ P[q] = P[p] * Radix + s
    BY EntryFacts DEF Tree
  <1>3. \A p \in T : L[p] \in 0 .. (Levels - 1)
    BY DEF Tree
  <1>4. \A p \in T : L[p] - 1 # Levels - 1
    BY <1>3 DEF Levels
  <1> QED BY <1>1, <1>2, <1>4

\* A table of level l - 1 on the walk for v is where the walk comes to.
LEMMA WalkDown ==
    ASSUME NEW T \in SUBSET Nat, NEW L, NEW P, Tree(ram, T, L, P), NEW v \in Nat,
           NEW l \in 1 .. (Levels - 1), NEW w \in T \union {None},
           w # None => L[w] = l /\ P[w] = Prefix(v, l + 1),
           \A q \in T : L[q] = l /\ P[q] = Prefix(v, l + 1) => q = w
    PROVE  LET u == Follow(w, v, l)
           IN  /\ u \in T \union {None}
               /\ u # None => L[u] = l - 1 /\ P[u] = Prefix(v, l)
               /\ \A q \in T : L[q] = l - 1 /\ P[q] = Prefix(v, l) => q = u
  <1> DEFINE u == Follow(w, v, l)
             s == Index(v, l)
  <1>1. /\ l \in 0 .. (Levels - 1) /\ l > 0 /\ l \in 0 .. Levels /\ l + 1 \in 0 .. Levels /\ l \in Nat
        /\ l - 1 # Levels - 1
    BY DEF Levels
  <1>2. /\ s \in Digits /\ Prefix(v, l) = Prefix(v, l + 1) * Radix + s
        /\ Prefix(v, l) \in Nat /\ Prefix(v, l + 1) \in Nat
    BY <1>1, PrefixFacts
  <1> HIDE DEF s
  <1>3. u = IF w = None \/ ram[w * Radix + s][1] # "entry" THEN None ELSE ram[w * Radix + s][2]
    BY DEF Follow, s
  <1>4. None \notin Nat
    BY DEF None
  <1> HIDE DEF u
  <1>5. u \in T \union {None} /\ (u # None => L[u] = l - 1 /\ P[u] = Prefix(v, l))
    <2>1. CASE u = None
      BY <2>1
    <2>2. CASE u # None
      <3>1. w \in T /\ L[w] = l /\ P[w] = Prefix(v, l + 1) /\ ram[w * Radix + s][1] = "entry"
            /\ u = ram[w * Radix + s][2]
        BY <1>3, <2>2
      <3>2. PICK x \in Nat : /\ ram[w * Radix + s] = Entry(x)
                             /\ x \in T /\ L[x] = L[w] - 1 /\ P[x] = P[w] * Radix + s
        BY <1>1, <1>2, <3>1, EntryFacts DEF Tree
      <3>3. u = x
        BY <3>1, <3>2, EntryFacts
      <3> QED BY <1>2, <3>1, <3>2, <3>3
    <2> QED BY <2>1, <2>2
  <1>6. ASSUME NEW q \in T, L[q] = l - 1, P[q] = Prefix(v, l) PROVE q = u
    <2>1. q # Pml4
      BY <1>1, <1>6 DEF Tree
    <2>2. PICK p \in T, t \in Digits :
              /\ L[p] > 0 /\ ram[p * Radix + t] = Entry(q)
              /\ L[q] = L[p] - 1 /\ P[q] = P[p] * Radix + t
      BY <2>1, NamedBy
    <2>3. L[p] \in Nat /\ P[p] \in Nat
      BY DEF Tree, Levels
    <2>4. L[p] = l
      BY <1>1, <1>6, <2>2, <2>3
    <2>5. P[p] = Prefix(v, l + 1) /\ t = s
      BY <1>2, <1>6, <2>2, <2>3, DigitUnique
    <2>6. p = w
      BY <2>4, <2>5
    <2>7. w # None
      BY <1>4, <2>6
    <2> QED BY <1>3, <2>2, <2>5, <2>6, <2>7, EntryFacts
  <1> QED BY <1>5, <1>6 DEF u

\* The tables translate a page to what a table of the last level maps it to.
LEMMA TranslationLeaf ==
    ASSUME NEW T \in SUBSET Nat, NEW L, NEW P, Tree(ram, T, L, P), NEW v \in Space
    PROVE  /\ Translation(v) \in Nat \union {None}
           /\ \A x \in Nat : Leaf(ram, T, L, P, v, x) <=> Translation(v) = x
  <1> DEFINE t3 == Follow(Pml4, v, 3)
             t2 == Follow(t3, v, 2)
             t1 == Follow(t2, v, 1)
             t0 == Follow(t1, v, 0)
  <1>1. Translation(v) = t0
    BY TranslationIs
  <1>2. Levels = 4 /\ v \in Nat /\ Prefix(v, 4) = 0 /\ None \notin Nat
    <2>1. Power[4] \in Nat
      BY PowerType DEF Levels
    <2>2. Levels = 4 /\ None \notin Nat
      BY DEF Levels, None
    <2>3. v \in Nat
      BY <2>1, <2>2 DEF Space
    <2> QED BY <2>2, <2>3, PrefixFacts
  <1>3. /\ Pml4 \in T \union {None} /\ Pml4 \in T /\ L[Pml4] = 3 /\ P[Pml4] = Prefix(v, 4)
        /\ \A q \in T : L[q] = 3 => q = Pml4
    BY <1>2, NamedBy DEF Tree
  <1>4. /\ t3 \in T \union {None} /\ (t3 # None => L[t3] = 2 /\ P[t3] = Prefix(v, 3))
        /\ \A q \in T : L[q] = 2 /\ P[q] = Prefix(v, 3) => q = t3
    <2>1. 3 \in 1 .. (Levels - 1) /\ 3 + 1 = 4 /\ 3 - 1 = 2
      BY <1>2
    <2>2. /\ Pml4 # None => L[Pml4] = 3 /\ P[Pml4] = Prefix(v, 3 + 1)
          /\ \A q \in T : L[q] = 3 /\ P[q] = Prefix(v, 3 + 1) => q = Pml4
      BY <1>3, <2>1
    <2> HIDE DEF t3
    <2>3. t3 = Follow(Pml4, v, 3)
      BY DEF t3
    <2> QED BY <1>2, <1>3, <2>1, <2>2, <2>3, WalkDown
  <1> HIDE DEF t3
  <1>5. /\ t2 \in T \union {None} /\ (t2 # None => L[t2] = 1 /\ P[t2] = Prefix(v, 2))
        /\ \A q \in T : L[q] = 1 /\ P[q] = Prefix(v, 2) => q = t2
    <2>1. 2 \in 1 .. (Levels - 1) /\ 2 + 1 = 3 /\ 2 - 1 = 1
      BY <1>2
    <2> QED BY <1>2, <1>4, <2>1, WalkDown
  <1> HIDE DEF t2
  <1>6. /\ t1 \in T \union {None} /\ (t1 # None => L[t1] = 0 /\ P[t1] = Prefix(v, 1))
        /\ \A q \in T : L[q] = 0 /\ P[q] = Prefix(v, 1) => q = t1
    <2>1. 1 \in 1 .. (Levels - 1) /\ 1 + 1 = 2 /\ 1 - 1 = 0
      BY <1>2
    <2> QED BY <1>2, <1>5, <2>1, WalkDown
  <1> HIDE DEF t1
  <1> DEFINE e == ram[t1 * Radix + Index(v, 0)]
  <1>7. t0 = IF t1 = None \/ e[1] # "entry" THEN None ELSE e[2]
    BY DEF Follow
  <1>8. Index(v, 0) \in Digits
    <2>1. 0 \in 0 .. (Levels - 1)
      BY <1>2
    <2> QED BY <1>2, <2>1, PrefixFacts
  <1>9. \A x : Leaf(ram, T, L, P, v, x) <=> t1 # None /\ e = Entry(x)
    <2>1. \A p \in T : L[p] = 0 /\ P[p] = Prefix(v, 1) => p = t1 /\ p # None
      BY <1>2, <1>6
    <2>2. t1 # None => t1 \in T /\ L[t1] = 0 /\ P[t1] = Prefix(v, 1)
      BY <1>6
    <2> QED BY <2>1, <2>2 DEF Leaf
  <1>10. t1 # None => e = Zero \/ \E x \in Nat : e = Entry(x)
    <2>1. t1 # None => t1 \in T
      BY <1>6
    <2> QED BY <1>8, <2>1 DEF Tree
  <1> HIDE DEF e, t0
  <1>11. t0 \in Nat \union {None}
    BY <1>7, <1>10, EntryFacts
  <1>12. \A x \in Nat : (t1 # None /\ e = Entry(x)) <=> t0 = x
    BY <1>2, <1>7, <1>10, EntryFacts
  <1> QED BY <1>1, <1>9, <1>11, <1>12

-----------------------------------------------------------------------------
(* The queue *)

\* Region r of queue q maps the N[r] pages from V[r] on to those from X[r] on; the
\* regions follow each other in the address space.
IsPlan(q, V, X, N) ==
    /\ Len(q) = 5 /\ V \in [1 .. 5 -> Nat] /\ X \in [1 .. 5 -> Nat] /\ N \in [1 .. 5 -> Nat]
    /\ \A r \in 1 .. 5 :
          /\ q[r].virt = V[r] * Radix /\ q[r].phys = X[r] * Radix
          /\ \A m \in Nat : m * Radix < q[r].words <=> m < N[r]
          /\ V[r] + N[r] <= Power[Levels]
    /\ \A r, s \in 1 .. 5 : r < s => V[r] + N[r] <= V[s]

\* The pages of the five regions of paging_init.
PlanV == <<0, LowPages, PageOf(heap.base), VMB, PageOf(virt_start)>>
PlanX == <<0, LowPages, PageOf(heap.base), 0, PageOf(image)>>
PlanN == <<LowPages, AwdPages, HeapPages, WindowPages, PageOf(size)>>

\* The page with which a number of whole pages begins.
LEMMA PageOfPages ==
    /\ \A p \in Nat : PageOf(p * Radix) = p
    /\ \A p, m \in Nat : PageOf(p * Radix + m * Radix) = p + m
    /\ \A a : Aligned(a) => a \in Nat /\ PageOf(a) \in Nat /\ a = PageOf(a) * Radix
  <1>1. \A p \in Nat : PageOf(p * Radix) = p
    <2> TAKE p \in Nat
    <2>1. 0 \in 0 .. (Radix - 1) /\ \A x \in Nat : x + 0 = x
      BY SizeFacts
    <2>2. PageOf(p * Radix + 0) = p /\ p * Radix + 0 = p * Radix
      BY <2>1, PageWords, PageArith
    <2> QED BY <2>2
  <1>2. \A p, m \in Nat : PageOf(p * Radix + m * Radix) = p + m
    <2> TAKE p, m \in Nat
    <2>1. p + m \in Nat /\ (p + m) * Radix = p * Radix + m * Radix
      BY PageArith
    <2> QED BY <1>1, <2>1
  <1>3. \A a : Aligned(a) => a \in Nat /\ PageOf(a) \in Nat /\ a = PageOf(a) * Radix
    <2> SUFFICES ASSUME NEW a, NEW p \in Nat, a = p * Radix
                 PROVE  a \in Nat /\ PageOf(a) \in Nat /\ a = PageOf(a) * Radix
      BY DEF Aligned
    <2> QED BY <1>1, PageArith
  <1> QED BY <1>1, <1>2, <1>3

\* Whole pages before a number of words, the last of which may be left out.
LEMMA PagesBefore ==
    ASSUME NEW n \in Nat
    PROVE  \A m \in Nat : (m * Radix < n * Radix <=> m < n) /\ (m * Radix < n * Radix - 1 <=> m < n)
  <1> TAKE m \in Nat
  <1> DEFINE a == m * Radix
             b == n * Radix
  <1>1. a \in Nat /\ b \in Nat /\ Radix \in Nat /\ Radix >= 2
    BY PageArith, SizeFacts
  <1>2. (m < n => a + Radix <= b) /\ (a < b => m < n)
    BY PageArith
  <1> HIDE DEF a, b
  <1>3. (a < b <=> m < n) /\ (a < b - 1 <=> m < n)
    BY <1>1, <1>2
  <1> QED BY <1>3 DEF a, b

\* What paging_init queues is such a plan.
LEMMA QueuedIsPlan ==
    ASSUME TidyBoot, BootInv, MemoryOK, SpaceOK, pc \in AfterImage
    PROVE  /\ IsPlan(Queued, PlanV, PlanX, PlanN)
           /\ Aligned(heap.base) /\ Aligned(virt_start) /\ Aligned(size) /\ image = heap.base
           /\ heap.limit = heap.base + HeapPages * Radix /\ heap.limit <= WindowPages * Radix
           /\ PageOf(heap.base) + HeapPages <= WindowPages
  <1>1. pc \in AfterHeap
    BY DEF AfterImage
  <1>2. /\ Aligned(heap.base) /\ Aligned(virt_start) /\ Aligned(size) /\ image = heap.base
        /\ virt_start # None /\ heap.limit = heap.base + HeapPages * Radix
        /\ image + size <= heap.current /\ heap.current < heap.limit
    BY <1>1 DEF BootInv, HeapOK, AnalysisOK, Covers
  <1> DEFINE B == PageOf(heap.base)
             S == PageOf(virt_start)
             Z == PageOf(size)
             top == Power[Levels]
  <1>3. /\ B \in Nat /\ S \in Nat /\ Z \in Nat
        /\ heap.base = B * Radix /\ virt_start = S * Radix /\ size = Z * Radix
    BY <1>2, PageOfPages
  <1>4. /\ top \in Nat /\ LowPages \in Nat /\ AwdPages \in Nat /\ HeapPages \in Nat
        /\ WindowPages \in Nat /\ VMB \in Nat /\ LowPages + AwdPages = Pml4 + 1 /\ Pml4 + 1 \in Nat
    BY PowerType, SizeFacts DEF Levels
  <1>5. Pml4 + 1 <= B
    <2>1. (Pml4 + 1) * Radix <= B * Radix
      BY <1>1, <1>3, Pml4Below DEF TidyBoot
    <2> QED BY <1>3, <1>4, <2>1, PageArith
  <1>6. heap.limit = (B + HeapPages) * Radix
    BY <1>2, <1>3, <1>4, PageArith
  <1>7. B + HeapPages <= WindowPages /\ WindowPages <= VMB
    <2>1. (B + HeapPages) * Radix <= WindowPages * Radix /\ WindowPages <= VMB
      BY <1>1, <1>6 DEF MemoryOK, TidyBoot
    <2>2. B + HeapPages \in Nat
      BY <1>3, <1>4
    <2> QED BY <1>4, <2>1, <2>2, PageArith
  <1>8. VMB + WindowPages <= S /\ S + HeapPages <= top
    <2>1. /\ (VMB + WindowPages) * Radix <= S * Radix
          /\ S * Radix + HeapPages * Radix <= top * Radix
      BY <1>2, <1>3 DEF SpaceOK
    <2>2. VMB + WindowPages \in Nat /\ S + HeapPages \in Nat
      BY <1>3, <1>4
    <2>3. (S + HeapPages) * Radix <= top * Radix
      BY <1>3, <1>4, <2>1, PageArith
    <2> QED BY <1>3, <1>4, <2>1, <2>2, <2>3, PageArith
  <1>9. Z <= HeapPages
    <2> DEFINE b == heap.base
               z == Z * Radix
               h == HeapPages * Radix
    <2>1. b \in Nat /\ z \in Nat /\ h \in Nat /\ heap.current \in Nat
      BY <1>1, <1>3, <1>4, Pml4Below, PageArith DEF TidyBoot
    <2>2. b + z <= heap.current /\ heap.current < b + h
      BY <1>2, <1>3
    <2> HIDE DEF b, z, h
    <2>3. z <= h
      BY <2>1, <2>2
    <2> QED BY <1>3, <1>4, <2>3, PageArith DEF z, h
  <1>10. /\ PlanV \in [1 .. 5 -> Nat] /\ PlanX \in [1 .. 5 -> Nat] /\ PlanN \in [1 .. 5 -> Nat]
         /\ PlanV[1] = 0 /\ PlanV[2] = LowPages /\ PlanV[3] = B /\ PlanV[4] = VMB /\ PlanV[5] = S
         /\ PlanX[1] = 0 /\ PlanX[2] = LowPages /\ PlanX[3] = B /\ PlanX[4] = 0 /\ PlanX[5] = B
         /\ PlanN[1] = LowPages /\ PlanN[2] = AwdPages /\ PlanN[3] = HeapPages
         /\ PlanN[4] = WindowPages /\ PlanN[5] = Z
    BY <1>2, <1>3, <1>4 DEF PlanV, PlanX, PlanN
  <1>11. /\ Len(Queued) = 5
         /\ Queued[1] = Mapping(0, 0, LowPages * Radix - 1)
         /\ Queued[2] = Mapping(LowPages * Radix, LowPages * Radix, AwdPages * Radix - 1)
         /\ Queued[3] = Mapping(heap.base, heap.base, HeapPages * Radix - 1)
         /\ Queued[4] = Mapping(0, VMB * Radix, WindowPages * Radix)
         /\ Queued[5] = Mapping(image, virt_start, size)
    BY DEF Queued
  <1>12. \A p, v, w : /\ Mapping(p, v, w).phys = p /\ Mapping(p, v, w).virt = v
                      /\ Mapping(p, v, w).words = w
    BY DEF Mapping
  <1> HIDE DEF B, S, Z, top
  <1>13. 1 .. 5 = {1, 2, 3, 4, 5} /\ 0 * Radix = 0
    BY SizeFacts
  <1>14. \A r \in 1 .. 5 : Queued[r].virt = PlanV[r] * Radix /\ Queued[r].phys = PlanX[r] * Radix
    BY <1>2, <1>3, <1>10, <1>11, <1>12, <1>13
  <1>15. \A r \in 1 .. 5 : \A m \in Nat : m * Radix < Queued[r].words <=> m < PlanN[r]
    <2>1. /\ Queued[1].words = LowPages * Radix - 1 /\ Queued[2].words = AwdPages * Radix - 1
          /\ Queued[3].words = HeapPages * Radix - 1 /\ Queued[4].words = WindowPages * Radix
          /\ Queued[5].words = Z * Radix
      BY <1>3, <1>11, <1>12
    <2> HIDE DEF Queued
    <2> QED BY <1>3, <1>4, <1>10, <1>13, <2>1, PagesBefore
  <1>16. /\ \A r \in 1 .. 5 : PlanV[r] + PlanN[r] <= top
         /\ \A r, s \in 1 .. 5 : r < s => PlanV[r] + PlanN[r] <= PlanV[s]
    <2> DEFINE V == PlanV
               N == PlanN
    <2>1. /\ V[1] + N[1] = LowPages /\ V[2] + N[2] = Pml4 + 1 /\ V[3] + N[3] = B + HeapPages
          /\ V[4] + N[4] = VMB + WindowPages /\ V[5] + N[5] = S + Z
      BY <1>4, <1>10
    <2>2. /\ LowPages <= Pml4 + 1 /\ B <= B + HeapPages /\ VMB <= VMB + WindowPages
          /\ S + Z <= top
      BY <1>3, <1>4, <1>8, <1>9
    <2>3. B \in Nat /\ S \in Nat /\ B + HeapPages \in Nat /\ VMB + WindowPages \in Nat
          /\ S + Z \in Nat /\ S <= S + Z
      BY <1>3, <1>4
    <2> HIDE DEF V, N
    <2>4. /\ V[1] = 0 /\ V[2] = LowPages /\ V[3] = B /\ V[4] = VMB /\ V[5] = S
      BY <1>10 DEF V
    <2>5. \A r \in 1 .. 5 : V[r] + N[r] <= top
      BY <1>4, <1>5, <1>7, <1>8, <1>13, <2>1, <2>2, <2>3
    <2>6. \A r, s \in 1 .. 5 : r < s => V[r] + N[r] <= V[s]
      BY <1>4, <1>5, <1>7, <1>8, <1>13, <2>1, <2>2, <2>3, <2>4
    <2> QED BY <2>5, <2>6 DEF V, N
  <1>17. IsPlan(Queued, PlanV, PlanX, PlanN)
    <2> HIDE DEF Queued, PlanV, PlanX, PlanN
    <2> QED BY <1>10, <1>11, <1>14, <1>15, <1>16 DEF IsPlan, top
  <1>18. heap.limit <= WindowPages * Radix /\ B + HeapPages <= WindowPages
    BY <1>1, <1>7 DEF MemoryOK
  <1> QED BY <1>2, <1>17, <1>18 DEF B

\* What is done of a plan, in pages.
LEMMA DoneIs ==
    ASSUME NEW q, NEW V, NEW X, NEW N, IsPlan(q, V, X, N), NEW r, NEW o, NEW v, NEW x
    PROVE  Done(q, r, o, v, x) <=>
              \E n \in 1 .. 5, m \in Nat :
                 /\ m < N[n] /\ (n < r \/ (n = r /\ m * Radix < o))
                 /\ v = V[n] + m /\ x = X[n] + m
  <1>1. \A n \in 1 .. 5, m \in Nat :
            /\ m * Radix < q[n].words <=> m < N[n]
            /\ PageOf(q[n].virt + m * Radix) = V[n] + m
            /\ PageOf(q[n].phys + m * Radix) = X[n] + m
    <2> TAKE n \in 1 .. 5, m \in Nat
    <2>1. V[n] \in Nat /\ X[n] \in Nat /\ q[n].virt = V[n] * Radix /\ q[n].phys = X[n] * Radix
          /\ (m * Radix < q[n].words <=> m < N[n])
      BY DEF IsPlan
    <2> QED BY <2>1, PageOfPages
  <1>2. Len(q) = 5
    BY DEF IsPlan
  <1> QED BY <1>1, <1>2 DEF Done

\* A plan maps no page twice, and only pages of the address space.
LEMMA PlanOnce ==
    ASSUME NEW q, NEW V, NEW X, NEW N, IsPlan(q, V, X, N),
           NEW r \in 1 .. 5, NEW m \in Nat, m < N[r]
    PROVE  /\ V[r] + m \in Space /\ X[r] + m \in Nat
           /\ \A s \in 1 .. 5, n \in Nat : n < N[s] /\ V[s] + n = V[r] + m => s = r /\ n = m
  <1>1. \A s \in 1 .. 5 : V[s] \in Nat /\ N[s] \in Nat /\ X[s] \in Nat /\ V[s] + N[s] <= Power[Levels]
    BY DEF IsPlan
  <1>2. Power[Levels] \in Nat
    BY PowerType DEF Levels
  <1>3. V[r] + m \in Space /\ X[r] + m \in Nat
    BY <1>1, <1>2 DEF Space
  <1>4. ASSUME NEW s \in 1 .. 5, NEW n \in Nat, n < N[s], V[s] + n = V[r] + m PROVE s = r /\ n = m
    <2>1. (r < s => V[r] + N[r] <= V[s]) /\ (s < r => V[s] + N[s] <= V[r])
      BY DEF IsPlan
    <2> DEFINE a == V[r]
               b == V[s]
               c == N[r]
               d == N[s]
    <2>2. /\ a \in Nat /\ b \in Nat /\ c \in Nat /\ d \in Nat
          /\ (r < s => a + c <= b) /\ (s < r => b + d <= a) /\ m < c /\ n < d /\ b + n = a + m
      BY <1>1, <1>4, <2>1
    <2> HIDE DEF a, b, c, d
    <2>3. s = r
      BY <2>2
    <2>4. b = a
      BY <2>3 DEF a, b
    <2>5. n = m
      BY <2>2, <2>4
    <2> QED BY <2>3, <2>5
  <1> QED BY <1>3, <1>4

-----------------------------------------------------------------------------
(* Stores into the tables *)

\* mem2 differs from mem in entry s of the table in page p only, as far as T goes.
OneEntry(mem, mem2, T, p, s, e) ==
    /\ mem2[p * Radix + s] = e
    /\ \A q \in T, t \in Digits : ~(q = p /\ t = s) => mem2[q * Radix + t] = mem[q * Radix + t]

\* Page p is all 0.
Empty(mem, p) == \A t \in Digits : mem[p * Radix + t] = Zero

\* The tables T with K and Q in mem2 map what the tables S with L and P in mem map.
SameLeaves(mem2, T, K, Q, mem, S, L, P) ==
    \A v \in Nat : \A x : Leaf(mem2, T, K, Q, v, x) <=> Leaf(mem, S, L, P, v, x)

\* In mem2 an entry of the table in page p, which is 0 in mem, names page n, a new table.
NewTable(mem, mem2, T, L, p, s, n) ==
    /\ T \in SUBSET Nat /\ p \in T /\ s \in Digits /\ L[p] > 0 /\ mem[p * Radix + s] = Zero
    /\ n \in Nat /\ n \notin T
    /\ OneEntry(mem, mem2, T, p, s, Entry(n)) /\ Empty(mem2, n)

\* F with value y for n.
Extended(F, T, n, y) == [q \in T \union {n} |-> IF q = n THEN y ELSE F[q]]

\* K and Q are the levels and prefixes then.
Grown(mem, mem2, T, L, P, p, s, n, K, Q) ==
    /\ Tree(mem, T, L, P) /\ NewTable(mem, mem2, T, L, p, s, n)
    /\ K = Extended(L, T, n, L[p] - 1) /\ Q = Extended(P, T, n, P[p] * Radix + s)

\* A new table maps nothing.
LEMMA TreeGrows ==
    ASSUME NEW mem, NEW mem2, NEW T, NEW L, NEW P, NEW p, NEW s, NEW n, NEW K, NEW Q,
           Grown(mem, mem2, T, L, P, p, s, n, K, Q)
    PROVE  /\ Tree(mem2, T \union {n}, K, Q)
           /\ K[n] = L[p] - 1 /\ Q[n] = P[p] * Radix + s
           /\ SameLeaves(mem2, T \union {n}, K, Q, mem, T, L, P)
  <1>0. /\ T \in SUBSET Nat /\ p \in T /\ s \in Digits /\ L[p] > 0 /\ mem[p * Radix + s] = Zero
        /\ n \in Nat /\ n \notin T
        /\ OneEntry(mem, mem2, T, p, s, Entry(n)) /\ Empty(mem2, n)
        /\ K = [q \in T \union {n} |-> IF q = n THEN L[p] - 1 ELSE L[q]]
        /\ Q = [q \in T \union {n} |-> IF q = n THEN P[p] * Radix + s ELSE P[q]]
        /\ Tree(mem, T, L, P)
    BY DEF Grown, NewTable, Extended
  <1> DEFINE U == T \union {n}
  <1>1. /\ \A q \in T : L[q] \in 0 .. (Levels - 1) /\ L[q] \in Nat /\ P[q] \in Nat
        /\ Pml4 \in T /\ L[Pml4] = Levels - 1 /\ P[Pml4] = 0
    BY <1>0 DEF Tree, Levels
  <1>2. L[p] - 1 \in 0 .. (Levels - 1) /\ L[p] - 1 \in Nat /\ P[p] * Radix + s \in Nat
    <2>1. L[p] - 1 \in 0 .. (Levels - 1) /\ L[p] - 1 \in Nat
      BY <1>0, <1>1 DEF Levels
    <2> QED BY <1>0, <1>1, <2>1, PageWords DEF Digits
  <1>3. /\ K[n] = L[p] - 1 /\ Q[n] = P[p] * Radix + s
        /\ \A q \in T : K[q] = L[q] /\ Q[q] = P[q]
        /\ K \in [U -> 0 .. (Levels - 1)] /\ Q \in [U -> Nat]
    BY <1>0, <1>1, <1>2
  <1>4. ASSUME NEW q \in T, L[q] = L[p] - 1, P[q] = P[p] * Radix + s PROVE FALSE
    <2>1. q # Pml4
      BY <1>0, <1>1, <1>4 DEF Levels
    <2>2. PICK r \in T, t \in Digits :
              /\ L[r] > 0 /\ mem[r * Radix + t] = Entry(q)
              /\ L[q] = L[r] - 1 /\ P[q] = P[r] * Radix + t
      BY <1>0, <2>1, NamedBy
    <2>3. L[r] = L[p]
      BY <1>0, <1>1, <1>4, <2>2
    <2>4. P[r] = P[p] /\ t = s
      BY <1>0, <1>1, <1>4, <2>2, DigitUnique
    <2>5. r = p
      BY <1>0, <2>3, <2>4 DEF Tree
    <2> QED BY <1>0, <2>2, <2>4, <2>5, EntryFacts
  <1>5. \A q, r \in U : K[q] = K[r] /\ Q[q] = Q[r] => q = r
    <2>1. \A q, r \in T : L[q] = L[r] /\ P[q] = P[r] => q = r
      BY <1>0 DEF Tree
    <2> QED BY <1>0, <1>3, <1>4, <2>1
  <1>6. ASSUME NEW q \in U, NEW t \in Digits
        PROVE  \/ mem2[q * Radix + t] = Zero
               \/ \E x \in Nat :
                     /\ mem2[q * Radix + t] = Entry(x)
                     /\ K[q] > 0 => x \in U /\ K[x] = K[q] - 1 /\ Q[x] = Q[q] * Radix + t
    <2>1. CASE q = n
      BY <1>0, <2>1 DEF Empty
    <2>2. CASE q = p /\ t = s
      <3>1. mem2[q * Radix + t] = Entry(n)
        BY <1>0, <2>2 DEF OneEntry
      <3>2. K[n] = K[q] - 1 /\ Q[n] = Q[q] * Radix + t
        BY <1>0, <1>3, <2>2
      <3> QED BY <1>0, <3>1, <3>2
    <2>3. CASE q # n /\ ~(q = p /\ t = s)
      <3>1. q \in T /\ mem2[q * Radix + t] = mem[q * Radix + t]
        BY <1>0, <2>3 DEF OneEntry
      <3>2. \/ mem[q * Radix + t] = Zero
            \/ \E x \in Nat :
                  /\ mem[q * Radix + t] = Entry(x)
                  /\ L[q] > 0 => x \in T /\ L[x] = L[q] - 1 /\ P[x] = P[q] * Radix + t
        BY <1>0, <3>1 DEF Tree
      <3> QED BY <1>0, <1>3, <3>1, <3>2
    <2> QED BY <1>0, <2>1, <2>2, <2>3
  <1>7. ASSUME NEW q \in U \ {Pml4}
        PROVE  \E r \in U, t \in Digits : K[r] > 0 /\ mem2[r * Radix + t] = Entry(q)
    <2>1. CASE q = n
      BY <1>0, <1>3, <2>1 DEF OneEntry
    <2>2. CASE q # n
      <3>1. PICK r \in T, t \in Digits : L[r] > 0 /\ mem[r * Radix + t] = Entry(q)
        BY <1>0, <2>2 DEF Tree
      <3>2. ~(r = p /\ t = s)
        BY <1>0, <3>1, EntryFacts
      <3>3. mem2[r * Radix + t] = Entry(q) /\ K[r] > 0
        BY <1>0, <1>3, <3>1, <3>2 DEF OneEntry
      <3> QED BY <1>0, <3>3
    <2> QED BY <1>0, <2>1, <2>2
  <1>8. Tree(mem2, U, K, Q)
    BY <1>0, <1>1, <1>3, <1>5, <1>6, <1>7 DEF Tree
  <1>9. ASSUME NEW v \in Nat, NEW x PROVE Leaf(mem2, U, K, Q, v, x) <=> Leaf(mem, T, L, P, v, x)
    <2>1. ASSUME NEW q \in U, K[q] = 0, mem2[q * Radix + Index(v, 0)] = Entry(x), Index(v, 0) \in Digits
          PROVE  q \in T /\ L[q] = 0 /\ mem[q * Radix + Index(v, 0)] = Entry(x)
      <3>1. q # n
        BY <1>0, <2>1, EntryFacts DEF Empty
      <3>2. q \in T /\ L[q] = 0
        BY <1>0, <1>3, <2>1, <3>1
      <3>3. q # p
        BY <1>0, <3>2
      <3> QED BY <1>0, <2>1, <3>2, <3>3 DEF OneEntry
    <2>2. ASSUME NEW q \in T, L[q] = 0, mem[q * Radix + Index(v, 0)] = Entry(x), Index(v, 0) \in Digits
          PROVE  K[q] = 0 /\ mem2[q * Radix + Index(v, 0)] = Entry(x)
      <3>1. q # p
        BY <1>0, <2>2
      <3> QED BY <1>0, <1>3, <2>2, <3>1 DEF OneEntry
    <2>3. \A q \in T : Q[q] = P[q]
      BY <1>0, <1>3
    <2>4. Index(v, 0) \in Digits
      <3>1. 0 \in 0 .. (Levels - 1)
        BY <1>0 DEF Levels
      <3> QED BY <1>0, <3>1, PrefixFacts
    <2> QED BY <1>0, <2>1, <2>2, <2>3, <2>4 DEF Leaf
  <1> QED BY <1>0, <1>3, <1>8, <1>9 DEF SameLeaves

\* In mem2 the table of the last level in page p, on the walk for page w, maps w to y.
Stored(mem, mem2, T, L, P, p, w, y) ==
    /\ T \in SUBSET Nat /\ Tree(mem, T, L, P) /\ p \in T /\ L[p] = 0
    /\ w \in Nat /\ P[p] = Prefix(w, 1) /\ y \in Nat
    /\ OneEntry(mem, mem2, T, p, Index(w, 0), Entry(y))

\* The tables map page w to y now, and every other page as they did.
LeafStored(mem, mem2, T, L, P, w, y) ==
    \A v \in Nat : \A x :
        Leaf(mem2, T, L, P, v, x) <=> IF v = w THEN x = y ELSE Leaf(mem, T, L, P, v, x)

\* A store into a table of the last level maps the one page whose digits lead there.
LEMMA TreeStore ==
    ASSUME NEW mem, NEW mem2, NEW T, NEW L, NEW P, NEW p, NEW w, NEW y,
           Stored(mem, mem2, T, L, P, p, w, y)
    PROVE  Tree(mem2, T, L, P) /\ LeafStored(mem, mem2, T, L, P, w, y)
  <1>0. /\ T \in SUBSET Nat /\ Tree(mem, T, L, P) /\ p \in T /\ L[p] = 0
        /\ w \in Nat /\ P[p] = Prefix(w, 1) /\ y \in Nat
        /\ OneEntry(mem, mem2, T, p, Index(w, 0), Entry(y))
    BY DEF Stored
  <1> DEFINE s == Index(w, 0)
  <1>1. 0 \in 0 .. (Levels - 1)
    BY DEF Levels
  <1>2. \A v \in Nat : Index(v, 0) \in Digits
    BY <1>0, <1>1, PrefixFacts
  <1>3. s \in Digits
    BY <1>0, <1>2
  <1>4. /\ mem2[p * Radix + s] = Entry(y)
        /\ \A q \in T, t \in Digits : ~(q = p /\ t = s) => mem2[q * Radix + t] = mem[q * Radix + t]
    BY <1>0 DEF OneEntry
  <1>5. Tree(mem2, T, L, P)
    <2>1. ASSUME NEW q \in T, NEW t \in Digits
          PROVE  \/ mem2[q * Radix + t] = Zero
                 \/ \E x \in Nat :
                       /\ mem2[q * Radix + t] = Entry(x)
                       /\ L[q] > 0 => x \in T /\ L[x] = L[q] - 1 /\ P[x] = P[q] * Radix + t
      <3>1. CASE q = p /\ t = s
        <4>1. ~(L[q] > 0) /\ mem2[q * Radix + t] = Entry(y)
          BY <1>0, <1>4, <3>1
        <4> QED BY <1>0, <4>1
      <3>2. CASE ~(q = p /\ t = s)
        <4>1. mem2[q * Radix + t] = mem[q * Radix + t]
          BY <1>0, <1>4, <3>2
        <4> QED BY <1>0, <4>1 DEF Tree
      <3> QED BY <1>0, <3>1, <3>2
    <2>2. ASSUME NEW q \in T \ {Pml4}
          PROVE  \E r \in T, t \in Digits : L[r] > 0 /\ mem2[r * Radix + t] = Entry(q)
      <3>1. PICK r \in T, t \in Digits : L[r] > 0 /\ mem[r * Radix + t] = Entry(q)
        BY <1>0 DEF Tree
      <3>2. r # p
        BY <1>0, <3>1
      <3> QED BY <1>0, <1>4, <3>1, <3>2
    <2>3. /\ L \in [T -> 0 .. (Levels - 1)] /\ P \in [T -> Nat]
          /\ Pml4 \in T /\ L[Pml4] = Levels - 1 /\ P[Pml4] = 0
          /\ \A q, r \in T : L[q] = L[r] /\ P[q] = P[r] => q = r
      BY <1>0 DEF Tree
    <2> QED BY <1>0, <2>1, <2>2, <2>3 DEF Tree
  <1>6. \A q \in T : L[q] = 0 /\ P[q] = Prefix(w, 1) => q = p
    BY <1>0 DEF Tree
  <1>7. ASSUME NEW v \in Nat, NEW x
        PROVE  Leaf(mem2, T, L, P, v, x) <=> IF v = w THEN x = y ELSE Leaf(mem, T, L, P, v, x)
    <2>1. CASE v = w
      <3>1. Leaf(mem2, T, L, P, v, x) <=> mem2[p * Radix + s] = Entry(x)
        BY <1>0, <1>6, <2>1 DEF Leaf
      <3> QED BY <1>0, <1>4, <2>1, <3>1, EntryFacts
    <2>2. CASE v # w
      <3>1. \A q \in T : L[q] = 0 /\ P[q] = Prefix(v, 1) =>
                mem2[q * Radix + Index(v, 0)] = mem[q * Radix + Index(v, 0)]
        <4> SUFFICES ASSUME NEW q \in T, L[q] = 0, P[q] = Prefix(v, 1)
                     PROVE  mem2[q * Radix + Index(v, 0)] = mem[q * Radix + Index(v, 0)]
          BY <1>0
        <4>1. ~(q = p /\ Index(v, 0) = s)
          BY <1>0, <2>2, PageByDigits
        <4> QED BY <1>0, <1>2, <1>4, <4>1
      <3>2. Leaf(mem2, T, L, P, v, x) <=> Leaf(mem, T, L, P, v, x)
        BY <1>0, <3>1 DEF Leaf
      <3> QED BY <1>0, <2>2, <3>2
    <2> QED BY <1>0, <2>1, <2>2
  <1> QED BY <1>5, <1>7 DEF LeafStored

-----------------------------------------------------------------------------
(* Memory, the queue and the blocks, step by step *)

\* A step that ends the boot.
LEMMA PlacesStop ==
    ASSUME PlacesOK, pc' \in {"panicked", "wild"}, UNCHANGED <<virt_start, j>>
    PROVE  PlacesOK'
  <1>1. /\ pc' \notin BeforeHeap /\ pc' \notin AfterHeap /\ pc' \notin {"commit", "entered"}
        /\ pc' \notin BeforeHeap \union {"image", "load", "queue"}
        /\ pc' \notin BeforeHeap \union {"image"} /\ pc' # "entered"
    BY DEF BeforeHeap, AfterHeap
  <1>2. MemoryOK' /\ BlocksOK'
    BY <1>1 DEF MemoryOK, BlocksOK
  <1>3. SpaceOK'
    BY DEF PlacesOK, SpaceOK
  <1>4. QueueOK'
    <2>1. Aligned(j')
      BY DEF PlacesOK, QueueOK
    <2> QED BY <1>1, <2>1 DEF QueueOK, Aligned
  <1> QED BY <1>2, <1>3, <1>4 DEF PlacesOK

\* A step before memory_heap_init.
LEMMA PlacesEarly ==
    ASSUME PlacesOK, pc \in BeforeHeap, pc' \in BeforeHeap, UNCHANGED <<mb, ram, j, blocks>>, SpaceOK'
    PROVE  PlacesOK'
  <1>1. /\ pc' \notin AfterHeap /\ pc' \notin {"commit", "entered"} /\ pc' # "entered"
    BY DEF BeforeHeap, AfterHeap
  <1>2. MemoryOK' /\ BlocksOK'
    BY <1>1 DEF PlacesOK, MemoryOK, BlocksOK, Modules
  <1>3. QueueOK'
    <2>1. Aligned(j') /\ j' = 0
      BY DEF PlacesOK, QueueOK
    <2> QED BY <1>1, <2>1 DEF QueueOK, Aligned
  <1> QED BY <1>2, <1>3 DEF PlacesOK

\* A step after it: the rest of the heap is left alone.
LEMMA PlacesLate ==
    ASSUME PlacesOK, BootInv, BootInv', pc \in AfterHeap, pc' \in AfterImage, virt_start' = virt_start,
           heap'.limit = heap.limit, heap.current <= heap'.current,
           \A a \in Nat : heap'.current <= a /\ a < heap.limit => ram'[a] = ram[a],
           QueueOK', \A b \in 1 .. Len(blocks') : blocks'[b].start + blocks'[b].words <= heap'.current
    PROVE  PlacesOK'
  <1>1. pc' \notin BeforeHeap /\ pc' \notin BeforeHeap \union {"image"} /\ pc' \in AfterHeap
    BY DEF BeforeHeap, AfterHeap, AfterImage
  <1>2. heap.current \in Nat /\ heap.limit \in Nat /\ heap'.current \in Nat
    BY DEF BootInv, TypeOK
  <1>3. MemoryOK'
    <2>1. ASSUME NEW a \in heap'.current .. (heap.limit - 1) PROVE ram'[a] = Zero
      <3>1. a \in Nat /\ heap'.current <= a /\ a < heap.limit
        BY <1>2
      <3>2. a \in heap.current .. (heap.limit - 1)
        BY <1>2, <3>1
      <3>3. ram[a] = Zero
        BY <3>2 DEF PlacesOK, MemoryOK
      <3> QED BY <3>1, <3>3
    <2>2. heap'.limit <= WindowPages * Radix
      BY DEF PlacesOK, MemoryOK
    <2> QED BY <1>1, <2>1, <2>2 DEF MemoryOK
  <1>4. SpaceOK'
    BY DEF PlacesOK, SpaceOK
  <1>5. BlocksOK'
    BY <1>1 DEF BlocksOK
  <1> QED BY <1>3, <1>4, <1>5 DEF PlacesOK

\* What GRUB leaves: behind the kernel's module memory is 0.
LEMMA PlacesInit ==
    ASSUME TidyBoot, Init
    PROVE  PlacesOK
  <1>1. BootInv
    BY InitBoot DEF TidyBoot
  <1>2. /\ mb \in Boots /\ pc = "verify" /\ virt_start = None /\ j = 0 /\ blocks = <<>>
        /\ pc \notin AfterHeap /\ pc \notin {"commit", "entered"} /\ pc # "entered"
    BY DEF Init, AfterHeap
  <1>3. ASSUME NEW k \in Modules, IsKernel(mb, k), mb.mods[k].elf,
               NEW a \in HeapBehind(mb.mods[k]) .. (HeapBehind(mb.mods[k]) + HeapPages * Radix - 1)
        PROVE  ram[a] = Zero
    <2> DEFINE base == HeapBehind(mb.mods[k])
    <2>1. /\ RoomForHeap(mb, k) /\ PageOf(a) \notin DirtyPages
      BY <1>2, <1>3 DEF TidyBoot, SaneBoot, CleanHeap, Modules
    <2>2. /\ \A m \in Modules : mb.mods[m].mod_end <= base /\ mb.mods[m].mod_end \in Nat
                                /\ mb.mods[m].mod_start \in Nat
          /\ (LowPages + AwdPages) * Radix <= mb.mods[k].mod_start
          /\ mb.mods[k].mod_start < mb.mods[k].mod_end
          /\ base + HeapPages * Radix <= MemPages * Radix
      BY <1>2, <2>1, BootFacts DEF RoomForHeap, HeapBehind, Modules
    <2>3. base \in Nat
      BY <2>2, RoundUp DEF HeapBehind
    <2>4. a \in Nat /\ base <= a /\ a \in 0 .. (MemPages * Radix - 1)
      <3> DEFINE h == HeapPages * Radix
                 t == MemPages * Radix
      <3>1. h \in Nat /\ t \in Nat /\ a \in base .. (base + h - 1) /\ base + h <= t
        BY <1>3, <2>2, SizeFacts, PageArith
      <3> HIDE DEF base, h, t
      <3>2. a \in Nat /\ base <= a /\ a \in 0 .. (t - 1)
        BY <2>3, <3>1
      <3> QED BY <3>2 DEF base, t
    <2>5. \A m \in Modules : ~(mb.mods[m].mod_start <= a /\ a < mb.mods[m].mod_end)
      <3> TAKE m \in Modules
      <3> DEFINE e == mb.mods[m].mod_end
      <3>1. e \in Nat /\ e <= base
        BY <2>2
      <3> HIDE DEF base, e
      <3>2. ~(a < e)
        BY <2>3, <2>4, <3>1
      <3> QED BY <3>2 DEF e
    <2>6. PageOf(a) \notin LowPages .. (Pml4 - 1)
      <3> DEFINE x == (Pml4 + 1) * Radix
                 st == mb.mods[k].mod_start
                 en == mb.mods[k].mod_end
      <3>1. x \in Nat /\ x <= st /\ st < en /\ st \in Nat /\ en \in Nat /\ en <= base /\ Pml4 + 1 \in Nat
        BY <2>2, SizeFacts, PageArith
      <3> HIDE DEF base, x, st, en
      <3>2. x <= a
        BY <2>3, <2>4, <3>1
      <3>3. Pml4 + 1 <= PageOf(a) /\ PageOf(a) \in Nat
        BY <2>4, <3>1, <3>2, PageOfFacts DEF x
      <3> QED BY <3>3, SizeFacts
    <2>7. {m \in Modules : mb.mods[m].mod_start <= a /\ a < mb.mods[m].mod_end} = {}
      BY <2>5
    <2> QED BY <2>1, <2>4, <2>6, <2>7 DEF Init
  <1>4. MemoryOK
    BY <1>2, <1>3 DEF MemoryOK
  <1>5. SpaceOK /\ BlocksOK
    BY <1>2 DEF SpaceOK, BlocksOK
  <1>6. QueueOK
    <2>1. 0 = 0 * Radix
      BY SizeFacts
    <2> QED BY <1>2, <2>1 DEF QueueOK, Aligned
  <1> QED BY <1>4, <1>5, <1>6 DEF PlacesOK

\* multiboot_verify, awd_cpu_requirements and multiboot_analyse.
LEMMA PlacesVerify ==
    ASSUME PlacesOK, Verify \/ multiboot_analyse
    PROVE  PlacesOK'
  <1>1. UNCHANGED <<mb, ram, j, blocks, virt_start>>
    BY DEF Verify, multiboot_analyse, elfVars, walkVars
  <1>2. pc \in {"verify", "multiboot"} /\ pc' \in {"multiboot", "analyse", "panicked", "wild"}
    BY DEF Verify, multiboot_analyse, Halt
  <1>3. SpaceOK'
    BY <1>1 DEF PlacesOK, SpaceOK
  <1>4. CASE pc' \in {"panicked", "wild"}
    BY <1>1, <1>4, PlacesStop
  <1>5. CASE pc' \in {"multiboot", "analyse"}
    BY <1>1, <1>2, <1>3, <1>5, PlacesEarly DEF BeforeHeap
  <1> QED BY <1>2, <1>4, <1>5

\* kernel_analyse: the lowest address is that of a LOAD section.
LEMMA PlacesAnalyse ==
    ASSUME TidyBoot, BootInv, PlacesOK, kernel_analyse
    PROVE  PlacesOK'
  <1>1. pc = "analyse" /\ UNCHANGED <<mb, ram, kernel, j, blocks>>
    BY DEF kernel_analyse, walkVars
  <1>2. TypeOK /\ IsKernel(mb, kernel) /\ mb \in Boots /\ i \in Nat /\ i >= 1
    BY <1>1 DEF BootInv, KernelOK, AnalysisOK, TypeOK
  <1>3. Len(Headers) \in Nat /\ kernel \in 1 .. Len(mb.mods)
    BY <1>2, KernelFacts DEF TidyBoot, Modules
  <1>4. CASE ~mb.mods[kernel].elf
    <2>1. pc' = "panicked" /\ virt_start' = virt_start
      BY <1>4 DEF kernel_analyse, Halt
    <2> QED BY <1>1, <2>1, PlacesStop
  <1>5. CASE mb.mods[kernel].elf
    <2>1. InSpace(mb.mods[kernel])
      BY <1>2, <1>3, <1>5 DEF TidyBoot
    <2>2. pc' \in {"analyse", "heap"}
      BY <1>1, <1>5 DEF kernel_analyse
    <2>3. SpaceOK'
      <3>1. CASE virt_start' = virt_start
        BY <3>1 DEF PlacesOK, SpaceOK
      <3>2. CASE virt_start' # virt_start
        <4>1. i <= Len(Headers) /\ Headers[i].load /\ virt_start' = Headers[i].vaddr
          BY <1>5, <3>2 DEF kernel_analyse
        <4>2. i \in 1 .. Len(Headers)
          BY <1>2, <1>3, <4>1
        <4> QED BY <2>1, <4>1, <4>2 DEF InSpace, SpaceOK, Headers
      <3> QED BY <3>1, <3>2
    <2> QED BY <1>1, <2>2, <2>3, PlacesEarly DEF BeforeHeap
  <1> QED BY <1>4, <1>5

\* memory_heap_init.
LEMMA PlacesHeap ==
    ASSUME TidyBoot, BootInv, PlacesOK, memory_heap_init
    PROVE  PlacesOK'
  <1> DEFINE m == mb.mods[kernel]
             base == HeapBehind(m)
             words == HeapPages * Radix
  <1>1. /\ pc = "heap" /\ pc' = "image"
        /\ UNCHANGED <<mb, ram, kernel, virt_start, blocks, j>>
        /\ heap' = [base |-> PAGE_ROUND_UP(base - 1), current |-> PAGE_ROUND_UP(base - 1),
                    limit |-> PAGE_ROUND_UP(base - 1) + words]
    BY DEF memory_heap_init, elfVars, walkVars, HeapBehind
  <1>2. TypeOK /\ IsKernel(mb, kernel) /\ m.elf /\ mb \in Boots
    BY <1>1 DEF BootInv, KernelOK, TypeOK
  <1>3. m.mod_end \in Nat \ {0} /\ kernel \in Modules /\ InWindow(m)
    BY <1>2, KernelFacts DEF TidyBoot, Modules
  <1>4. PAGE_ROUND_UP(base - 1) = base
    BY <1>3, HeapBase DEF HeapBehind
  <1>5. heap'.current = base /\ heap'.limit = base + words
    BY <1>1, <1>4
  <1>6. /\ pc \in BeforeHeap /\ pc' \notin BeforeHeap /\ pc' # "entered"
        /\ pc' \notin {"commit", "entered"}
    BY <1>1 DEF BeforeHeap
  <1>7. \A a \in base .. (base + words - 1) : ram[a] = Zero
    BY <1>2, <1>3, <1>6 DEF PlacesOK, MemoryOK
  <1>8. MemoryOK'
    <2>1. heap'.limit <= WindowPages * Radix
      BY <1>3, <1>5 DEF InWindow
    <2>2. \A a \in heap'.current .. (heap'.limit - 1) : ram'[a] = Zero
      <3>1. base \in Nat /\ words \in Nat
        BY <1>3, RoundUp, SizeFacts, PageArith DEF HeapBehind
      <3> HIDE DEF base, words
      <3>2. base .. (heap'.limit - 1) = base .. (base + words - 1)
        BY <1>5, <3>1
      <3> QED BY <1>1, <1>5, <1>7, <3>2
    <2> QED BY <1>6, <2>1, <2>2 DEF MemoryOK
  <1>9. SpaceOK'
    BY <1>1 DEF PlacesOK, SpaceOK
  <1>10. blocks' = <<>> /\ j' = 0 /\ Aligned(j)
    BY <1>1, <1>6 DEF PlacesOK, BlocksOK, QueueOK
  <1>11. QueueOK'
    <2>1. Aligned(j')
      BY <1>1, <1>10
    <2> QED BY <1>6, <1>10, <2>1 DEF QueueOK, Aligned
  <1>12. BlocksOK'
    <2>1. Len(blocks') = 0
      BY <1>10
    <2>2. 1 .. Len(blocks') = {}
      BY <2>1
    <2> QED BY <1>10, <2>2 DEF BlocksOK
  <1> QED BY <1>8, <1>9, <1>11, <1>12 DEF PlacesOK

\* A block that malloc_aligned adds to those that end with the heap's used part.
LEMMA BlocksAppend ==
    ASSUME NEW bs \in Seq([start: Nat, words: Nat]), NEW c \in Nat, NEW n \in Nat,
           \A b \in 1 .. Len(bs) : bs[b].start + bs[b].words <= c
    PROVE  LET more == Append(bs, [start |-> c, words |-> n])
           IN  \A b \in 1 .. Len(more) : more[b].start + more[b].words <= c + n
  <1> DEFINE R == [start: Nat, words: Nat]
             e == [start |-> c, words |-> n]
             more == Append(bs, e)
  <1>1. e \in R /\ e.start = c /\ e.words = n
    OBVIOUS
  <1>2. \A x \in R : x.start \in Nat /\ x.words \in Nat
    OBVIOUS
  <1> HIDE DEF R, e
  <1>3. bs \in Seq(R) /\ Len(bs) \in Nat
    BY DEF R
  <1>4. /\ Len(more) = Len(bs) + 1 /\ more[Len(bs) + 1] = e
        /\ \A b \in 1 .. Len(bs) : more[b] = bs[b] /\ bs[b] \in R
    BY <1>1, <1>3
  <1> HIDE DEF more
  <1>5. ASSUME NEW b \in 1 .. Len(more) PROVE more[b].start + more[b].words <= c + n
    <2>1. CASE b = Len(bs) + 1
      BY <1>1, <1>4, <2>1
    <2>2. CASE b # Len(bs) + 1
      <3>1. b \in 1 .. Len(bs)
        BY <1>3, <1>4, <2>2
      <3>2. more[b] = bs[b] /\ bs[b].start \in Nat /\ bs[b].words \in Nat
            /\ bs[b].start + bs[b].words <= c
        BY <1>2, <1>4, <3>1
      <3> QED BY <3>2
    <2> QED BY <2>1, <2>2
  <1> QED BY <1>5 DEF more, e

\* kernel_load's allocation.
LEMMA PlacesImage ==
    ASSUME TidyBoot, BootInv, BootInv', PlacesOK, AllocateImage
    PROVE  PlacesOK'
  <1>1. pc = "image" /\ UNCHANGED <<ram, virt_start, j>>
    BY DEF AllocateImage, walkVars
  <1>2. CASE ~AllocationFits(size)
    <2>1. pc' = "panicked"
      BY <1>2 DEF AllocateImage, Halt
    <2> QED BY <1>1, <2>1, PlacesStop
  <1>3. CASE AllocationFits(size)
    <2> DEFINE c == PAGE_ROUND_UP(heap.current)
    <2>1. /\ pc' = "load" /\ heap' = [heap EXCEPT !.current = c + size]
          /\ blocks' = Append(blocks, [start |-> c, words |-> size])
      BY <1>3 DEF AllocateImage, malloc_aligned
    <2>2. /\ heap \in [base: Nat, current: Nat, limit: Nat] /\ size \in Nat /\ heap.current \in Nat
          /\ blocks \in Seq([start: Nat, words: Nat])
      BY DEF BootInv, TypeOK
    <2>3. c \in Nat /\ heap.current <= c
      BY <2>2, RoundUp
    <2> HIDE DEF c
    <2>4. heap'.limit = heap.limit /\ heap'.current = c + size /\ heap.current <= c + size
      BY <2>1, <2>2, <2>3
    <2>5. pc \in AfterHeap /\ pc' \in AfterImage /\ pc' \notin {"commit", "entered"} /\ pc' # "entered"
      BY <1>1, <2>1 DEF AfterHeap, AfterImage
    <2>6. j = 0 /\ Aligned(j) /\ blocks = <<>>
      BY <1>1 DEF PlacesOK, QueueOK, BlocksOK
    <2>7. QueueOK'
      BY <1>1, <2>5, <2>6 DEF QueueOK, Aligned
    <2>8. \A b \in 1 .. Len(blocks') : blocks'[b].start + blocks'[b].words <= heap'.current
      <3>1. \A b \in 1 .. Len(blocks) : blocks[b].start + blocks[b].words <= c
        <4>1. Len(blocks) = 0
          BY <2>6
        <4>2. 1 .. Len(blocks) = {}
          BY <4>1
        <4> QED BY <4>2
      <3> QED BY <2>1, <2>2, <2>3, <2>4, <3>1, BlocksAppend
    <2> QED BY <1>1, <2>4, <2>5, <2>7, <2>8, PlacesLate
  <1> QED BY <1>2, <1>3

\* kernel_load's copies end where the rest of the heap begins.
LEMMA PlacesLoad ==
    ASSUME TidyBoot, BootInv, BootInv', PlacesOK, kernel_load
    PROVE  PlacesOK'
  <1>1. pc = "load" /\ pc' \in {"load", "queue"} /\ UNCHANGED <<virt_start, heap, blocks, j>>
    BY DEF kernel_load, walkVars
  <1>2. /\ pc \in AfterHeap /\ pc \in AfterImage /\ pc' \in AfterImage
        /\ pc' \notin {"commit", "entered"} /\ pc' # "entered"
    BY <1>1 DEF AfterHeap, AfterImage
  <1>3. /\ heap.current \in Nat /\ heap.limit \in Nat /\ i \in Nat /\ i >= 1 /\ TypeOK
        /\ heap.limit <= MemPages * Radix /\ heap.current = image + size /\ IsKernel(mb, kernel)
    BY <1>1, <1>2 DEF BootInv, TypeOK, HeapOK, AnalysisOK, KernelOK
  <1>4. \A a \in Nat : heap'.current <= a /\ a < heap.limit => ram'[a] = ram[a]
    <2>1. CASE ram' = ram
      BY <2>1
    <2>2. CASE ram' # ram
      <3> DEFINE d == Destination(Headers[i])
                 f == Headers[i].filesz
                 n == Headers[i].memsz
                 from(a) == ram[mb.mods[kernel].mod_start + Headers[i].offset + (a - d)]
                 top == MemPages * Radix
      <3>1. /\ i <= Len(Headers) /\ Headers[i].load
            /\ ram' = [a \in DOMAIN ram |-> IF d <= a /\ a < d + f THEN from(a) ELSE ram[a]]
        BY <2>2 DEF kernel_load
      <3>2. i \in Loads
        <4>1. Len(Headers) \in Nat
          BY <1>3, KernelFacts DEF TidyBoot
        <4> QED BY <1>3, <3>1, <4>1 DEF Loads
      <3>3. f \in Nat /\ n \in Nat /\ f <= n /\ d \in Nat /\ d + n <= heap.current
        BY <1>2, <1>3, <3>2, SectionInImage DEF TidyBoot
      <3>4. DOMAIN ram = 0 .. (top - 1) /\ top \in Nat /\ heap.limit <= top
        BY <1>3, SizeFacts DEF TypeOK
      <3> HIDE DEF d, f, n, from, top
      <3>5. ASSUME NEW a \in Nat, heap.current <= a, a < heap.limit PROVE ram'[a] = ram[a]
        <4>1. a \in DOMAIN ram /\ ~(d <= a /\ a < d + f)
          BY <1>3, <3>3, <3>4, <3>5
        <4> QED BY <3>1, <4>1
      <3> QED BY <1>1, <3>5
    <2> QED BY <2>1, <2>2
  <1>5. QueueOK'
    <2>1. j = 0 /\ Aligned(j)
      BY <1>1 DEF PlacesOK, QueueOK
    <2> QED BY <1>1, <1>2, <2>1 DEF QueueOK, Aligned
  <1>6. \A b \in 1 .. Len(blocks') : blocks'[b].start + blocks'[b].words <= heap'.current
    BY <1>1, <1>2 DEF PlacesOK, BlocksOK
  <1>7. heap'.limit = heap.limit /\ heap.current <= heap'.current
    BY <1>1, <1>3
  <1> QED BY <1>1, <1>2, <1>4, <1>5, <1>6, <1>7, PlacesLate

\* Steps of paging_init and paging_commit.
LEMMA PlacesCommit ==
    ASSUME TidyBoot, BootInv, BootInv', PlacesOK, pc \in {"queue", "commit"}, pc' = "commit",
           UNCHANGED <<virt_start, size, image>>, heap'.base = heap.base, heap'.limit = heap.limit,
           heap.current <= heap'.current, paging_queue' = Queued, Aligned(j'),
           \A a \in DOMAIN ram :
              PageOf(a) = Pml4 \/ (heap.base <= a /\ a < heap.current) \/ ram'[a] = ram[a],
           \A b \in 1 .. Len(blocks') : blocks'[b].start + blocks'[b].words <= heap'.current
    PROVE  PlacesOK'
  <1>1. /\ pc \in AfterHeap /\ pc' \in AfterImage /\ pc' # "entered"
        /\ pc' \notin BeforeHeap \union {"image", "load", "queue"}
    BY DEF AfterHeap, AfterImage, BeforeHeap
  <1> DEFINE top == MemPages * Radix
             low == (Pml4 + 1) * Radix
  <1>2. /\ heap.base \in Nat /\ heap.current \in Nat /\ heap.limit \in Nat /\ heap'.current \in Nat
        /\ DOMAIN ram = 0 .. (top - 1) /\ top \in Nat
    BY SizeFacts DEF BootInv, TypeOK
  <1>3. /\ heap.base <= heap.current /\ heap.limit <= top /\ low <= heap.base /\ low \in Nat
        /\ Pml4 + 1 \in Nat
    BY <1>1, Pml4Below, SizeFacts, PageArith DEF BootInv, HeapOK, TidyBoot
  <1> HIDE DEF top, low
  <1>4. ASSUME NEW a \in Nat, heap'.current <= a, a < heap.limit PROVE ram'[a] = ram[a]
    <2>1. a \in DOMAIN ram /\ ~(a < heap.current) /\ low <= a
      BY <1>2, <1>3, <1>4
    <2>2. PageOf(a) # Pml4
      <3>1. Pml4 + 1 <= PageOf(a) /\ PageOf(a) \in Nat
        BY <1>3, <2>1, PageOfFacts DEF low
      <3> QED BY <3>1, SizeFacts
    <2> QED BY <2>1, <2>2
  <1>5. Queued' = Queued
    BY DEF Queued
  <1>6. QueueOK'
    BY <1>1, <1>5 DEF QueueOK, Aligned
  <1> QED BY <1>1, <1>4, <1>6, PlacesLate

-----------------------------------------------------------------------------
(* The tables, step by step *)

\* Where paging_commit is in a plan.
LEMMA PlanAt ==
    ASSUME NEW q, NEW V, NEW X, NEW N, IsPlan(q, V, X, N), NEW r \in Nat, r >= 1, r <= Len(q),
           NEW o, Aligned(o), o < q[r].words
    PROVE  \E m \in Nat :
              /\ o = m * Radix /\ r \in 1 .. 5 /\ m < N[r]
              /\ PageOf(q[r].virt + o) = V[r] + m /\ V[r] + m \in Space /\ V[r] + m \in Nat
              /\ PageOf(q[r].phys + o) = X[r] + m /\ X[r] + m \in Nat
  <1>1. PICK m \in Nat : o = m * Radix
    BY DEF Aligned
  <1>2. r \in 1 .. 5
    BY DEF IsPlan
  <1>3. /\ m < N[r] /\ V[r] \in Nat /\ X[r] \in Nat
        /\ q[r].virt = V[r] * Radix /\ q[r].phys = X[r] * Radix
    BY <1>1, <1>2 DEF IsPlan
  <1>4. V[r] + m \in Space /\ X[r] + m \in Nat
    BY <1>2, <1>3, PlanOnce
  <1>5. PageOf(q[r].virt + o) = V[r] + m /\ PageOf(q[r].phys + o) = X[r] + m
    BY <1>1, <1>3, PageOfPages
  <1>6. V[r] + m \in Nat
    BY <1>3
  <1> QED BY <1>1, <1>2, <1>3, <1>4, <1>5, <1>6

\* Where a walk of paging_map_page is.
LEMMA WalkFacts ==
    ASSUME TidyBoot, MapInv, pc = "commit", InRegion
    PROVE  \E m \in Nat :
              /\ j = m * Radix /\ region \in 1 .. 5 /\ m < PlanN[region]
              /\ IsPlan(paging_queue, PlanV, PlanX, PlanN)
              /\ VirtPage = PlanV[region] + m /\ VirtPage \in Space /\ VirtPage \in Nat
              /\ PageOf(paging_queue[region].phys + j) = PlanX[region] + m
              /\ PlanX[region] + m \in Nat
  <1>1. pc \in AfterImage
    BY DEF AfterImage, AfterHeap
  <1>2. IsPlan(paging_queue, PlanV, PlanX, PlanN)
    BY <1>1, QueuedIsPlan DEF MapInv, PlacesOK, QueueOK
  <1>3. region \in Nat /\ region >= 1 /\ Aligned(j)
    BY DEF MapInv, PlacesOK, QueueOK, BootInv, TypeOK
  <1>4. region <= Len(paging_queue) /\ j < paging_queue[region].words
    BY DEF InRegion
  <1> HIDE DEF PlanV, PlanX, PlanN
  <1> QED BY <1>2, <1>3, <1>4, PlanAt DEF VirtPage

\* Tables lie in memory.
LEMMA TablePagesType == TablePages \subseteq 0 .. (MemPages - 1) /\ TablePages \in SUBSET Nat
  BY SizeFacts DEF TablePages

\* A store at the walk's slot changes one entry.
LEMMA SlotStore ==
    ASSUME TidyBoot, MapInv, pc = "commit", InRegion, NEW e, ram' = [ram EXCEPT ![Slot] = e]
    PROVE  /\ OneEntry(ram, ram', TablePages, table, Index(VirtPage, level), e)
           /\ Index(VirtPage, level) \in Digits
           /\ Slot = table * Radix + Index(VirtPage, level)
  <1>1. SaneBoot /\ BootInv
    BY DEF TidyBoot, MapInv
  <1>2. VirtPage \in Nat
    BY WalkFacts
  <1>3. level \in 0 .. (Levels - 1)
    BY <1>1 DEF BootInv, TypeOK
  <1> DEFINE s == Index(VirtPage, level)
  <1>4. s \in Digits
    BY <1>2, <1>3, PrefixFacts
  <1>5. Slot = table * Radix + s
    BY DEF Slot
  <1> HIDE DEF s
  <1>6. table \in TablePages /\ table \in Nat
    BY <1>1, SlotFacts
  <1>7. ram'[Slot] = e
    BY <1>1, SlotUnique
  <1>8. ASSUME NEW q \in TablePages, NEW t \in Digits, ~(q = table /\ t = s)
        PROVE  ram'[q * Radix + t] = ram[q * Radix + t]
    <2>1. q \in 0 .. (MemPages - 1) /\ q \in Nat /\ t \in 0 .. (Radix - 1)
      BY TablePagesType DEF Digits
    <2>2. q * Radix + t # Slot
      BY <1>4, <1>5, <1>6, <1>8, <2>1, DigitUnique
    <2> QED BY <1>1, <2>1, <2>2, SlotUnique
  <1> QED BY <1>4, <1>5, <1>7, <1>8 DEF OneEntry, s

\* paging_init: paging_pml4, cleared, is the only table and maps nothing.
LEMMA MapsInit ==
    ASSUME TidyBoot, MapInv, BootInv', paging_init
    PROVE  MapInv'
  <1>1. /\ pc = "queue" /\ pc' = "commit" /\ paging_queue' = Queued
        /\ ram' = [a \in DOMAIN ram |-> IF PageOf(a) = Pml4 THEN Zero ELSE ram[a]]
        /\ UNCHANGED <<virt_start, size, image, heap, blocks, region, j, level, table>>
    BY DEF paging_init, elfVars, walkVars
  <1>2. pc \in AfterImage /\ pc \in AfterHeap
    BY <1>1 DEF AfterImage, AfterHeap
  <1>3. /\ heap.current = image + size /\ heap.current \in Nat /\ region = 1 /\ j = 0 /\ Aligned(j)
        /\ level = Levels - 1 /\ table = Pml4 /\ DOMAIN ram = 0 .. (MemPages * Radix - 1)
    BY <1>1 DEF MapInv, BootInv, HeapOK, WalkOK, PlacesOK, QueueOK, TypeOK
  <1>4. PlacesOK'
    <2>1. \A b \in 1 .. Len(blocks') : blocks'[b].start + blocks'[b].words <= heap'.current
      BY <1>1, <1>2 DEF MapInv, PlacesOK, BlocksOK
    <2>2. heap.current <= heap'.current /\ Aligned(j')
      BY <1>1, <1>3
    <2>3. \A a \in DOMAIN ram :
              PageOf(a) = Pml4 \/ (heap.base <= a /\ a < heap.current) \/ ram'[a] = ram[a]
      BY <1>1
    <2> QED BY <1>1, <2>1, <2>2, <2>3, PlacesCommit DEF MapInv
  <1>5. TablePages' = {Pml4}
    <2>1. \A p \in 0 .. (MemPages - 1) : ~(image + size <= p * Radix /\ p * Radix < heap.current)
      <3> TAKE p \in 0 .. (MemPages - 1)
      <3> DEFINE x == p * Radix
      <3>1. x \in Nat
        BY SizeFacts, PageArith
      <3> HIDE DEF x
      <3>2. ~(image + size <= x /\ x < heap.current)
        BY <1>3, <3>1
      <3> QED BY <3>2 DEF x
    <2>2. TablePages' = {p \in 0 .. (MemPages - 1) :
                           p = Pml4 \/ (image + size <= p * Radix /\ p * Radix < heap.current)}
      BY <1>1 DEF TablePages
    <2> QED BY <2>1, <2>2, SizeFacts
  <1>6. \A s \in Digits : ram'[Pml4 * Radix + s] = Zero
    <2> TAKE s \in Digits
    <2>1. Pml4 * Radix + s \in 0 .. (MemPages * Radix - 1) /\ PageOf(Pml4 * Radix + s) = Pml4
      <3>1. Pml4 \in Nat /\ Pml4 < MemPages /\ s \in 0 .. (Radix - 1)
        BY SizeFacts DEF Digits
      <3> QED BY <3>1, PageWords
    <2> QED BY <1>1, <1>3, <2>1
  <1>7. PICK L : L = [p \in {Pml4} |-> Levels - 1]
    OBVIOUS
  <1>8. PICK P : P = [p \in {Pml4} |-> 0]
    OBVIOUS
  <1>9. L[Pml4] = Levels - 1 /\ P[Pml4] = 0 /\ L \in [{Pml4} -> 0 .. (Levels - 1)] /\ P \in [{Pml4} -> Nat]
    BY <1>7, <1>8 DEF Levels
  <1>10. Tree(ram', TablePages', L, P)
    BY <1>5, <1>6, <1>9 DEF Tree
  <1>11. WalkAt(L, P)'
    <2>1. InRegion' => P[table'] = Prefix(VirtPage', level' + 1)
      <3> SUFFICES ASSUME InRegion' PROVE P[table'] = Prefix(VirtPage', level' + 1)
        OBVIOUS
      <3>1. IsPlan(Queued, PlanV, PlanX, PlanN)
        BY <1>2, QueuedIsPlan DEF MapInv, PlacesOK
      <3>2. region' <= Len(paging_queue') /\ j' < paging_queue'[region'].words
        BY DEF InRegion
      <3>3. VirtPage' = PageOf(paging_queue'[region'].virt + j')
        BY DEF VirtPage
      <3>4. region' \in Nat /\ region' >= 1 /\ Aligned(j')
        BY <1>1, <1>3
      <3> HIDE DEF Queued, PlanV, PlanX, PlanN
      <3>5. VirtPage' \in Space /\ VirtPage' \in Nat
        BY <1>1, <3>1, <3>2, <3>3, <3>4, PlanAt
      <3>6. Prefix(VirtPage', Levels) = 0 /\ level' + 1 = Levels
        BY <1>1, <1>3, <3>5, PrefixFacts DEF Levels
      <3> QED BY <1>1, <1>3, <1>9, <3>6
    <2> QED BY <1>1, <1>3, <1>5, <1>9, <2>1 DEF WalkAt
  <1>12. ASSUME NEW v, NEW x PROVE ~Leaf(ram', TablePages', L, P, v, x)
    BY <1>5, <1>9 DEF Leaf, Levels
  <1>13. ASSUME NEW v, NEW x PROVE ~Done(paging_queue', region', j', v, x)
    <2>1. region' = 1 /\ j' = 0
      BY <1>1, <1>3
    <2>2. \A m \in Nat : m * Radix \in Nat
      BY PageArith
    <2>3. \A y \in Nat : ~(y < 0)
      OBVIOUS
    <2>4. \A n \in 1 .. Len(paging_queue') : ~(n < 1)
      OBVIOUS
    <2> QED BY <2>1, <2>2, <2>3, <2>4 DEF Done
  <1>14. MapsOK'
    BY <1>10, <1>11, <1>12, <1>13 DEF MapsOK
  <1> QED BY <1>4, <1>14 DEF MapInv

\* Steps after which no table is looked at.
LEMMA MapsStop ==
    ASSUME TidyBoot, MapInv, BootInv', PlacesOK', pc' \notin {"commit", "entered"}
    PROVE  MapInv'
  <1>1. MapsOK'
    BY DEF MapsOK
  <1> QED BY <1>1 DEF MapInv

\* Create: the new table maps nothing.
LEMMA MapsCreate ==
    ASSUME TidyBoot, MapInv, BootInv', CreateTable
    PROVE  MapInv'
  <1>1. /\ pc = "commit" /\ InRegion /\ level > 0 /\ ram[Slot] = Zero
        /\ UNCHANGED <<virt_start, size, image, paging_queue, region, j>>
    BY DEF CreateTable, elfVars
  <1>2. CASE ~AllocationFits(Radix)
    <2>1. pc' = "panicked"
      BY <1>2 DEF CreateTable, Halt
    <2>2. PlacesOK'
      BY <1>1, <2>1, PlacesStop DEF MapInv
    <2> QED BY <2>1, <2>2, MapsStop
  <1>3. CASE AllocationFits(Radix)
    <2> DEFINE cur == heap.current
               s == Index(VirtPage, level)
    <2>0. SaneBoot /\ BootInv /\ PlacesOK /\ MapsOK
      BY DEF TidyBoot, MapInv
    <2>1. PICK n \in 0 .. (MemPages - 1) :
              /\ cur = n * Radix
              /\ pc' = "commit" /\ table' = n /\ level' = level - 1
              /\ ram' = [ram EXCEPT ![Slot] = Entry(n)]
              /\ heap'.base = heap.base /\ heap'.limit = heap.limit
              /\ heap'.current = cur + Radix /\ heap'.current < heap.limit
              /\ blocks' = Append(blocks, [start |-> cur, words |-> Radix])
              /\ TablePages' = TablePages \union {n} /\ n \notin TablePages
      BY <1>3, <2>0, CreateFacts
    <2>2. /\ cur \in Nat /\ heap.limit \in Nat /\ n \in Nat /\ level \in 0 .. (Levels - 1)
          /\ Radix \in Nat /\ blocks \in Seq([start: Nat, words: Nat])
      BY <2>0, SizeFacts DEF BootInv, TypeOK
    <2>3. /\ OneEntry(ram, ram', TablePages, table, s, Entry(n)) /\ s \in Digits
          /\ Slot = table * Radix + s
      BY <1>1, <2>1, SlotStore
    <2>4. /\ \A a \in DOMAIN ram :
                PageOf(a) = Pml4 \/ (heap.base <= a /\ a < cur) \/ ram'[a] = ram[a]
          /\ \A t \in 0 .. (Radix - 1) :
                n * Radix + t # Slot => ram'[n * Radix + t] = ram[n * Radix + t]
      BY <1>1, <2>0, <2>1, SlotUnique
    <2>5. table \in TablePages /\ table \in Nat /\ Slot < cur
      BY <1>1, <2>0, SlotFacts
    <2> HIDE DEF cur, s
    <2>6. PlacesOK'
      <3>1. cur <= heap'.current /\ Aligned(j') /\ paging_queue' = Queued
        BY <1>1, <2>0, <2>1, <2>2 DEF PlacesOK, QueueOK
      <3>2. \A b \in 1 .. Len(blocks) : blocks[b].start + blocks[b].words <= cur
        BY <1>1, <2>0 DEF PlacesOK, BlocksOK, AfterHeap, cur
      <3>3. \A b \in 1 .. Len(blocks') : blocks'[b].start + blocks'[b].words <= heap'.current
        BY <2>1, <2>2, <3>2, BlocksAppend
      <3> QED BY <1>1, <2>0, <2>1, <2>4, <3>1, <3>3, PlacesCommit DEF cur
    <2>7. Empty(ram', n)
      <3> SUFFICES ASSUME NEW t \in Digits PROVE ram'[n * Radix + t] = Zero
        BY DEF Empty
      <3> DEFINE a == n * Radix + t
      <3>1. t \in 0 .. (Radix - 1) /\ a = cur + t
        BY <2>1 DEF Digits
      <3> HIDE DEF a
      <3>2. a \in cur .. (heap.limit - 1) /\ ~(a < cur)
        BY <2>1, <2>2, <3>1
      <3>3. ram[a] = Zero
        BY <1>1, <2>0, <3>2 DEF PlacesOK, MemoryOK, AfterHeap, cur
      <3>4. a # Slot
        BY <2>5, <3>2
      <3> QED BY <2>4, <3>1, <3>3, <3>4 DEF a
    <2>8. PICK L, P :
              /\ Tree(ram, TablePages, L, P) /\ WalkAt(L, P)
              /\ \A v \in Space, x \in Nat :
                    Leaf(ram, TablePages, L, P, v, x) <=> Done(paging_queue, region, j, v, x)
      BY <1>1, <2>0 DEF MapsOK
    <2>9. L[table] = level /\ P[table] = Prefix(VirtPage, level + 1)
      BY <1>1, <2>8 DEF WalkAt
    <2>10. ram[table * Radix + s] = Zero /\ TablePages \in SUBSET Nat /\ L[table] > 0
      BY <1>1, <2>3, <2>9, TablePagesType
    <2>11. PICK K, Q : /\ K = Extended(L, TablePages, n, L[table] - 1)
                        /\ Q = Extended(P, TablePages, n, P[table] * Radix + s)
      OBVIOUS
    <2>12. /\ Tree(ram', TablePages \union {n}, K, Q)
           /\ K[n] = L[table] - 1 /\ Q[n] = P[table] * Radix + s
           /\ SameLeaves(ram', TablePages \union {n}, K, Q, ram, TablePages, L, P)
      <3>1. NewTable(ram, ram', TablePages, L, table, s, n)
        BY <2>1, <2>2, <2>3, <2>5, <2>7, <2>10 DEF NewTable
      <3>2. Grown(ram, ram', TablePages, L, P, table, s, n, K, Q)
        BY <2>8, <2>11, <3>1 DEF Grown
      <3> QED BY <3>2, TreeGrows
    <2>13. Tree(ram', TablePages', K, Q)
      BY <2>1, <2>12
    <2>14. WalkAt(K, Q)'
      <3>1. VirtPage' = VirtPage /\ (InRegion' <=> InRegion) /\ VirtPage \in Nat
        BY <1>1, WalkFacts DEF VirtPage, InRegion
      <3>2. Prefix(VirtPage, level) = Prefix(VirtPage, level + 1) * Radix + s
        BY <2>2, <3>1, PrefixFacts DEF s
      <3>3. level' + 1 = level
        BY <2>1, <2>2
      <3>4. Q[table'] = Prefix(VirtPage', level' + 1)
        BY <2>1, <2>9, <2>12, <3>1, <3>2, <3>3
      <3>5. table' \in TablePages' /\ K[table'] = level' /\ InRegion'
        BY <1>1, <2>1, <2>9, <2>12, <3>1
      <3> QED BY <3>4, <3>5 DEF WalkAt
    <2>15. \A v \in Space, x \in Nat :
              Leaf(ram', TablePages', K, Q, v, x) <=> Done(paging_queue', region', j', v, x)
      <3>1. Space \subseteq Nat
        BY PowerType DEF Space, Levels
      <3> QED BY <1>1, <2>1, <2>8, <2>12, <3>1 DEF SameLeaves
    <2>16. MapsOK'
      BY <2>13, <2>14, <2>15 DEF MapsOK
    <2> QED BY <2>6, <2>16 DEF MapInv
  <1> QED BY <1>2, <1>3

\* Load: the entry names the table that the next digit leads to.
LEMMA MapsLoad ==
    ASSUME TidyBoot, MapInv, BootInv', LoadTable
    PROVE  MapInv'
  <1>1. /\ pc = "commit" /\ InRegion /\ level > 0 /\ ram[Slot] # Zero
        /\ UNCHANGED <<ram, virt_start, size, image, heap, blocks, paging_queue, region, j>>
    BY DEF LoadTable, elfVars
  <1>2. BootInv /\ PlacesOK /\ MapsOK
    BY DEF MapInv
  <1>3. CASE ram[Slot][1] # "entry"
    <2>1. pc' = "wild"
      BY <1>3 DEF LoadTable
    <2>2. PlacesOK'
      BY <1>1, <1>2, <2>1, PlacesStop
    <2> QED BY <2>1, <2>2, MapsStop
  <1>4. CASE ram[Slot][1] = "entry"
    <2>1. pc' = "commit" /\ table' = ram[Slot][2] /\ level' = level - 1
      BY <1>1, <1>4 DEF LoadTable
    <2>2. PlacesOK'
      <3>1. heap.current \in Nat /\ Aligned(j') /\ paging_queue' = Queued
        BY <1>1, <1>2 DEF BootInv, TypeOK, PlacesOK, QueueOK
      <3>2. \A b \in 1 .. Len(blocks') : blocks'[b].start + blocks'[b].words <= heap'.current
        BY <1>1, <1>2 DEF PlacesOK, BlocksOK, AfterHeap
      <3>3. heap.current <= heap'.current
        BY <1>1, <3>1
      <3> QED BY <1>1, <1>2, <2>1, <3>1, <3>2, <3>3, PlacesCommit
    <2>3. PICK L, P :
              /\ Tree(ram, TablePages, L, P) /\ WalkAt(L, P)
              /\ \A v \in Space, x \in Nat :
                    Leaf(ram, TablePages, L, P, v, x) <=> Done(paging_queue, region, j, v, x)
      BY <1>1, <1>2 DEF MapsOK
    <2> DEFINE s == Index(VirtPage, level)
    <2>4. /\ VirtPage \in Nat /\ VirtPage' = VirtPage /\ InRegion'
          /\ level \in 0 .. (Levels - 1) /\ TablePages' = TablePages
      BY <1>1, <1>2, WalkFacts DEF VirtPage, InRegion, TablePages, BootInv, TypeOK
    <2>5. s \in Digits /\ Prefix(VirtPage, level) = Prefix(VirtPage, level + 1) * Radix + s
      BY <2>4, PrefixFacts
    <2>6. Slot = table * Radix + s
      BY DEF Slot
    <2> HIDE DEF s
    <2>7. table \in TablePages /\ L[table] = level /\ P[table] = Prefix(VirtPage, level + 1)
      BY <1>1, <2>3 DEF WalkAt
    <2>8. PICK x \in Nat : /\ ram[Slot] = Entry(x) /\ x \in TablePages /\ L[x] = L[table] - 1
                           /\ P[x] = P[table] * Radix + s
      BY <1>1, <2>3, <2>5, <2>6, <2>7 DEF Tree
    <2>9. table' = x
      BY <2>1, <2>8, EntryFacts
    <2>10. level' + 1 = level
      BY <2>1, <2>4
    <2>11. WalkAt(L, P)'
      <3>1. P[table'] = Prefix(VirtPage', level' + 1) /\ table' \in TablePages' /\ L[table'] = level'
        BY <2>1, <2>4, <2>5, <2>7, <2>8, <2>9, <2>10
      <3> QED BY <2>4, <3>1 DEF WalkAt
    <2>12. MapsOK'
      BY <1>1, <2>3, <2>4, <2>11 DEF MapsOK
    <2> QED BY <2>2, <2>12 DEF MapInv
  <1> QED BY <1>3, <1>4

\* A walk that begins is at paging_pml4, whose prefix is nobody's digits.
LEMMA WalkBegins ==
    ASSUME NEW q, NEW V, NEW X, NEW N, IsPlan(q, V, X, N), NEW r \in Nat, r >= 1, r <= Len(q),
           NEW o, Aligned(o), o < q[r].words
    PROVE  Prefix(PageOf(q[r].virt + o), Levels) = 0
  <1>1. PageOf(q[r].virt + o) \in Space /\ PageOf(q[r].virt + o) \in Nat
    BY PlanAt
  <1> QED BY <1>1, PrefixFacts

\* The page that paging_commit maps next is all that it adds.
LEMMA DoneNext ==
    ASSUME NEW q, NEW V, NEW X, NEW N, IsPlan(q, V, X, N),
           NEW r \in 1 .. 5, NEW m \in Nat, m < N[r], NEW v, NEW x
    PROVE  Done(q, r, m * Radix + Radix, v, x) <=>
              IF v = V[r] + m THEN x = X[r] + m ELSE Done(q, r, m * Radix, v, x)
  <1> DEFINE a == m * Radix
  <1>1. \A n \in Nat : (n * Radix < a <=> n < m) /\ (n * Radix < a + Radix <=> n < m \/ n = m)
    <2> TAKE n \in Nat
    <2>1. n * Radix < a <=> n < m
      BY PagesBefore
    <2>2. m + 1 \in Nat /\ (m + 1) * Radix = a + Radix
      BY PageArith, SizeFacts
    <2>3. n * Radix < (m + 1) * Radix <=> n < m + 1
      BY <2>2, PagesBefore
    <2> QED BY <2>1, <2>2, <2>3
  <1>2. \A o : Done(q, r, o, v, x) <=>
            \E n \in 1 .. 5, k \in Nat :
               /\ k < N[n] /\ (n < r \/ (n = r /\ k * Radix < o))
               /\ v = V[n] + k /\ x = X[n] + k
    BY DoneIs
  <1>3. \A s \in 1 .. 5, n \in Nat : n < N[s] /\ V[s] + n = V[r] + m => s = r /\ n = m
    BY PlanOnce
  <1> HIDE DEF a
  <1>4. Done(q, r, a, v, x) <=>
            \E n \in 1 .. 5, k \in Nat :
               k < N[n] /\ (n < r \/ (n = r /\ k < m)) /\ v = V[n] + k /\ x = X[n] + k
    BY <1>1, <1>2
  <1>5. Done(q, r, a + Radix, v, x) <=>
            \E n \in 1 .. 5, k \in Nat :
               k < N[n] /\ (n < r \/ (n = r /\ (k < m \/ k = m))) /\ v = V[n] + k /\ x = X[n] + k
    BY <1>1, <1>2
  <1>6. CASE v = V[r] + m
    <2>1. \A n \in 1 .. 5, k \in Nat : k < N[n] /\ v = V[n] + k => n = r /\ k = m
      BY <1>3, <1>6
    <2> QED BY <1>5, <1>6, <2>1 DEF a
  <1>7. CASE v # V[r] + m
    BY <1>4, <1>5, <1>7 DEF a
  <1> QED BY <1>6, <1>7

\* A region of which every page is mapped is done, and of the next one nothing is.
LEMMA DoneRegion ==
    ASSUME NEW q, NEW V, NEW X, NEW N, IsPlan(q, V, X, N),
           NEW r \in 1 .. 5, NEW o \in Nat, q[r].words <= o, q[r].words \in Int, NEW v, NEW x
    PROVE  Done(q, r + 1, 0, v, x) <=> Done(q, r, o, v, x)
  <1>1. \A m \in Nat : m < N[r] => m * Radix < o
    <2> TAKE m \in Nat
    <2> HAVE m < N[r]
    <2>1. m * Radix \in Nat
      BY PageArith
    <2>2. m * Radix < q[r].words
      BY DEF IsPlan
    <2> QED BY <2>1, <2>2
  <1>2. \A m \in Nat : ~(m * Radix < 0)
    BY PageArith
  <1>3. \A n \in 1 .. 5 : n < r + 1 <=> n < r \/ n = r
    OBVIOUS
  <1> DEFINE R == r + 1
  <1>4. Done(q, R, 0, v, x) <=>
            \E n \in 1 .. 5, k \in Nat :
               /\ k < N[n] /\ (n < R \/ (n = R /\ k * Radix < 0))
               /\ v = V[n] + k /\ x = X[n] + k
    BY DoneIs
  <1>5. Done(q, r, o, v, x) <=>
            \E n \in 1 .. 5, k \in Nat :
               /\ k < N[n] /\ (n < r \/ (n = r /\ k * Radix < o))
               /\ v = V[n] + k /\ x = X[n] + k
    BY DoneIs
  <1>6. ASSUME NEW n \in 1 .. 5, NEW k \in Nat, k < N[n]
        PROVE  (n < R \/ (n = R /\ k * Radix < 0)) <=> (n < r \/ (n = r /\ k * Radix < o))
    BY <1>1, <1>2, <1>3, <1>6
  <1> HIDE DEF R
  <1>7. Done(q, R, 0, v, x) <=> Done(q, r, o, v, x)
    BY <1>4, <1>5, <1>6
  <1> QED BY <1>7 DEF R

\* pg_p1[index_p1] = entry: one more page is mapped, and the walk begins again.
LEMMA MapsStore ==
    ASSUME TidyBoot, MapInv, BootInv', StorePage
    PROVE  MapInv'
  <1>1. /\ pc = "commit" /\ pc' = "commit" /\ InRegion /\ level = 0
        /\ ram' = [ram EXCEPT ![Slot] = Entry(PageOf(paging_queue[region].phys + j))]
        /\ j' = j + Radix /\ level' = Levels - 1 /\ table' = Pml4
        /\ UNCHANGED <<virt_start, size, image, heap, blocks, paging_queue, region>>
    BY DEF StorePage, elfVars
  <1>2. SaneBoot /\ BootInv /\ PlacesOK /\ MapsOK
    BY DEF TidyBoot, MapInv
  <1>3. PICK m \in Nat :
            /\ j = m * Radix /\ region \in 1 .. 5 /\ m < PlanN[region]
            /\ IsPlan(paging_queue, PlanV, PlanX, PlanN)
            /\ VirtPage = PlanV[region] + m /\ VirtPage \in Space /\ VirtPage \in Nat
            /\ PageOf(paging_queue[region].phys + j) = PlanX[region] + m
            /\ PlanX[region] + m \in Nat
    BY <1>1, WalkFacts
  <1>4. Aligned(j') /\ m + 1 \in Nat /\ j' = (m + 1) * Radix
    BY <1>1, <1>3, PageArith, SizeFacts DEF Aligned
  <1> DEFINE w == VirtPage
             y == PlanX[region] + m
  <1>5. /\ OneEntry(ram, ram', TablePages, table, Index(w, level), Entry(y))
        /\ TablePages' = TablePages /\ TablePages \in SUBSET Nat
    BY <1>1, <1>3, SlotStore, TablePagesType DEF TablePages
  <1>6. PlacesOK'
    <2>1. heap.current \in Nat /\ paging_queue' = Queued
      BY <1>1, <1>2 DEF BootInv, TypeOK, PlacesOK, QueueOK
    <2>2. \A b \in 1 .. Len(blocks') : blocks'[b].start + blocks'[b].words <= heap'.current
      BY <1>1, <1>2 DEF PlacesOK, BlocksOK, AfterHeap
    <2>3. heap.current <= heap'.current
      BY <1>1, <2>1
    <2>4. \A a \in DOMAIN ram :
              PageOf(a) = Pml4 \/ (heap.base <= a /\ a < heap.current) \/ ram'[a] = ram[a]
      BY <1>1, <1>2, SlotUnique
    <2> QED BY <1>1, <1>2, <1>4, <2>1, <2>2, <2>3, <2>4, PlacesCommit
  <1>7. PICK L, P :
            /\ Tree(ram, TablePages, L, P) /\ WalkAt(L, P)
            /\ \A v \in Space, x \in Nat :
                  Leaf(ram, TablePages, L, P, v, x) <=> Done(paging_queue, region, j, v, x)
    BY <1>1, <1>2 DEF MapsOK
  <1>8. table \in TablePages /\ L[table] = 0 /\ P[table] = Prefix(w, 1)
    <2>1. level + 1 = 1
      BY <1>1
    <2> QED BY <1>1, <1>7, <2>1 DEF WalkAt
  <1> HIDE DEF w, y
  <1>9. Tree(ram', TablePages, L, P) /\ LeafStored(ram, ram', TablePages, L, P, w, y)
    <2>1. Stored(ram, ram', TablePages, L, P, table, w, y)
      BY <1>1, <1>3, <1>5, <1>7, <1>8 DEF Stored, w, y
    <2> QED BY <2>1, TreeStore
  <1>10. \A v \in Space, x \in Nat :
            Leaf(ram', TablePages', L, P, v, x) <=> Done(paging_queue', region', j', v, x)
    <2> TAKE v \in Space, x \in Nat
    <2>1. v \in Nat
      BY PowerType DEF Space, Levels
    <2>2. Leaf(ram', TablePages, L, P, v, x) <=> IF v = w THEN x = y ELSE Leaf(ram, TablePages, L, P, v, x)
      BY <1>9, <2>1 DEF LeafStored
    <2>3. Done(paging_queue, region, m * Radix + Radix, v, x) <=>
              IF v = PlanV[region] + m THEN x = PlanX[region] + m
              ELSE Done(paging_queue, region, m * Radix, v, x)
      BY <1>3, DoneNext
    <2>4. w = PlanV[region] + m
      BY <1>3 DEF w
    <2> QED BY <1>1, <1>3, <1>5, <1>7, <2>2, <2>3, <2>4 DEF y
  <1>11. WalkAt(L, P)'
    <2>1. Pml4 \in TablePages /\ L[Pml4] = Levels - 1 /\ P[Pml4] = 0
      BY <1>7 DEF Tree
    <2>2. ASSUME InRegion' PROVE Prefix(VirtPage', level' + 1) = 0
      <3>1. region <= Len(paging_queue) /\ j' < paging_queue[region].words
        BY <1>1, <2>2 DEF InRegion
      <3>2. Prefix(PageOf(paging_queue[region].virt + j'), Levels) = 0
        BY <1>3, <1>4, <3>1, WalkBegins
      <3>3. level' + 1 = Levels /\ VirtPage' = PageOf(paging_queue[region].virt + j')
        BY <1>1 DEF Levels, VirtPage
      <3> QED BY <3>2, <3>3
    <2> QED BY <1>1, <1>5, <2>1, <2>2 DEF WalkAt
  <1>12. MapsOK'
    BY <1>5, <1>9, <1>10, <1>11 DEF MapsOK
  <1> QED BY <1>6, <1>12 DEF MapInv

\* The next region: the tables are left alone.
LEMMA MapsNext ==
    ASSUME TidyBoot, MapInv, BootInv', NextRegion
    PROVE  MapInv'
  <1>1. /\ pc = "commit" /\ pc' = "commit" /\ ~InRegion /\ region <= Len(paging_queue)
        /\ region' = region + 1 /\ j' = 0
        /\ UNCHANGED <<ram, virt_start, size, image, heap, blocks, paging_queue, level, table>>
    BY DEF NextRegion, elfVars
  <1>2. BootInv /\ PlacesOK /\ MapsOK
    BY DEF MapInv
  <1>3. /\ IsPlan(paging_queue, PlanV, PlanX, PlanN) /\ paging_queue = Queued
        /\ region \in Nat /\ region >= 1 /\ j \in Nat /\ heap.current \in Nat
        /\ TablePages' = TablePages /\ TablePages \in SUBSET Nat
    <2>1. pc \in AfterImage
      BY <1>1 DEF AfterImage, AfterHeap
    <2>2. IsPlan(Queued, PlanV, PlanX, PlanN) /\ paging_queue = Queued
      BY <1>1, <1>2, <2>1, QueuedIsPlan DEF PlacesOK, QueueOK
    <2>3. region \in Nat /\ region >= 1 /\ j \in Nat /\ heap.current \in Nat
      BY <1>2 DEF BootInv, TypeOK
    <2> QED BY <1>1, <2>2, <2>3, TablePagesType DEF TablePages
  <1>4. region \in 1 .. 5 /\ paging_queue[region].words \in Int /\ paging_queue[region].words <= j
    <2>1. region \in 1 .. 5 /\ region \in 1 .. Len(paging_queue)
      BY <1>1, <1>3 DEF IsPlan
    <2>2. paging_queue[region].words \in Int
      <3> DEFINE R == [phys: Nat, virt: Nat, words: Nat]
      <3>1. paging_queue \in Seq(R)
        BY <1>2 DEF BootInv, TypeOK
      <3> HIDE DEF R
      <3>2. paging_queue[region] \in R
        BY <2>1, <3>1
      <3>3. paging_queue[region].words \in Nat
        BY <3>2 DEF R
      <3> QED BY <3>3
    <2> QED BY <1>1, <1>3, <2>1, <2>2 DEF InRegion
  <1>5. Aligned(0)
    <2>1. 0 * Radix = 0
      BY SizeFacts
    <2> QED BY <2>1 DEF Aligned
  <1>6. PlacesOK'
    <2>1. \A b \in 1 .. Len(blocks') : blocks'[b].start + blocks'[b].words <= heap'.current
      BY <1>1, <1>2 DEF PlacesOK, BlocksOK, AfterHeap
    <2>2. heap.current <= heap'.current
      BY <1>1, <1>3
    <2> QED BY <1>1, <1>2, <1>3, <1>5, <2>1, <2>2, PlacesCommit
  <1>7. PICK L, P :
            /\ Tree(ram, TablePages, L, P) /\ WalkAt(L, P)
            /\ \A v \in Space, x \in Nat :
                  Leaf(ram, TablePages, L, P, v, x) <=> Done(paging_queue, region, j, v, x)
    BY <1>1, <1>2 DEF MapsOK
  <1>8. table \in TablePages /\ L[table] = level /\ level = Levels - 1
    BY <1>1, <1>7 DEF WalkAt
  <1>9. table = Pml4 /\ P[table] = 0
    <2>1. table = Pml4
      BY <1>3, <1>7, <1>8, NamedBy
    <2> QED BY <1>7, <2>1 DEF Tree
  <1>10. WalkAt(L, P)'
    <2>1. ASSUME InRegion' PROVE Prefix(VirtPage', level' + 1) = 0
      <3>1. region + 1 <= Len(paging_queue) /\ 0 < paging_queue[region + 1].words
        BY <1>1, <2>1 DEF InRegion
      <3>2. region + 1 \in Nat /\ region + 1 >= 1
        BY <1>3
      <3>3. Prefix(PageOf(paging_queue[region + 1].virt + 0), Levels) = 0
        BY <1>3, <1>5, <3>1, <3>2, WalkBegins
      <3>4. level' + 1 = Levels /\ VirtPage' = PageOf(paging_queue[region + 1].virt + 0)
        BY <1>1, <1>8 DEF Levels, VirtPage
      <3> QED BY <3>3, <3>4
    <2> QED BY <1>1, <1>3, <1>8, <1>9, <2>1 DEF WalkAt
  <1>11. \A v \in Space, x \in Nat :
            Leaf(ram', TablePages', L, P, v, x) <=> Done(paging_queue', region', j', v, x)
    <2> TAKE v \in Space, x \in Nat
    <2>1. Done(paging_queue, region + 1, 0, v, x) <=> Done(paging_queue, region, j, v, x)
      BY <1>3, <1>4, DoneRegion
    <2> QED BY <1>1, <1>3, <1>7, <2>1
  <1>12. MapsOK'
    BY <1>1, <1>3, <1>7, <1>10, <1>11 DEF MapsOK
  <1> QED BY <1>6, <1>12 DEF MapInv

\* Lobo is entered in the address space as it is.
LEMMA MapsEnter ==
    ASSUME TidyBoot, MapInv, BootInv', kernel_enter
    PROVE  MapInv'
  <1>1. /\ pc = "commit" /\ pc' = "entered" /\ region > Len(paging_queue) /\ awd_info' = Handover
        /\ UNCHANGED <<ram, virt_start, size, image, heap, blocks, paging_queue, region, j>>
    BY DEF kernel_enter, elfVars, walkVars
  <1>2. BootInv /\ PlacesOK /\ MapsOK /\ pc \in AfterHeap /\ pc' \in AfterImage
    BY <1>1 DEF MapInv, AfterHeap, AfterImage
  <1>3. QueueOK'
    <2>1. paging_queue = Queued /\ Aligned(j) /\ Queued' = Queued /\ Handover' = Handover
      BY <1>1, <1>2 DEF PlacesOK, QueueOK, Queued, Handover
    <2>2. pc' \notin BeforeHeap \union {"image", "load", "queue"}
      BY <1>1 DEF BeforeHeap
    <2> QED BY <1>1, <2>1, <2>2 DEF QueueOK
  <1>4. PlacesOK'
    <2>1. \A b \in 1 .. Len(blocks') : blocks'[b].start + blocks'[b].words <= heap'.current
      BY <1>1, <1>2 DEF PlacesOK, BlocksOK
    <2>2. heap.current \in Nat
      BY <1>2 DEF BootInv, TypeOK
    <2>3. heap.current <= heap'.current
      BY <1>1, <2>2
    <2> QED BY <1>1, <1>2, <1>3, <2>1, <2>3, PlacesLate
  <1>5. TablePages' = TablePages
    BY <1>1 DEF TablePages
  <1>6. MapsOK'
    <2>1. PICK L, P :
              /\ Tree(ram, TablePages, L, P)
              /\ \A v \in Space, x \in Nat :
                    Leaf(ram, TablePages, L, P, v, x) <=> Done(paging_queue, region, j, v, x)
      BY <1>1, <1>2 DEF MapsOK
    <2> QED BY <1>1, <1>5, <2>1 DEF MapsOK
  <1> QED BY <1>4, <1>6 DEF MapInv

\* Every step keeps the invariant of a boot into clean memory.
LEMMA MapStep ==
    ASSUME TidyBoot, MapInv, [Next]_vars
    PROVE  MapInv'
  <1>0. SaneBoot /\ BootInv /\ PlacesOK /\ BootInv'
    <2>1. SaneBoot /\ BootInv /\ PlacesOK
      BY DEF TidyBoot, MapInv
    <2> QED BY <2>1, BootStep
  <1>1. CASE UNCHANGED vars
    <2>1. UNCHANGED <<mb, pc, ram, kernel, i, virt_start, size, image, heap, blocks,
                      paging_queue, region, j, level, table, awd_info>>
      BY <1>1 DEF vars
    <2>2. /\ Modules' = Modules /\ TablePages' = TablePages /\ Queued' = Queued /\ Handover' = Handover
          /\ VirtPage' = VirtPage /\ (InRegion' <=> InRegion)
      BY <2>1 DEF Modules, TablePages, Queued, Handover, VirtPage, InRegion
    <2>3. MemoryOK' /\ SpaceOK' /\ QueueOK' /\ BlocksOK'
      BY <1>0, <2>1, <2>2 DEF PlacesOK, MemoryOK, SpaceOK, QueueOK, BlocksOK
    <2>4. MapsOK'
      BY <2>1, <2>2 DEF MapInv, MapsOK, WalkAt
    <2> QED BY <1>0, <2>3, <2>4 DEF MapInv, PlacesOK
  <1>2. CASE Verify \/ multiboot_analyse
    <2>1. pc' \notin {"commit", "entered"}
      BY <1>2 DEF Verify, multiboot_analyse, Halt
    <2> QED BY <1>0, <1>2, <2>1, PlacesVerify, MapsStop
  <1>3. CASE kernel_analyse
    <2>1. pc' \notin {"commit", "entered"}
      BY <1>3 DEF kernel_analyse, Halt
    <2> QED BY <1>0, <1>3, <2>1, PlacesAnalyse, MapsStop
  <1>4. CASE memory_heap_init
    <2>1. pc' \notin {"commit", "entered"}
      BY <1>4 DEF memory_heap_init
    <2> QED BY <1>0, <1>4, <2>1, PlacesHeap, MapsStop
  <1>5. CASE AllocateImage
    <2>1. pc' \notin {"commit", "entered"}
      BY <1>5 DEF AllocateImage, Halt
    <2> QED BY <1>0, <1>5, <2>1, PlacesImage, MapsStop
  <1>6. CASE kernel_load
    <2>1. pc' \notin {"commit", "entered"}
      BY <1>6 DEF kernel_load
    <2> QED BY <1>0, <1>6, <2>1, PlacesLoad, MapsStop
  <1>7. CASE paging_init
    BY <1>0, <1>7, MapsInit
  <1>8. CASE CreateTable \/ LoadTable
    BY <1>0, <1>8, MapsCreate, MapsLoad
  <1>9. CASE StorePage \/ NextRegion
    BY <1>0, <1>9, MapsStore, MapsNext
  <1>10. CASE kernel_enter
    BY <1>0, <1>10, MapsEnter
  <1> QED BY <1>1, <1>2, <1>3, <1>4, <1>5, <1>6, <1>7, <1>8, <1>9, <1>10 DEF Next, paging_commit

\* Throughout a boot into clean memory the tables that paging_map_page builds are a tree
\* which maps the pages that paging_commit has come to, and no other.
THEOREM MapInvariant ==
    ASSUME TidyBoot
    PROVE  Spec => []MapInv
  <1>1. Init => MapInv
    <2> SUFFICES ASSUME Init PROVE MapInv
      OBVIOUS
    <2>1. BootInv /\ PlacesOK
      BY InitBoot, PlacesInit DEF TidyBoot
    <2>2. MapsOK
      BY DEF Init, MapsOK
    <2> QED BY <2>1, <2>2 DEF MapInv
  <1>2. MapInv /\ [Next]_vars => MapInv'
    BY MapStep
  <1> QED BY <1>1, <1>2, PTL DEF Spec

-----------------------------------------------------------------------------
(* The address space that Lobo is entered in *)

\* The pages of the five regions, counted.
LEMMA PlanPages ==
    ASSUME TidyBoot, MapInv, pc = "entered"
    PROVE  LET B == PageOf(heap.base)
               S == PageOf(virt_start)
               Z == PageOf(size)
           IN  /\ IsPlan(paging_queue, PlanV, PlanX, PlanN)
               /\ PlanV[1] = 0 /\ PlanV[2] = LowPages /\ PlanV[3] = B /\ PlanV[4] = VMB /\ PlanV[5] = S
               /\ PlanX[1] = 0 /\ PlanX[2] = LowPages /\ PlanX[3] = B /\ PlanX[4] = 0 /\ PlanX[5] = B
               /\ PlanN[1] = LowPages /\ PlanN[2] = AwdPages /\ PlanN[3] = HeapPages
               /\ PlanN[4] = WindowPages /\ PlanN[5] = Z
               /\ B \in Nat /\ S \in Nat /\ Z \in Nat /\ VMB \in Nat /\ Pml4 \in Nat
               /\ HeapPages \in Nat /\ WindowPages \in Nat /\ LowPages \in Nat /\ AwdPages \in Nat
               /\ heap.base = B * Radix /\ virt_start = S * Radix /\ size = Z * Radix /\ image = B * Radix
               /\ heap.limit = (B + HeapPages) * Radix /\ LowPages + AwdPages = Pml4 + 1
               /\ Pml4 + 1 <= B /\ B + HeapPages <= WindowPages /\ WindowPages <= VMB
               /\ VMB + WindowPages <= S
  <1> DEFINE B == PageOf(heap.base)
             S == PageOf(virt_start)
             Z == PageOf(size)
  <1>1. pc \in AfterImage
    BY DEF AfterImage, AfterHeap
  <1>2. BootInv /\ MemoryOK /\ SpaceOK /\ paging_queue = Queued
    BY DEF MapInv, PlacesOK, QueueOK
  <1>3. /\ IsPlan(paging_queue, PlanV, PlanX, PlanN)
        /\ Aligned(heap.base) /\ Aligned(virt_start) /\ Aligned(size) /\ image = heap.base
        /\ heap.limit = heap.base + HeapPages * Radix /\ B + HeapPages <= WindowPages
    BY <1>1, <1>2, QueuedIsPlan
  <1>4. /\ B \in Nat /\ S \in Nat /\ Z \in Nat
        /\ heap.base = B * Radix /\ virt_start = S * Radix /\ size = Z * Radix
    BY <1>3, PageOfPages
  <1>5. /\ LowPages \in Nat /\ AwdPages \in Nat /\ HeapPages \in Nat /\ WindowPages \in Nat
        /\ VMB \in Nat /\ Pml4 \in Nat /\ LowPages + AwdPages = Pml4 + 1
    BY SizeFacts DEF Pml4
  <1>6. /\ PlanV[1] = 0 /\ PlanV[2] = LowPages /\ PlanV[3] = B /\ PlanV[4] = VMB /\ PlanV[5] = S
        /\ PlanX[1] = 0 /\ PlanX[2] = LowPages /\ PlanX[3] = B /\ PlanX[4] = 0 /\ PlanX[5] = B
        /\ PlanN[1] = LowPages /\ PlanN[2] = AwdPages /\ PlanN[3] = HeapPages
        /\ PlanN[4] = WindowPages /\ PlanN[5] = Z
    BY <1>3 DEF PlanV, PlanX, PlanN
  <1>7. heap.limit = (B + HeapPages) * Radix
    BY <1>3, <1>4, <1>5, PageArith
  <1> HIDE DEF B, S, Z
  <1>8. \A r, s \in 1 .. 5 : r < s => PlanV[r] + PlanN[r] <= PlanV[s]
    BY <1>3 DEF IsPlan
  <1>9. Pml4 + 1 <= B /\ VMB + WindowPages <= S
    <2>1. PlanV[2] + PlanN[2] <= PlanV[3] /\ PlanV[4] + PlanN[4] <= PlanV[5]
      BY <1>8
    <2> QED BY <1>5, <1>6, <2>1
  <1>10. WindowPages <= VMB
    BY DEF TidyBoot
  <1> QED BY <1>3, <1>4, <1>5, <1>6, <1>7, <1>9, <1>10 DEF B, S, Z

\* The tables translate exactly the pages of the regions.
LEMMA EnteredMaps ==
    ASSUME TidyBoot, MapInv, pc = "entered", NEW v \in Space
    PROVE  /\ Translation(v) \in Nat \union {None}
           /\ \A x \in Nat : Translation(v) = x <=>
                 \E n \in 1 .. 5, m \in Nat : m < PlanN[n] /\ v = PlanV[n] + m /\ x = PlanX[n] + m
  <1>1. PICK L, P :
            /\ Tree(ram, TablePages, L, P)
            /\ \A u \in Space, x \in Nat :
                  Leaf(ram, TablePages, L, P, u, x) <=> Done(paging_queue, region, j, u, x)
    BY DEF MapInv, MapsOK
  <1>2. /\ Translation(v) \in Nat \union {None}
        /\ \A x \in Nat : Leaf(ram, TablePages, L, P, v, x) <=> Translation(v) = x
    BY <1>1, TablePagesType, TranslationLeaf
  <1>3. IsPlan(paging_queue, PlanV, PlanX, PlanN) /\ region > 5 /\ region \in Nat
    <2>1. IsPlan(paging_queue, PlanV, PlanX, PlanN)
      BY PlanPages
    <2>2. region > Len(paging_queue) /\ region \in Nat
      BY DEF MapInv, PlacesOK, QueueOK, BootInv, TypeOK
    <2> QED BY <2>1, <2>2 DEF IsPlan
  <1>4. \A x : Done(paging_queue, region, j, v, x) <=>
            \E n \in 1 .. 5, m \in Nat :
               /\ m < PlanN[n] /\ (n < region \/ (n = region /\ m * Radix < j))
               /\ v = PlanV[n] + m /\ x = PlanX[n] + m
    BY <1>3, DoneIs
  <1>5. \A n \in 1 .. 5 : n < region
    BY <1>3
  <1> QED BY <1>1, <1>2, <1>4, <1>5

\* The same, region by region.
LEMMA EnteredPages ==
    ASSUME TidyBoot, MapInv, pc = "entered", NEW v \in Space
    PROVE  LET B == PageOf(heap.base)
               S == PageOf(virt_start)
           IN  /\ v <= Pml4 \/ (B <= v /\ v < B + HeapPages) => Translation(v) = v
               /\ VMB <= v /\ v < VMB + WindowPages => Translation(v) = v - VMB
               /\ S <= v /\ v < S + PageOf(size) => Translation(v) = B + (v - S)
               /\ \/ v <= Pml4 \/ (B <= v /\ v < B + HeapPages) \/ (VMB <= v /\ v < VMB + WindowPages)
                  \/ (S <= v /\ v < S + PageOf(size))
                  \/ Translation(v) = None
  <1> DEFINE B == PageOf(heap.base)
             S == PageOf(virt_start)
             Z == PageOf(size)
             t == Translation(v)
  <1>1. v \in Nat
    BY PowerType DEF Space, Levels
  <1>2. /\ PlanV[1] = 0 /\ PlanV[2] = LowPages /\ PlanV[3] = B /\ PlanV[4] = VMB /\ PlanV[5] = S
        /\ PlanX[1] = 0 /\ PlanX[2] = LowPages /\ PlanX[3] = B /\ PlanX[4] = 0 /\ PlanX[5] = B
        /\ PlanN[1] = LowPages /\ PlanN[2] = AwdPages /\ PlanN[3] = HeapPages
        /\ PlanN[4] = WindowPages /\ PlanN[5] = Z
        /\ B \in Nat /\ S \in Nat /\ Z \in Nat /\ VMB \in Nat /\ Pml4 \in Nat
        /\ HeapPages \in Nat /\ WindowPages \in Nat /\ LowPages \in Nat /\ AwdPages \in Nat
        /\ LowPages + AwdPages = Pml4 + 1
    BY PlanPages
  <1>3. t \in Nat \union {None}
    BY EnteredMaps
  <1>4. \A x \in Nat : t = x <=>
            \E n \in 1 .. 5, m \in Nat : m < PlanN[n] /\ v = PlanV[n] + m /\ x = PlanX[n] + m
    BY EnteredMaps
  <1> HIDE DEF B, S, Z, t
  <1>5. \A n \in 1 .. 5, m \in Nat :
            m < PlanN[n] /\ v = PlanV[n] + m /\ PlanX[n] + m \in Nat => t = PlanX[n] + m
    BY <1>4
  <1>6. ASSUME v < LowPages PROVE t = v
    <2>1. v < PlanN[1] /\ v = PlanV[1] + v /\ PlanX[1] + v = v
      BY <1>1, <1>2, <1>6
    <2> QED BY <1>1, <1>5, <2>1
  <1> USE <1>1
  <1>7. ASSUME LowPages <= v, v <= Pml4 PROVE t = v
    <2>1. /\ v - LowPages \in Nat /\ v - LowPages < PlanN[2] /\ v = PlanV[2] + (v - LowPages)
          /\ PlanX[2] + (v - LowPages) = v
      BY <1>2, <1>7
    <2> QED BY <1>5, <2>1
  <1>8. ASSUME B <= v, v < B + HeapPages PROVE t = v
    <2>1. /\ v - B \in Nat /\ v - B < PlanN[3] /\ v = PlanV[3] + (v - B) /\ PlanX[3] + (v - B) = v
      BY <1>2, <1>8
    <2> QED BY <1>5, <2>1
  <1>9. ASSUME VMB <= v, v < VMB + WindowPages PROVE t = v - VMB
    <2>1. /\ v - VMB \in Nat /\ v - VMB < PlanN[4] /\ v = PlanV[4] + (v - VMB)
          /\ PlanX[4] + (v - VMB) = v - VMB
      BY <1>2, <1>9
    <2> QED BY <1>5, <2>1
  <1>10. ASSUME S <= v, v < S + Z PROVE t = B + (v - S)
    <2>1. /\ v - S \in Nat /\ v - S < PlanN[5] /\ v = PlanV[5] + (v - S)
          /\ PlanX[5] + (v - S) = B + (v - S) /\ B + (v - S) \in Nat
      BY <1>2, <1>10
    <2> QED BY <1>5, <2>1
  <1>11. ASSUME t # None
         PROVE  \/ v <= Pml4 \/ (B <= v /\ v < B + HeapPages) \/ (VMB <= v /\ v < VMB + WindowPages)
                \/ (S <= v /\ v < S + Z)
    <2>1. PICK n \in 1 .. 5, m \in Nat : m < PlanN[n] /\ v = PlanV[n] + m
      BY <1>3, <1>4, <1>11
    <2>2. n = 1 \/ n = 2 \/ n = 3 \/ n = 4 \/ n = 5
      OBVIOUS
    <2> QED BY <1>2, <2>1, <2>2
  <1>12. v <= Pml4 => v < LowPages \/ LowPages <= v
    BY <1>2
  <1> QED BY <1>6, <1>7, <1>8, <1>9, <1>10, <1>11, <1>12 DEF B, S, Z, t

\* What paging_init asks for, in pages.
LEMMA RequestedPages ==
    ASSUME TidyBoot, MapInv, pc = "entered", NEW v \in Space
    PROVE  LET B == PageOf(heap.base)
               S == PageOf(virt_start)
           IN  /\ v <= Pml4 \/ (B <= v /\ v < B + HeapPages) => Requested(v) = v
               /\ VMB <= v /\ v < VMB + WindowPages => Requested(v) = v - VMB
               /\ S <= v /\ v < S + PageOf(size) => Requested(v) = B + (v - S)
               /\ \/ v <= Pml4 \/ (B <= v /\ v < B + HeapPages) \/ (VMB <= v /\ v < VMB + WindowPages)
                  \/ (S <= v /\ v < S + PageOf(size))
                  \/ Requested(v) = None
  <1> DEFINE B == PageOf(heap.base)
             S == PageOf(virt_start)
             Z == PageOf(size)
             H == (0 .. Pml4) \union (B .. PageOf(heap.limit - 1))
             W == VMB .. (VMB + WindowPages - 1)
             I == virt_start .. (virt_start + size - 1)
             to == PageOf(image + v * Radix - virt_start)
  <1>1. v \in Nat
    BY PowerType DEF Space, Levels
  <1>2. /\ B \in Nat /\ S \in Nat /\ Z \in Nat /\ VMB \in Nat /\ Pml4 \in Nat
        /\ HeapPages \in Nat /\ WindowPages \in Nat
        /\ virt_start = S * Radix /\ size = Z * Radix /\ image = B * Radix
        /\ heap.limit = (B + HeapPages) * Radix
        /\ Pml4 + 1 <= B /\ B + HeapPages <= WindowPages /\ WindowPages <= VMB
        /\ VMB + WindowPages <= S
    BY PlanPages
  <1>3. Requested(v) = CASE v \in H -> v [] v \in W -> v - VMB [] v * Radix \in I -> to [] OTHER -> None
    BY DEF Requested
  <1> HIDE DEF B, S, Z, to
  <1>4. v \in H <=> v <= Pml4 \/ (B <= v /\ v < B + HeapPages)
    <2>1. PageOf(heap.limit - 1) = (B + HeapPages) - 1
      <3> DEFINE n == (B + HeapPages) - 1
                 a == n * Radix
                 s == Radix - 1
      <3>1. n \in Nat /\ s \in 0 .. (Radix - 1) /\ Radix \in Nat
        BY <1>2, SizeFacts
      <3>2. heap.limit = a + Radix /\ a \in Nat
        <4>1. n + 1 = B + HeapPages /\ 1 * Radix = Radix /\ 1 \in Nat
          BY <1>2, <3>1
        <4>2. (n + 1) * Radix = n * Radix + 1 * Radix
          BY <3>1, PageArith
        <4> QED BY <1>2, <3>1, <4>1, <4>2, PageArith
      <3>3. PageOf(n * Radix + s) = n
        BY <3>1, PageWords
      <3> HIDE DEF a
      <3>4. heap.limit - 1 = a + s
        BY <3>1, <3>2
      <3> QED BY <3>3, <3>4 DEF a
    <2> QED BY <1>1, <1>2, <2>1
  <1>5. v \in W <=> VMB <= v /\ v < VMB + WindowPages
    BY <1>1, <1>2
  <1>6. v * Radix \in I <=> S <= v /\ v < S + Z
    <2> DEFINE a == v * Radix
               b == S * Radix
               c == Z * Radix
    <2>1. a \in Nat /\ b \in Nat /\ c \in Nat /\ S + Z \in Nat /\ (S + Z) * Radix = b + c
      BY <1>1, <1>2, PageArith
    <2>2. (b <= a <=> S <= v) /\ (a < (S + Z) * Radix <=> v < S + Z)
      <3>1. b <= a <=> S <= v
        BY <1>1, <1>2, PageArith
      <3> QED BY <1>1, <2>1, <3>1, PagesBefore
    <2> HIDE DEF a, b, c
    <2>3. a \in b .. (b + c - 1) <=> b <= a /\ a < b + c
      BY <2>1
    <2> QED BY <1>2, <2>1, <2>2, <2>3 DEF a, b, c
  <1>7. ASSUME S <= v PROVE to = B + (v - S)
    <2> DEFINE n == v - S
    <2>1. n \in Nat /\ v = S + n
      BY <1>1, <1>2, <1>7
    <2> HIDE DEF n
    <2> DEFINE a == S * Radix
               b == B * Radix
               c == n * Radix
    <2>2. a \in Nat /\ b \in Nat /\ c \in Nat /\ v * Radix = a + c
      BY <1>2, <2>1, PageArith
    <2>3. PageOf(b + c) = B + n
      BY <1>2, <2>1, PageOfPages
    <2> HIDE DEF a, b, c
    <2>4. image + v * Radix - virt_start = b + c
      <3>1. b + (a + c) - a = b + c
        BY <2>2
      <3> QED BY <1>2, <2>2, <3>1 DEF a, b
    <2> QED BY <2>3, <2>4 DEF to, n
  <1> HIDE DEF H, W, I
  <1>8. /\ v \in H => ~(v \in W) /\ ~(v * Radix \in I)
        /\ v \in W => ~(v * Radix \in I)
    BY <1>1, <1>2, <1>4, <1>5, <1>6
  <1>9. /\ v \in H => Requested(v) = v
        /\ v \in W => Requested(v) = v - VMB
        /\ v * Radix \in I => Requested(v) = to
        /\ v \in H \/ v \in W \/ v * Radix \in I \/ Requested(v) = None
    BY <1>3, <1>8
  <1> QED BY <1>4, <1>5, <1>6, <1>7, <1>9 DEF B, S, Z

\* When kernel_enter is called, every page of the address space translates as paging_init
\* asked and no other is mapped: paging_commit's loops over the five regions of paging_init,
\* whose ends are recorded in two ways, come out neither a page short nor a page long.
THEOREM TablesExact ==
    ASSUME TidyBoot
    PROVE  Spec => []MappedExactly
  <1>1. ASSUME MapInv PROVE MappedExactly
    <2> SUFFICES ASSUME pc = "entered", NEW v \in Space PROVE Translation(v) = Requested(v)
      BY DEF MappedExactly, Space
    <2> QED BY <1>1, EnteredPages, RequestedPages
  <1> QED BY <1>1, MapInvariant, PTL

\* Lobo finds the rest of AWD's heap where kernel_early looks for it, at KERNEL_VMB behind
\* awd_info's pointers, and nothing that malloc_aligned returned to AWD lies in it.
THEOREM HeapHandedOver ==
    ASSUME TidyBoot
    PROVE  Spec => []HeapReachable
  <1>1. ASSUME MapInv PROVE HeapReachable
    <2> SUFFICES ASSUME pc = "entered" PROVE HeapReachable
      BY DEF HeapReachable
    <2>1. /\ awd_info.ptr_malloc_current = heap.current /\ awd_info.ptr_malloc_limit = heap.limit
          /\ \A b \in 1 .. Len(blocks) : blocks[b].start + blocks[b].words <= heap.current
      BY <1>1 DEF MapInv, PlacesOK, QueueOK, BlocksOK, Handover, AfterHeap
    <2>2. ASSUME NEW a \in heap.current .. (heap.limit - 1)
          PROVE  Translation(VMB + PageOf(a)) = PageOf(a)
      <3> DEFINE p == PageOf(a)
                 B == PageOf(heap.base)
      <3>1. /\ B \in Nat /\ VMB \in Nat /\ HeapPages \in Nat /\ WindowPages \in Nat
            /\ heap.limit = (B + HeapPages) * Radix /\ B + HeapPages <= WindowPages
        BY <1>1, PlanPages
      <3>2. heap.current \in Nat /\ heap.limit \in Nat
        BY <1>1 DEF MapInv, BootInv, TypeOK
      <3>3. a \in Nat /\ a < heap.limit
        BY <2>2, <3>2
      <3>4. p \in Nat
        BY <3>3, PageOfFacts
      <3> HIDE DEF B
      <3>5. p < B + HeapPages
        <4>1. B + HeapPages \in Nat
          BY <3>1
        <4> QED BY <3>1, <3>3, <4>1, PageOfFacts
      <3> HIDE DEF p
      <3> DEFINE v == VMB + p
      <3>6. VMB <= v /\ v < VMB + WindowPages /\ v - VMB = p
        BY <3>1, <3>4, <3>5
      <3>7. v \in Space
        <4>1. PlanV[4] + PlanN[4] <= Power[Levels] /\ PlanV[4] = VMB /\ PlanN[4] = WindowPages
          BY <1>1, PlanPages DEF IsPlan
        <4>2. Power[Levels] \in Nat
          BY PowerType DEF Levels
        <4> QED BY <3>1, <3>4, <3>6, <4>1, <4>2 DEF Space
      <3> HIDE DEF v
      <3>8. Translation(v) = v - VMB
        BY <1>1, <3>6, <3>7, EnteredPages
      <3> QED BY <3>6, <3>8 DEF v, p
    <2> QED BY <2>1, <2>2 DEF HeapReachable
  <1> QED BY <1>1, MapInvariant, PTL

-----------------------------------------------------------------------------
(* The image *)

\* The sections C of headers hs lie in an image of sz words linked at vs, none over another.
Fits(C, hs, base, vs, sz) ==
    /\ base \in Nat /\ vs \in Nat /\ sz \in Nat
    /\ \A h \in C :
          /\ hs[h].vaddr \in Nat /\ hs[h].filesz \in Nat /\ hs[h].memsz \in Nat /\ hs[h].offset \in Nat
          /\ hs[h].filesz <= hs[h].memsz /\ vs <= hs[h].vaddr
          /\ hs[h].vaddr + hs[h].memsz <= vs + sz
    /\ \A g, h \in C : g # h =>
          \/ hs[g].vaddr + hs[g].memsz <= hs[h].vaddr
          \/ hs[h].vaddr + hs[h].memsz <= hs[g].vaddr

\* A word of a section has its place in the image, and no other section goes over it.
LEMMA PlaceFacts ==
    ASSUME NEW C, NEW hs, NEW base, NEW vs, NEW sz, Fits(C, hs, base, vs, sz),
           NEW h \in C, NEW o \in 0 .. (hs[h].memsz - 1)
    PROVE  /\ o \in Nat /\ Place(hs, h, base, vs) \in Nat
           /\ Place(hs, h, base, vs) + o \in base .. (base + sz - 1)
           /\ \A g \in C : g # h => ~Over(hs, g, base, vs, Place(hs, h, base, vs) + o)
           /\ Over(hs, h, base, vs, Place(hs, h, base, vs) + o) <=> o < hs[h].filesz
  <1> DEFINE v == hs[h].vaddr
             n == hs[h].memsz
             f == hs[h].filesz
             p == Place(hs, h, base, vs)
  <1>1. /\ base \in Nat /\ vs \in Nat /\ sz \in Nat /\ v \in Nat /\ n \in Nat /\ f \in Nat
        /\ vs <= v /\ v + n <= vs + sz
    BY DEF Fits
  <1>2. o \in Nat /\ o < n
    BY <1>1
  <1>3. p = base + (v - vs)
    BY DEF Place
  <1>4. Over(hs, h, base, vs, p + o) <=> p <= p + o /\ p + o < p + f
    BY DEF Over
  <1>5. ASSUME NEW g \in C, g # h PROVE ~Over(hs, g, base, vs, p + o)
    <2> DEFINE w == hs[g].vaddr
               m == hs[g].memsz
               e == hs[g].filesz
               q == Place(hs, g, base, vs)
    <2>1. /\ w \in Nat /\ m \in Nat /\ e \in Nat /\ e <= m /\ vs <= w
          /\ w + m <= v \/ v + n <= w
      BY <1>5 DEF Fits
    <2>2. q = base + (w - vs)
      BY DEF Place
    <2>3. Over(hs, g, base, vs, p + o) <=> q <= p + o /\ p + o < q + e
      BY DEF Over
    <2> HIDE DEF w, m, e, q, v, n, f, p
    <2>4. ~(q <= p + o /\ p + o < q + e)
      BY <1>1, <1>2, <1>3, <2>1, <2>2
    <2> QED BY <2>3, <2>4
  <1> HIDE DEF v, n, f, p
  <1>6. p \in Nat /\ p + o \in base .. (base + sz - 1) /\ (p <= p + o /\ p + o < p + f <=> o < f)
    BY <1>1, <1>2, <1>3
  <1> QED BY <1>2, <1>4, <1>5, <1>6 DEF p, f

\* Nothing is copied yet.
LEMMA PlacedNone ==
    ASSUME NEW mem, NEW hs, NEW k, NEW base, NEW vs, NEW sz,
           \A a \in base .. (base + sz - 1) : mem[a] = Zero
    PROVE  Placed(mem, {}, hs, k, base, vs, sz)
  BY DEF Placed

\* The image is left alone.
LEMMA PlacedSame ==
    ASSUME NEW mem, NEW mem2, NEW C, NEW hs, NEW k, NEW base, NEW vs, NEW sz,
           Fits(C, hs, base, vs, sz), Placed(mem, C, hs, k, base, vs, sz),
           \A a \in base .. (base + sz - 1) : mem2[a] = mem[a]
    PROVE  Placed(mem2, C, hs, k, base, vs, sz)
  <1>1. ASSUME NEW h \in C, NEW o \in 0 .. (hs[h].filesz - 1)
        PROVE  mem2[Place(hs, h, base, vs) + o] = File(k, hs[h].offset + o)
    <2>1. o \in 0 .. (hs[h].memsz - 1)
      BY DEF Fits
    <2>2. Place(hs, h, base, vs) + o \in base .. (base + sz - 1)
      BY <2>1, PlaceFacts
    <2> QED BY <2>2 DEF Placed
  <1> QED BY <1>1 DEF Placed

\* One more section is copied.
LEMMA PlacedCopy ==
    ASSUME NEW mem, NEW mem2, NEW C, NEW n, NEW hs, NEW k, NEW base, NEW vs, NEW sz,
           Fits(C \union {n}, hs, base, vs, sz), Placed(mem, C, hs, k, base, vs, sz), n \notin C,
           \A a \in base .. (base + sz - 1) : ~Over(hs, n, base, vs, a) => mem2[a] = mem[a],
           \A o \in 0 .. (hs[n].filesz - 1) :
              mem2[Place(hs, n, base, vs) + o] = File(k, hs[n].offset + o)
    PROVE  Placed(mem2, C \union {n}, hs, k, base, vs, sz)
  <1> DEFINE D == C \union {n}
  <1>1. ASSUME NEW h \in D, NEW o \in 0 .. (hs[h].filesz - 1)
        PROVE  mem2[Place(hs, h, base, vs) + o] = File(k, hs[h].offset + o)
    <2>1. CASE h = n
      BY <2>1
    <2>2. CASE h # n
      <3>1. o \in 0 .. (hs[h].memsz - 1)
        BY DEF Fits
      <3>2. /\ Place(hs, h, base, vs) + o \in base .. (base + sz - 1) /\ n \in D
            /\ \A g \in D : g # h => ~Over(hs, g, base, vs, Place(hs, h, base, vs) + o)
        BY <3>1, PlaceFacts
      <3>3. ~Over(hs, n, base, vs, Place(hs, h, base, vs) + o)
        BY <2>2, <3>2
      <3> QED BY <2>2, <3>2, <3>3 DEF Placed
    <2> QED BY <2>1, <2>2
  <1>2. ASSUME NEW a \in base .. (base + sz - 1), \A h \in D : ~Over(hs, h, base, vs, a)
        PROVE  mem2[a] = Zero
    BY <1>2 DEF Placed
  <1> QED BY <1>1, <1>2 DEF Placed

\* The sections of a well-formed kernel, and where its file has them.
LEMMA HeadersFit ==
    ASSUME LinkedBoot, BootInv, pc \in AfterImage
    PROVE  /\ Fits(Loads, Headers, image, virt_start, size)
           /\ kernel \in Modules /\ mb.mods[kernel].mod_start \in Nat /\ mb.mods[kernel].mod_end \in Nat
           /\ \A h \in Loads :
                 mb.mods[kernel].mod_start + Headers[h].offset + Headers[h].filesz <= mb.mods[kernel].mod_end
  <1>1. pc \in AfterHeap /\ SaneBoot /\ LinkedBoot
    BY DEF AfterImage, LinkedBoot, TidyBoot
  <1>2. /\ TypeOK /\ IsKernel(mb, kernel) /\ mb.mods[kernel].elf /\ mb \in Boots
        /\ image \in Nat /\ virt_start \in Nat /\ size \in Nat
        /\ Covers(Headers, virt_start, size, Len(Headers)) /\ virt_start # None
    <2>1. pc \in {"heap"} \union AfterHeap /\ pc \in {"analyse", "heap"} \union AfterHeap
      BY <1>1
    <2>2. image = heap.base /\ heap.base \in Nat
      BY DEF BootInv, HeapOK, TypeOK
    <2> QED BY <2>1, <2>2 DEF BootInv, KernelOK, AnalysisOK, TypeOK
  <1>3. /\ kernel \in Modules /\ kernel \in 1 .. Len(mb.mods) /\ Headers = mb.mods[kernel].headers
    BY <1>2 DEF IsKernel, Modules, Headers
  <1>4. /\ mb.mods[kernel].mod_start \in Nat /\ mb.mods[kernel].mod_end \in Nat
        /\ \A h \in 1 .. Len(Headers) : Headers[h] \in Header /\ Headers[h].filesz <= Headers[h].memsz
    BY <1>2, <1>3, BootFacts
  <1>5. SectionsApart(Headers) /\ FileHolds(mb.mods[kernel])
    BY <1>1, <1>2, <1>3 DEF LinkedBoot
  <1>6. \A h \in Loads : h \in 1 .. Len(Headers) /\ Headers[h].load
    BY DEF Loads
  <1>7. \A h \in Loads :
            /\ Headers[h].vaddr \in Nat /\ Headers[h].filesz \in Nat /\ Headers[h].memsz \in Nat
            /\ Headers[h].offset \in Nat /\ Headers[h].filesz <= Headers[h].memsz
    BY <1>4, <1>6 DEF Header
  <1>8. \A h \in Loads :
            virt_start <= Headers[h].vaddr /\ Headers[h].vaddr + Headers[h].memsz <= virt_start + size
    BY <1>2, <1>6 DEF Covers
  <1>9. \A g, h \in Loads : g # h =>
            \/ Headers[g].vaddr + Headers[g].memsz <= Headers[h].vaddr
            \/ Headers[h].vaddr + Headers[h].memsz <= Headers[g].vaddr
    BY <1>5, <1>6 DEF SectionsApart
  <1>10. Fits(Loads, Headers, image, virt_start, size)
    BY <1>2, <1>7, <1>8, <1>9 DEF Fits
  <1>11. \A h \in Loads :
            mb.mods[kernel].mod_start + Headers[h].offset + Headers[h].filesz <= mb.mods[kernel].mod_end
    BY <1>3, <1>5, <1>6 DEF FileHolds
  <1> QED BY <1>3, <1>4, <1>10, <1>11

\* Fewer sections fit as well.
LEMMA FitsSubset ==
    ASSUME NEW C, NEW D \in SUBSET C, NEW hs, NEW base, NEW vs, NEW sz, Fits(C, hs, base, vs, sz)
    PROVE  Fits(D, hs, base, vs, sz)
  BY DEF Fits

\* Steps before which, or after which, there is no image.
LEMMA ImageStop ==
    ASSUME pc' \notin AfterImage, pc' \notin {"heap", "image"}
    PROVE  ImageOK'
  BY DEF ImageOK

\* Steps after kernel_load: the image is left alone.
LEMMA ImageLater ==
    ASSUME LinkedBoot, BootInv, ImageOK, pc \in AfterImage \ {"load"}, pc' \in AfterImage \ {"load"},
           UNCHANGED <<mb, kernel, virt_start, size, image>>,
           \A a \in image .. (image + size - 1) : ram'[a] = ram[a]
    PROVE  ImageOK'
  <1>1. /\ pc \in AfterImage /\ pc' \in AfterImage /\ pc' \notin {"heap", "image"}
        /\ pc # "load" /\ pc' # "load"
    BY DEF AfterImage, AfterHeap
  <1>2. Headers' = Headers /\ Copied = Loads /\ Copied' = Loads
    BY <1>1 DEF Headers, Loads, Copied
  <1>3. Placed(ram, Loads, Headers, kernel, image, virt_start, size)
    BY <1>1, <1>2 DEF ImageOK
  <1>4. Fits(Loads, Headers, image, virt_start, size)
    BY <1>1, HeadersFit
  <1>5. Placed(ram', Loads, Headers, kernel, image, virt_start, size)
    BY <1>3, <1>4, PlacedSame
  <1> QED BY <1>1, <1>2, <1>5 DEF ImageOK

\* The image lies behind paging_pml4, and tables lie behind the image.
LEMMA OutsideImage ==
    ASSUME SaneBoot, BootInv, pc \in AfterImage, NEW a \in image .. (image + size - 1)
    PROVE  /\ a \in Nat /\ a \in DOMAIN ram /\ PageOf(a) # Pml4
           /\ pc = "commit" /\ InRegion => a # Slot
  <1>1. pc \in AfterHeap
    BY DEF AfterImage
  <1>2. /\ image = heap.base /\ heap.base \in Nat /\ size \in Nat /\ heap.limit \in Nat /\ heap.current \in Nat
        /\ image + size <= heap.current /\ heap.current < heap.limit /\ heap.limit <= MemPages * Radix
        /\ DOMAIN ram = 0 .. (MemPages * Radix - 1) /\ (Pml4 + 1) * Radix <= heap.base
    BY <1>1, Pml4Below DEF BootInv, HeapOK, TypeOK
  <1> DEFINE top == MemPages * Radix
             low == (Pml4 + 1) * Radix
  <1>3. top \in Nat /\ low \in Nat /\ Pml4 \in Nat /\ Pml4 + 1 \in Nat
    BY SizeFacts, PageArith
  <1>4. a \in Nat /\ image <= a /\ a < image + size
    BY <1>2
  <1>5. a \in 0 .. (top - 1) /\ low <= a
    <2> HIDE DEF top, low
    <2>1. top \in Nat /\ low \in Nat /\ low <= heap.base /\ heap.limit <= top
      BY <1>2, <1>3 DEF top, low
    <2> QED BY <1>2, <1>4, <2>1
  <1>6. PageOf(a) # Pml4
    <2>1. Pml4 + 1 <= PageOf(a) /\ PageOf(a) \in Nat
      BY <1>3, <1>4, <1>5, PageOfFacts
    <2> QED BY <1>3, <2>1
  <1>7. ASSUME pc = "commit", InRegion PROVE a # Slot
    <2>1. PICK s \in 0 .. (Radix - 1) :
              Slot = table * Radix + s /\ PageOf(Slot) = table /\ table \in TablePages /\ table \in Nat
      BY <1>7, SlotFacts
    <2>2. CASE table = Pml4
      BY <1>6, <2>1, <2>2
    <2>3. CASE table # Pml4
      <3> DEFINE t == table * Radix
      <3>1. t \in Nat /\ image + size <= t /\ s \in Nat
        BY <2>1, <2>3, PageArith, SizeFacts DEF TablePages
      <3> HIDE DEF t
      <3>2. a # t + s
        BY <1>2, <1>4, <3>1
      <3> QED BY <2>1, <3>2 DEF t
    <2> QED BY <2>2, <2>3
  <1> QED BY <1>2, <1>4, <1>5, <1>6, <1>7

\* kernel_load takes clean memory for the image.
LEMMA ImageTaken ==
    ASSUME LinkedBoot, MapInv, BootInv', ImageOK, AllocateImage
    PROVE  ImageOK'
  <1>1. pc = "image" /\ UNCHANGED <<mb, ram, kernel, i, virt_start, size>> /\ BootInv
    BY DEF AllocateImage, MapInv
  <1>2. CASE ~AllocationFits(size)
    <2>1. pc' \notin AfterImage /\ pc' \notin {"heap", "image"}
      BY <1>2 DEF AllocateImage, Halt, AfterImage, AfterHeap
    <2> QED BY <2>1, ImageStop
  <1>3. CASE AllocationFits(size)
    <2>1. /\ pc' = "load" /\ image' = PAGE_ROUND_UP(heap.current)
          /\ PAGE_ROUND_UP(heap.current) + size < heap.limit
      BY <1>3 DEF AllocateImage, AllocationFits
    <2>2. pc' \in AfterImage /\ pc' \notin {"heap", "image"} /\ pc \in AfterHeap
      BY <1>1, <2>1 DEF AfterImage, AfterHeap
    <2>3. /\ Aligned(heap.base) /\ heap.current = heap.base /\ heap.limit \in Nat /\ size \in Nat
          /\ heap.current \in Nat
      BY <1>1, <2>2 DEF BootInv, HeapOK, TypeOK
    <2>4. image' = heap.current /\ heap.current + size < heap.limit
      BY <2>1, <2>3, RoundAligned
    <2>5. \A a \in image' .. (image' + size' - 1) : ram'[a] = Zero
      <3> TAKE a \in image' .. (image' + size' - 1)
      <3>1. a \in heap.current .. (heap.limit - 1)
        BY <1>1, <2>3, <2>4
      <3> QED BY <1>1, <2>2, <3>1 DEF MapInv, PlacesOK, MemoryOK
    <2>6. Copied' = {}
      <3>1. i' = 1
        BY <1>1 DEF ImageOK
      <3>2. \A h \in Loads' : ~(h < i')
        BY <3>1 DEF Loads
      <3> QED BY <2>1, <3>2 DEF Copied
    <2>7. Placed(ram', {}, Headers', kernel', image', virt_start', size')
      BY <2>5, PlacedNone
    <2> QED BY <2>2, <2>6, <2>7 DEF ImageOK
  <1> QED BY <1>2, <1>3

\* kernel_load copies a section from the file, which nothing has written into.
LEMMA ImageLoaded ==
    ASSUME LinkedBoot, MapInv, BootInv', ImageOK, kernel_load
    PROVE  ImageOK'
  <1>1. /\ pc = "load" /\ UNCHANGED <<mb, kernel, virt_start, size, image>> /\ BootInv /\ SaneBoot
    BY DEF kernel_load, MapInv, LinkedBoot, TidyBoot
  <1>2. pc \in AfterImage
    BY <1>1 DEF AfterImage, AfterHeap
  <1>3. /\ Headers' = Headers /\ Loads' = Loads /\ Copied = {h \in Loads : h < i}
        /\ Placed(ram, Copied, Headers, kernel, image, virt_start, size)
    BY <1>1, <1>2 DEF Headers, Loads, Copied, ImageOK
  <1>4. /\ Fits(Loads, Headers, image, virt_start, size)
        /\ kernel \in Modules /\ mb.mods[kernel].mod_start \in Nat /\ mb.mods[kernel].mod_end \in Nat
        /\ \A h \in Loads :
              mb.mods[kernel].mod_start + Headers[h].offset + Headers[h].filesz <= mb.mods[kernel].mod_end
    BY <1>1, <1>2, HeadersFit
  <1>5. i \in Nat /\ i >= 1 /\ Len(Headers) \in Nat /\ ModulesIntact
    <2>1. i \in Nat /\ i >= 1 /\ ModulesIntact /\ TypeOK
      BY <1>1 DEF BootInv, TypeOK, AnalysisOK
    <2>2. IsKernel(mb, kernel)
      BY <1>1 DEF BootInv, KernelOK, AfterHeap
    <2> QED BY <1>1, <2>1, <2>2, KernelFacts
  <1>6. CASE ~(i <= Len(Headers))
    <2>1. pc' = "queue" /\ ram' = ram /\ pc' \in AfterImage /\ pc' \notin {"heap", "image"}
      BY <1>6 DEF kernel_load, AfterImage, AfterHeap
    <2>2. Copied' = Copied
      <3>1. \A h \in Loads : h < i
        BY <1>5, <1>6 DEF Loads
      <3> QED BY <1>3, <2>1, <3>1 DEF Copied
    <2> QED BY <1>1, <1>3, <2>1, <2>2 DEF ImageOK
  <1>7. CASE i <= Len(Headers)
    <2>1. pc' = "load" /\ i' = i + 1 /\ pc' \in AfterImage /\ pc' \notin {"heap", "image"}
      BY <1>1, <1>5, <1>7 DEF kernel_load, AfterImage, AfterHeap
    <2>2. Copied' = {h \in Loads : h < i + 1}
      BY <1>3, <2>1 DEF Copied
    <2>3. Loads \subseteq Nat
      BY <1>5 DEF Loads
    <2>4. CASE ~Headers[i].load
      <3>1. ram' = ram /\ i \notin Loads
        BY <1>7, <2>4 DEF kernel_load, Loads
      <3>2. Copied' = Copied
        <4>1. \A h \in Loads : h < i + 1 <=> h < i
          BY <1>5, <2>3, <3>1
        <4> QED BY <1>3, <2>2, <4>1
      <3> QED BY <1>1, <1>3, <2>1, <3>1, <3>2 DEF ImageOK
    <2>5. CASE Headers[i].load
      <3> DEFINE d == Destination(Headers[i])
                 f == Headers[i].filesz
                 e == Headers[i].offset
                 b == mb.mods[kernel].mod_start
                 from(a) == ram[b + e + (a - d)]
      <3>1. ram' = [a \in DOMAIN ram |-> IF d <= a /\ a < d + f THEN from(a) ELSE ram[a]]
        BY <1>5, <1>7, <2>5 DEF kernel_load
      <3>2. i \in Loads /\ i \notin Copied
        BY <1>3, <1>5, <1>7, <2>5 DEF Loads
      <3>3. Copied' = Copied \union {i} /\ Copied \union {i} \in SUBSET Loads
        <4>1. \A h \in Loads : h < i + 1 <=> h < i \/ h = i
          BY <1>5, <2>3
        <4> QED BY <1>3, <2>2, <3>2, <4>1
      <3>4. Fits(Copied \union {i}, Headers, image, virt_start, size)
        BY <1>4, <3>3, FitsSubset
      <3>5. d = Place(Headers, i, image, virt_start)
        BY DEF Destination, Place
      <3>6. \A a \in image .. (image + size - 1) :
                ~Over(Headers, i, image, virt_start, a) => ram'[a] = ram[a]
        <4> TAKE a \in image .. (image + size - 1)
        <4>1. a \in DOMAIN ram
          BY <1>1, <1>2, OutsideImage
        <4>2. Over(Headers, i, image, virt_start, a) <=> d <= a /\ a < d + f
          BY <3>5 DEF Over
        <4> HIDE DEF d, f, from
        <4> QED BY <3>1, <4>1, <4>2
      <3>7. \A o \in 0 .. (f - 1) : ram'[d + o] = File(kernel, e + o)
        <4> TAKE o \in 0 .. (f - 1)
        <4>1. /\ f \in Nat /\ e \in Nat /\ o \in 0 .. (Headers[i].memsz - 1)
              /\ b + e + f <= mb.mods[kernel].mod_end
          BY <1>4, <3>2 DEF Fits
        <4>2. o \in Nat /\ d \in Nat /\ d + o \in image .. (image + size - 1)
          BY <1>4, <3>2, <3>5, <4>1, PlaceFacts
        <4>3. d + o \in DOMAIN ram
          BY <1>1, <1>2, <4>2, OutsideImage
        <4> DEFINE E == mb.mods[kernel].mod_end
        <4>4. b \in Nat /\ E \in Nat /\ b + e + f <= E
          BY <1>4, <4>1
        <4>5. \A a \in b .. (E - 1) : ram[a] = File(kernel, a - b)
          BY <1>4, <1>5 DEF ModulesIntact
        <4> HIDE DEF d, f, e, b, E
        <4>6. d <= d + o /\ d + o < d + f /\ (d + o) - d = o
          BY <4>1, <4>2
        <4>7. ram'[d + o] = from(d + o)
          <5> HIDE DEF from
          <5> QED BY <3>1, <4>3, <4>6
        <4>8. from(d + o) = ram[b + e + o]
          BY <4>6
        <4>9. b + e + o \in b .. (E - 1) /\ (b + e + o) - b = e + o
          BY <4>1, <4>2, <4>4
        <4> QED BY <4>5, <4>7, <4>8, <4>9
      <3>8. Placed(ram', Copied \union {i}, Headers, kernel, image, virt_start, size)
        <4> HIDE DEF d
        <4> QED BY <1>3, <3>2, <3>4, <3>5, <3>6, <3>7, PlacedCopy
      <3> QED BY <1>1, <1>3, <2>1, <3>3, <3>8 DEF ImageOK
    <2> QED BY <2>4, <2>5
  <1> QED BY <1>6, <1>7

\* Every step keeps the invariant of a boot of a well-formed kernel.
LEMMA ImageStep ==
    ASSUME LinkedBoot, ImageInv, [Next]_vars
    PROVE  ImageInv'
  <1>0. TidyBoot /\ SaneBoot /\ MapInv /\ BootInv /\ ImageOK /\ MapInv' /\ BootInv'
    <2>1. TidyBoot /\ MapInv /\ ImageOK
      BY DEF LinkedBoot, ImageInv
    <2>2. MapInv'
      BY <2>1, MapStep
    <2> QED BY <2>1, <2>2 DEF TidyBoot, MapInv
  <1> SUFFICES ImageOK'
    BY <1>0 DEF ImageInv
  <1>1. CASE UNCHANGED vars
    <2>1. UNCHANGED <<mb, pc, ram, kernel, i, virt_start, size, image>>
      BY <1>1 DEF vars
    <2>2. Headers' = Headers /\ Copied' = Copied
      BY <2>1 DEF Headers, Copied, Loads
    <2> QED BY <1>0, <2>1, <2>2 DEF ImageOK
  <1>2. CASE Verify \/ multiboot_analyse
    <2>1. pc' \notin AfterImage /\ pc' \notin {"heap", "image"}
      BY <1>2 DEF Verify, multiboot_analyse, Halt, AfterImage, AfterHeap
    <2> QED BY <2>1, ImageStop
  <1>3. CASE kernel_analyse
    <2>1. pc' \notin AfterImage /\ (pc' \in {"heap", "image"} => i' = 1)
      BY <1>3 DEF kernel_analyse, Halt, AfterImage, AfterHeap
    <2> QED BY <2>1 DEF ImageOK
  <1>4. CASE memory_heap_init
    <2>1. pc' \notin AfterImage /\ pc = "heap" /\ i' = i
      BY <1>4 DEF memory_heap_init, AfterImage, AfterHeap, elfVars
    <2> QED BY <1>0, <2>1 DEF ImageOK
  <1>5. CASE AllocateImage
    BY <1>0, <1>5, ImageTaken
  <1>6. CASE kernel_load
    BY <1>0, <1>6, ImageLoaded
  <1>7. CASE paging_init
    <2>1. /\ pc \in AfterImage \ {"load"} /\ pc' \in AfterImage \ {"load"} /\ pc \in AfterImage
          /\ UNCHANGED <<mb, kernel, virt_start, size, image>>
          /\ ram' = [a \in DOMAIN ram |-> IF PageOf(a) = Pml4 THEN Zero ELSE ram[a]]
      BY <1>7 DEF paging_init, AfterImage, AfterHeap, elfVars
    <2>2. \A a \in image .. (image + size - 1) : ram'[a] = ram[a]
      BY <1>0, <2>1, OutsideImage
    <2> QED BY <1>0, <2>1, <2>2, ImageLater
  <1>8. CASE CreateTable \/ StorePage
    <2>1. /\ pc = "commit" /\ InRegion /\ UNCHANGED <<mb, kernel, virt_start, size, image>>
          /\ pc' \in {"commit", "panicked"}
          /\ ram' = ram \/ \E e : ram' = [ram EXCEPT ![Slot] = e]
      BY <1>8 DEF CreateTable, StorePage, Halt, elfVars
    <2>2. CASE pc' = "panicked"
      <3>1. pc' \notin AfterImage /\ pc' \notin {"heap", "image"}
        BY <2>2 DEF AfterImage, AfterHeap
      <3> QED BY <3>1, ImageStop
    <2>3. CASE pc' = "commit"
      <3>1. pc \in AfterImage \ {"load"} /\ pc' \in AfterImage \ {"load"} /\ pc \in AfterImage
        BY <2>1, <2>3 DEF AfterImage, AfterHeap
      <3>2. \A a \in image .. (image + size - 1) : ram'[a] = ram[a]
        <4> TAKE a \in image .. (image + size - 1)
        <4>1. a \in DOMAIN ram /\ a # Slot
          BY <1>0, <2>1, <3>1, OutsideImage
        <4> QED BY <2>1, <4>1
      <3> QED BY <1>0, <2>1, <3>1, <3>2, ImageLater
    <2> QED BY <2>1, <2>2, <2>3
  <1>9. CASE LoadTable \/ NextRegion \/ kernel_enter
    <2>1. /\ pc = "commit" /\ UNCHANGED <<mb, ram, kernel, virt_start, size, image>>
          /\ pc' \in {"commit", "wild", "entered"}
      BY <1>9 DEF LoadTable, NextRegion, kernel_enter, elfVars
    <2>2. CASE pc' = "wild"
      <3>1. pc' \notin AfterImage /\ pc' \notin {"heap", "image"}
        BY <2>2 DEF AfterImage, AfterHeap
      <3> QED BY <3>1, ImageStop
    <2>3. CASE pc' # "wild"
      <3>1. pc \in AfterImage \ {"load"} /\ pc' \in AfterImage \ {"load"}
        BY <2>1, <2>3 DEF AfterImage, AfterHeap
      <3> QED BY <1>0, <2>1, <3>1, ImageLater
    <2> QED BY <2>2, <2>3
  <1> QED BY <1>1, <1>2, <1>3, <1>4, <1>5, <1>6, <1>7, <1>8, <1>9 DEF Next, paging_commit

\* The section's words lie in pages that are mapped to the image's.
LEMMA ImageSeen ==
    ASSUME TidyBoot, MapInv, pc = "entered", NEW a \in virt_start .. (virt_start + size - 1)
    PROVE  Seen(a) = ram[image + (a - virt_start)]
  <1> DEFINE B == PageOf(heap.base)
             S == PageOf(virt_start)
             Z == PageOf(size)
             v == PageOf(a)
             r == a % Radix
  <1>1. /\ B \in Nat /\ S \in Nat /\ Z \in Nat
        /\ virt_start = S * Radix /\ size = Z * Radix /\ image = B * Radix
        /\ PlanV[5] = S /\ PlanN[5] = Z /\ IsPlan(paging_queue, PlanV, PlanX, PlanN)
    BY PlanPages
  <1>2. Radix \in Nat \ {0} /\ Power[Levels] \in Nat /\ None \notin Nat
    BY SizeFacts, PowerType DEF Levels, None
  <1> HIDE DEF B, S, Z
  <1>3. a \in Nat /\ S * Radix <= a /\ a < (S + Z) * Radix
    <2> DEFINE s == S * Radix
               z == Z * Radix
    <2>1. s \in Nat /\ z \in Nat /\ (S + Z) * Radix = s + z
      BY <1>1, PageArith
    <2>2. a \in s .. (s + z - 1)
      BY <1>1
    <2> HIDE DEF s, z
    <2>3. a \in Nat /\ s <= a /\ a < s + z
      BY <2>1, <2>2
    <2> QED BY <2>1, <2>3 DEF s
  <1>4. v \in Nat /\ r \in 0 .. (Radix - 1) /\ a = v * Radix + r
    BY <1>2, <1>3, DivMod DEF PageOf
  <1>5. S <= v /\ v < S + Z
    <2>1. S + Z \in Nat
      BY <1>1
    <2> QED BY <1>1, <1>3, <2>1, PageOfFacts
  <1>6. v \in Space
    <2>1. S + Z <= Power[Levels]
      BY <1>1 DEF IsPlan
    <2> HIDE DEF v
    <2> QED BY <1>1, <1>2, <1>4, <1>5, <2>1 DEF Space
  <1>7. Translation(v) = B + (v - S)
    BY <1>5, <1>6, EnteredPages DEF B, S, Z
  <1> HIDE DEF v, r
  <1> DEFINE n == v - S
  <1>8. n \in Nat /\ v = S + n /\ B + n \in Nat
    BY <1>1, <1>4, <1>5
  <1> HIDE DEF n
  <1>9. (B + n) * Radix + r = image + (a - virt_start)
    <2> DEFINE s == S * Radix
               b == B * Radix
               c == n * Radix
    <2>1. s \in Nat /\ b \in Nat /\ c \in Nat /\ v * Radix = s + c /\ (B + n) * Radix = b + c
      BY <1>1, <1>8, PageArith
    <2>2. image = b /\ virt_start = s
      BY <1>1
    <2> HIDE DEF s, b, c
    <2>3. r \in Nat /\ a = (s + c) + r
      BY <1>2, <1>4, <2>1
    <2>4. (b + c) + r = b + (a - s)
      BY <2>1, <2>3
    <2> QED BY <2>1, <2>2, <2>4
  <1>10. Seen(a) = ram[Translation(v) * Radix + r]
    <2>1. Translation(v) # None
      BY <1>2, <1>7, <1>8 DEF n
    <2> QED BY <2>1 DEF Seen, v, r
  <1> QED BY <1>7, <1>9, <1>10 DEF n

\* Throughout the boot of a well-formed kernel into clean memory, the image holds the
\* sections that kernel_load has copied so far, and 0 elsewhere.
THEOREM ImageInvariant ==
    ASSUME LinkedBoot
    PROVE  Spec => []ImageInv
  <1>1. Init => ImageOK
    BY DEF Init, ImageOK, AfterImage, AfterHeap
  <1>2. TidyBoot
    BY DEF LinkedBoot
  <1>3. Spec => []MapInv
    BY <1>2, MapInvariant
  <1>4. MapInv /\ ImageOK => ImageInv
    BY DEF ImageInv
  <1>5. ImageInv /\ [Next]_vars => ImageInv'
    BY ImageStep
  <1> QED BY <1>1, <1>3, <1>4, <1>5, PTL DEF Spec

\* Lobo is entered with every LOAD section where it was linked, the words of its file and
\* then 0: kernel_analyse, kernel_load and paging_map_page agree on where the image is.
THEOREM KernelPlaced ==
    ASSUME LinkedBoot
    PROVE  Spec => []KernelInPlace
  <1>1. ASSUME ImageInv PROVE KernelInPlace
    <2> SUFFICES ASSUME pc = "entered", NEW h \in Loads, NEW o \in 0 .. (Headers[h].memsz - 1)
                 PROVE  Seen(Headers[h].vaddr + o) =
                            IF o < Headers[h].filesz THEN File(kernel, Headers[h].offset + o) ELSE Zero
      BY DEF KernelInPlace
    <2>1. TidyBoot /\ MapInv /\ BootInv /\ ImageOK /\ pc \in AfterImage /\ pc # "load"
      BY <1>1 DEF LinkedBoot, ImageInv, MapInv, AfterImage, AfterHeap
    <2>2. Fits(Loads, Headers, image, virt_start, size)
      BY <2>1, HeadersFit
    <2>3. Placed(ram, Loads, Headers, kernel, image, virt_start, size)
      <3>1. Copied = Loads
        BY <2>1 DEF Copied
      <3> QED BY <2>1, <3>1 DEF ImageOK
    <2> DEFINE p == Place(Headers, h, image, virt_start)
               f == Headers[h].filesz
               w == Headers[h].vaddr
               m == Headers[h].memsz
    <2>4. /\ o \in Nat /\ p + o \in image .. (image + size - 1)
          /\ \A g \in Loads : g # h => ~Over(Headers, g, image, virt_start, p + o)
          /\ Over(Headers, h, image, virt_start, p + o) <=> o < f
      BY <2>2, PlaceFacts
    <2>5. Seen(w + o) = ram[p + o]
      <3>1. /\ w \in Nat /\ m \in Nat /\ virt_start \in Nat /\ image \in Nat /\ size \in Nat
            /\ virt_start <= w /\ w + m <= virt_start + size /\ p = image + (w - virt_start)
        BY <2>2 DEF Fits, Place
      <3> HIDE DEF w, m, p
      <3>2. o \in Nat /\ o < m
        BY <2>4, <3>1 DEF m
      <3>3. /\ w + o \in virt_start .. (virt_start + size - 1)
            /\ image + ((w + o) - virt_start) = p + o
        BY <3>1, <3>2
      <3> QED BY <2>1, <3>3, ImageSeen
    <2>6. CASE o < f
      <3>1. o \in 0 .. (f - 1)
        <4>1. f \in Nat
          BY <2>2 DEF Fits
        <4> QED BY <2>4, <2>6, <4>1
      <3> QED BY <2>3, <2>5, <2>6, <3>1 DEF Placed
    <2>7. CASE ~(o < f)
      <3>1. \A g \in Loads : ~Over(Headers, g, image, virt_start, p + o)
        BY <2>4, <2>7
      <3>2. ram[p + o] = Zero
        BY <2>3, <2>4, <3>1 DEF Placed
      <3> QED BY <2>5, <2>7, <3>2
    <2> QED BY <2>6, <2>7
  <1> QED BY <1>1, ImageInvariant, PTL
=============================================================================
