----------------------------- MODULE PmmProofs -----------------------------
(***************************************************************************)
(* What holds of the page allocator for every memory map, every page size, *)
(* every sequence of requests and any number of threads: its types however *)
(* the threads' calls overlap, and what it promises when they do not.      *)
(***************************************************************************)
EXTENDS Pmm, FiniteSetTheorems, TLAPS

-----------------------------------------------------------------------------
(* What the theorems assume of the machine *)

\* Calls of the allocator do not overlap.
SerialCalls == MaxBusy = 1

\* Free regions begin and end with a page.
WholePages ==
    \A m \in MemoryMaps : \A i \in DOMAIN m :
        m[i].free => m[i].start % PageBytes = 0 /\ m[i].size % PageBytes = 0

\* No free region reaches beyond what an unsigned int can address.
Addressable ==
    \A m \in MemoryMaps : \A i \in DOMAIN m :
        m[i].free => m[i].start + m[i].size <= WrapPages * PageBytes

\* Boot reserves some memory, and the heap lies in it.
LowHeap == LowPages > 0 /\ HeapLimit <= LowPages * PageBytes

-----------------------------------------------------------------------------
(* Arithmetic *)

\* A number below the modulus is its own remainder.
LEMMA SmallMod == ASSUME NEW k \in Nat, NEW w \in Nat, k < w PROVE k % w = k
  OBVIOUS

\* Dividing a multiple gives the factor.
LEMMA DivOfMultiple == ASSUME NEW q \in Nat, NEW b \in Nat \ {0} PROVE (q * b) \div b = q
  OBVIOUS

\* Products grow with their factor.
LEMMA MulMonotone ==
    ASSUME NEW a \in Nat, NEW c \in Nat, NEW b \in Nat, a <= c PROVE a * b <= c * b
  OBVIOUS

\* A quotient keeps the bound of its dividend.
LEMMA DivBelow ==
    ASSUME NEW a \in Nat, NEW q \in Nat, NEW b \in Nat \ {0}
    PROVE  /\ a < q * b => a \div b < q
           /\ a <= q * b => a \div b <= q
  OBVIOUS

\* Quotient and remainder.
LEMMA DivMod ==
    ASSUME NEW a \in Nat, NEW b \in Nat \ {0}
    PROVE  /\ a \div b \in Nat
           /\ a % b \in 0 .. (b - 1)
           /\ a % b = 0 => a = (a \div b) * b
  OBVIOUS

\* The distributive law, for addresses of pages.
LEMMA Distribute == ASSUME NEW s \in Nat, NEW j \in Nat, NEW b \in Nat
                    PROVE  s * b + j * b = (s + j) * b
  OBVIOUS

\* Each non-empty finite set of numbers has a largest element.
LEMMA MaxExists ==
    ASSUME NEW S \in SUBSET Nat, IsFiniteSet(S), S # {}
    PROVE  Max(S) \in S
  <1> DEFINE HasMax(T) == \E x \in T : \A y \in T : x >= y
             Bad == {T \in SUBSET S : T # {} /\ ~HasMax(T)}
             R == StrictSubsetOrdering(S)
  <1>1. IsWellFoundedOn(R, FiniteSubsetsOf(S))
    BY FS_StrictSubsetOrderingWellFounded
  <1>2. FiniteSubsetsOf(S) = SUBSET S
    BY FS_FiniteSubsetsOfFinite
  <1>3. Bad = {}
    <2> SUFFICES ASSUME Bad # {} PROVE FALSE
      OBVIOUS
    <2>1. Bad \subseteq SUBSET S
      OBVIOUS
    <2>2. PICK T \in Bad : \A U \in Bad : ~(<<U, T>> \in R)
      <3>1. IsWellFoundedOn(R, SUBSET S)
        BY <1>1, <1>2
      <3>2. Bad # {}
        OBVIOUS
      <3> HIDE DEF Bad, R
      <3>3. \E T \in Bad : \A U \in Bad : ~(<<U, T>> \in R)
        BY <2>1, <3>1, <3>2, WFMin
      <3>. QED  BY <3>3
    <2>3. PICK x \in T : TRUE
      OBVIOUS
    <2>4. T \ {x} \notin Bad
      <3>1. T \ {x} \subseteq T /\ T \ {x} # T /\ T \in SUBSET S /\ T \ {x} \in SUBSET S
        BY <2>3
      <3>2. <<T \ {x}, T>> \in R
        BY <3>1 DEF StrictSubsetOrdering
      <3>. QED  BY <2>2, <3>2
    <2>5. CASE T \ {x} = {}
      <3>1. \A y \in T : x >= y
        BY <2>3, <2>5
      <3>. QED  BY <2>3, <3>1
    <2>6. CASE T \ {x} # {}
      <3>1. PICK m \in T \ {x} : \A y \in T \ {x} : m >= y
        BY <2>4, <2>6
      <3>2. m \in Nat /\ x \in Nat /\ \A y \in T : y \in Nat
        OBVIOUS
      <3>3. CASE m >= x
        BY <3>1, <3>2, <3>3
      <3>4. CASE x >= m
        <4>1. \A y \in T : x >= y
          BY <3>1, <3>2, <3>4
        <4>. QED  BY <2>3, <4>1
      <3>. QED  BY <3>2, <3>3, <3>4
    <2>. QED  BY <2>5, <2>6
  <1>4. HasMax(S)
    BY <1>3
  <1>. QED  BY <1>4 DEF Max

\* The image of a finite set under a function is finite.
LEMMA ImageFinite ==
    ASSUME NEW f, IsFiniteSet(DOMAIN f), f = [x \in DOMAIN f |-> f[x]]
    PROVE  IsFiniteSet({f[x] : x \in DOMAIN f})
  <1> DEFINE S == DOMAIN f
             T == {f[x] : x \in S}
  <1>1. f \in [S -> T] /\ \A y \in T : \E x \in S : f[x] = y
    OBVIOUS
  <1>2. f \in Surjection(S, T)
    BY <1>1 DEF Surjection
  <1> HIDE DEF S, T
  <1>3. IsFiniteSet(T)
    BY <1>2, FS_Surjection DEF S
  <1>. QED  BY <1>3 DEF S, T

\* A request for no page is served like one for a page.
LEMMA AtLeastOne ==
    ASSUME NEW n \in Nat
    PROVE  Max({n, 1}) = IF n >= 1 THEN n ELSE 1
  <1>1. \E x \in {n, 1} : \A y \in {n, 1} : x >= y
    OBVIOUS
  <1>. QED  BY <1>1 DEF Max

-----------------------------------------------------------------------------
(* Types, however calls overlap *)

\* What a call knows of the pages between its tests and its stores: those it
\* has tested exist, modulo what an unsigned int makes of their addresses.
CallOK(c, pages) ==
    /\ c.pc = "check" =>
          /\ c.n >= 2 /\ c.idx < pages
          /\ c.k \in (c.idx + 1) .. (c.idx + c.n - 1)
          /\ \A p \in (c.idx + 1) .. (c.k - 1) : p % WrapPages < pages
    /\ c.pc = "set" =>
          /\ c.idx < pages /\ c.k \in Granted(c)
          /\ c.n >= 2 => \A p \in Granted(c) : p % WrapPages < pages

\* Every call is where its search has led it.
CallsOK == \A t \in Threads : CallOK(op[t], numPages)

\* Nobody allocates during boot.
BootAlone == phase # "run" => \A t \in Threads : op[t] = NoCall

\* The inductive invariant behind the types.
TypeInv == TypeOK /\ CallsOK /\ BootAlone

\* What op holds for a thread.
Call == [pc: {"out", "scan", "check", "set"}, n: Requests \union {0}, idx: Nat, k: Nat]

\* A thread outside allocate.
LEMMA NoCallFacts == NoCall \in Call /\ NoCall.pc = "out" /\ \A pages : CallOK(NoCall, pages)
  BY DEF NoCall, Call, CallOK

\* A block of the early heap lies below its limit.
LEMMA HeapFacts ==
    ASSUME TypeOK, NEW size \in Nat, NEW align \in Nat \ {0}, TakeBlock(size, align),
           HeapFits(size, align)
    PROVE  /\ AlignUp(heapBase, align) \in Nat
           /\ AlignUp(heapBase, align) + size <= HeapLimit
           /\ heapBase' \in Nat /\ heapPages' \subseteq Nat
           /\ \A p \in heapPages' : p \in heapPages \/ \E a \in Nat : a < HeapLimit /\ p = PageOf(a)
  <1> DEFINE block == AlignUp(heapBase, align)
  <1>1. block \in Nat
    BY DivMod DEF AlignUp, TypeOK
  <1>2. heapBase' = block + size /\ heapPages' = heapPages \union BlockPages(block, size)
    BY DEF TakeBlock
  <1>3. block + size <= HeapLimit /\ HeapLimit \in Nat
    BY SizesAssumption DEF HeapFits
  <1> HIDE DEF block
  <1>4. \A p \in BlockPages(block, size) : \E a \in Nat : a < HeapLimit /\ p = PageOf(a)
    BY <1>1, <1>3 DEF BlockPages
  <1>5. \A a \in Nat : PageOf(a) \in Nat
    BY DivMod, SizesAssumption DEF PageOf
  <1>6. heapBase' \in Nat
    BY <1>1, <1>2
  <1>7. \A p \in heapPages' : p \in heapPages \/ \E a \in Nat : a < HeapLimit /\ p = PageOf(a)
    BY <1>2, <1>4
  <1>8. heapPages' \subseteq Nat
    BY <1>5, <1>7 DEF TypeOK
  <1>. QED  BY <1>1, <1>3, <1>6, <1>7, <1>8 DEF block

\* The free regions are a finite set of entries of the memory map.
LEMMA MapFacts ==
    ASSUME TypeOK
    PROVE  /\ IsFiniteSet(FreeRegions)
           /\ \A r \in FreeRegions : r.start \in Nat /\ r.size \in Nat
           /\ \A r \in FreeRegions : \E i \in DOMAIN memmap : r = memmap[i] /\ memmap[i].free
  <1> DEFINE Region == [start: Nat, size: Nat, free: BOOLEAN]
  <1>1. memmap \in Seq(Region)
    BY MapsAssumption DEF TypeOK
  <1>2. DOMAIN memmap = 1 .. Len(memmap) /\ Len(memmap) \in Nat
        /\ \A i \in DOMAIN memmap : memmap[i] \in Region
    <2> HIDE DEF Region
    <2>. QED  BY <1>1
  <1>3. \A r \in FreeRegions : \E i \in DOMAIN memmap : r = memmap[i] /\ memmap[i].free
    BY DEF FreeRegions
  <1>4. IsFiniteSet(FreeRegions)
    <2> DEFINE Free1 == {j \in DOMAIN memmap : memmap[j].free}
    <2>1. IsFiniteSet(1 .. Len(memmap))
      BY <1>2, FS_Interval
    <2>2. IsFiniteSet(Free1)
      BY <1>2, <2>1, FS_Subset
    <2> DEFINE f == [i \in Free1 |-> memmap[i]]
    <2>3. DOMAIN f = Free1 /\ f = [i \in DOMAIN f |-> f[i]]
          /\ FreeRegions = {f[i] : i \in DOMAIN f}
      BY DEF FreeRegions
    <2> HIDE DEF Free1, f
    <2>. QED  BY <2>2, <2>3, ImageFinite
  <1>. QED  BY <1>2, <1>3, <1>4

\* The end of memory is 0 or the end of a free region.
LEMMA MemEndFacts ==
    ASSUME TypeOK
    PROVE  /\ MemEnd \in Nat
           /\ MemEnd = 0 \/ \E r \in FreeRegions : MemEnd = r.start + r.size
  <1> DEFINE Ends == {r.start + r.size : r \in FreeRegions}
  <1>1. Ends \subseteq Nat
    BY MapFacts
  <1>2. IsFiniteSet(Ends)
    <2> DEFINE f == [r \in FreeRegions |-> r.start + r.size]
    <2>1. DOMAIN f = FreeRegions /\ f = [r \in DOMAIN f |-> f[r]] /\ Ends = {f[r] : r \in DOMAIN f}
      OBVIOUS
    <2>2. IsFiniteSet(FreeRegions)
      BY MapFacts
    <2> HIDE DEF f, Ends
    <2>. QED  BY <2>1, <2>2, ImageFinite
  <1>3. IsFiniteSet(Ends \union {0})
    BY <1>2, FS_AddElement
  <1>4. MemEnd = Max(Ends \union {0})
    BY DEF MemEnd
  <1>5. MemEnd \in Ends \union {0}
    <2> DEFINE S == Ends \union {0}
    <2>1. S \in SUBSET Nat /\ S # {} /\ IsFiniteSet(S)
      BY <1>1, <1>3
    <2> HIDE DEF S
    <2>2. Max(S) \in S
      BY <2>1, MaxExists
    <2>. QED  BY <1>4, <2>2 DEF S
  <1>. QED  BY <1>1, <1>5

\* The pages of a request, of which there is at least one.
LEMMA GrantedFacts ==
    ASSUME NEW c \in Call
    PROVE  /\ Granted(c) = c.idx .. (c.idx + (IF c.n >= 1 THEN c.n ELSE 1) - 1)
           /\ c.idx \in Granted(c) /\ c.n \in Nat /\ c.idx \in Nat /\ c.k \in Nat
  <1>1. c.n \in Nat /\ c.idx \in Nat /\ c.k \in Nat
    <2>1. c.n \in Requests \union {0} /\ c.idx \in Nat /\ c.k \in Nat
      BY DEF Call
    <2>2. Requests \subseteq Nat
      BY SizesAssumption
    <2>3. CASE c.n = 0
      BY <2>1, <2>3
    <2>4. CASE c.n \in Requests
      BY <2>1, <2>2, <2>4
    <2>. QED  BY <2>1, <2>3, <2>4
  <1>2. Granted(c) = c.idx .. (c.idx + (IF c.n >= 1 THEN c.n ELSE 1) - 1)
    BY <1>1, AtLeastOne DEF Granted
  <1>. QED  BY <1>1, <1>2

\* A panic keeps the types.
LEMMA PanicTypes ==
    ASSUME TypeInv, NEW why \in {"heap", "assert", "oom", "range"}, Panic(why)
    PROVE  TypeInv'
  BY DEF TypeInv, TypeOK, CallsOK, BootAlone, Panic

\* So does a step that changes nothing but the call.
LEMMA LocalTypes ==
    ASSUME TypeInv, Running, NEW t \in Threads, NEW c \in Call, CallOK(c, numPages), Local(t, c)
    PROVE  TypeInv'
  <1>1. /\ op' = [op EXCEPT ![t] = c]
        /\ UNCHANGED <<phase, bootVars, used, heapBase, panicked, grants, heapPages>>
    BY DEF Local
  <1>2. op' \in [Threads -> Call]
    BY <1>1 DEF TypeInv, TypeOK, Call
  <1>3. TypeOK'
    BY <1>1, <1>2 DEF TypeInv, TypeOK, Call, bootVars
  <1>4. \A u \in Threads : op'[u] = IF u = t THEN c ELSE op[u]
    BY <1>1 DEF TypeInv, TypeOK
  <1>5. CallsOK'
    BY <1>1, <1>4 DEF TypeInv, CallsOK, bootVars
  <1>6. BootAlone'
    BY <1>1 DEF Running, BootAlone
  <1>. QED  BY <1>3, <1>5, <1>6 DEF TypeInv

\* A boot step leaves the threads without calls and the history empty.
LEMMA BootTypes ==
    ASSUME TypeInv, Boot
    PROVE  TypeInv'
  <1> USE DEF TypeInv
  <1>1. ASSUME op' = op, phase # "run", TypeOK' PROVE TypeInv'
    <2>1. \A t \in Threads : op[t] = NoCall
      BY <1>1 DEF BootAlone
    <2>. QED  BY <1>1, <2>1, NoCallFacts DEF CallsOK, BootAlone
  <1>2. CASE VmmInit
    <2>1. CASE HeapFits(PageBytes, PageBytes) /\ TakeBlock(PageBytes, PageBytes) /\ phase' = "init"
               /\ UNCHANGED <<bootVars, used, op, panicked, grants>>
      <3>1. heapBase' \in Nat /\ heapPages' \subseteq Nat
        BY <2>1, HeapFacts, SizesAssumption
      <3>. QED  BY <1>1, <1>2, <2>1, <3>1 DEF VmmInit, TypeOK, bootVars
    <2>. QED  BY <1>2, <2>1, PanicTypes DEF VmmInit
  <1>3. CASE PmmInit
    <2> DEFINE pages == MemEnd \div PageBytes
               bitmap == (pages \div 8) + 1
    <2>1. pages \in Nat /\ bitmap \in Nat
      <3>1. MemEnd \in Nat /\ PageBytes \in Nat \ {0}
        BY MemEndFacts, SizesAssumption
      <3>2. pages \in Nat
        BY <3>1, DivMod
      <3> HIDE DEF pages
      <3>3. pages \div 8 \in Nat
        BY <3>2, DivMod
      <3>. QED  BY <3>2, <3>3
    <2>2. \/ /\ HeapFits(bitmap, MinAlign) /\ TakeBlock(bitmap, MinAlign)
             /\ numPages' = pages /\ used' = 0 .. (pages - 1) /\ phase' = "free"
             /\ UNCHANGED <<memmap, maxFree, nonBacked, op, panicked, grants>>
          \/ Panic("heap")
      BY <1>3 DEF PmmInit
    <2> HIDE DEF pages, bitmap
    <2>3. CASE /\ HeapFits(bitmap, MinAlign) /\ TakeBlock(bitmap, MinAlign)
               /\ numPages' = pages /\ used' = 0 .. (pages - 1) /\ phase' = "free"
               /\ UNCHANGED <<memmap, maxFree, nonBacked, op, panicked, grants>>
      <3>1. heapBase' \in Nat /\ heapPages' \subseteq Nat
        BY <2>1, <2>3, HeapFacts, SizesAssumption
      <3>. QED  BY <1>1, <1>3, <2>1, <2>3, <3>1 DEF PmmInit, TypeOK
    <2>. QED  BY <2>2, <2>3, PanicTypes
  <1>4. CASE FreeMemory
    <2>1. ASSUME ~Panic("assert") PROVE TypeInv'
      BY <1>1, <1>4, <2>1 DEF FreeMemory, TypeOK, bootVars
    <2>. QED  BY <2>1, PanicTypes
  <1>5. CASE ReserveLow
    <2>1. ASSUME ~Panic("assert") PROVE TypeInv'
      <3>1. /\ LowPages <= numPages /\ used' = used \union (0 .. (LowPages - 1))
            /\ phase' = "count" /\ phase = "reserve"
            /\ UNCHANGED <<bootVars, heapBase, op, panicked, grants, heapPages>>
        BY <1>5, <2>1 DEF ReserveLow
      <3>2. used' \subseteq 0 .. (numPages - 1)
        BY <3>1, SizesAssumption DEF TypeOK
      <3>. QED  BY <1>1, <3>1, <3>2 DEF TypeOK, bootVars
    <2>. QED  BY <2>1, PanicTypes
  <1>6. CASE SetFreeMemory
    <2>1. IsFiniteSet(0 .. (numPages - 1))
      BY FS_Interval DEF TypeOK
    <2>2. Cardinality(used) \in Nat /\ Cardinality((0 .. (numPages - 1)) \ used) \in Nat
      BY <2>1, FS_Subset, FS_Difference, FS_CardinalityType DEF TypeOK
    <2>3. /\ nonBacked' = nonBacked + Cardinality(used)
          /\ maxFree' = Cardinality((0 .. (numPages - 1)) \ used)
          /\ phase' = "run" /\ phase = "count"
          /\ UNCHANGED <<memmap, numPages, used, heapBase, op, panicked, grants, heapPages>>
      BY <1>6 DEF SetFreeMemory
    <2>4. nonBacked' \in Nat /\ maxFree' \in Nat
      BY <2>2, <2>3 DEF TypeOK
    <2>. QED  BY <1>1, <2>3, <2>4 DEF TypeOK
  <1>. QED  BY <1>2, <1>3, <1>4, <1>5, <1>6 DEF Boot

\* allocate is called.
LEMMA AllocateTypes ==
    ASSUME TypeInv, NEW t \in Threads, NEW n \in Requests, Allocate(t, n)
    PROVE  TypeInv'
  <1> DEFINE c == [NoCall EXCEPT !.pc = "scan", !.n = n]
  <1>1. c \in Call /\ c.pc = "scan"
    BY DEF NoCall, Call
  <1>2. CallOK(c, numPages)
    BY <1>1 DEF CallOK
  <1>3. Running /\ Local(t, c)
    BY DEF Allocate
  <1> HIDE DEF c
  <1>. QED  BY <1>1, <1>2, <1>3, LocalTypes

\* allocate looks for the first clear bit.
LEMMA ScanTypes ==
    ASSUME TypeInv, NEW t \in Threads, Scan(t)
    PROVE  TypeInv'
  <1> DEFINE c == op[t]
  <1>1. c \in Call /\ Running /\ c.pc = "scan" /\ numPages \in Nat
    BY DEF Scan, TypeInv, TypeOK, Call
  <1>2. c.idx \in Nat /\ c.n \in Nat
    BY <1>1, GrantedFacts
  <1> HIDE DEF c
  <1>3. ASSUME Local(t, [c EXCEPT !.idx = @ + 1]) PROVE TypeInv'
    <2> DEFINE d == [c EXCEPT !.idx = c.idx + 1]
    <2>1. d \in Call /\ d.pc = "scan"
      <3>1. c.idx + 1 \in Nat
        BY <1>2
      <3>. QED  BY <1>1, <3>1, Zenon DEF Call
    <2> HIDE DEF d
    <2>2. CallOK(d, numPages)
      BY <2>1 DEF CallOK
    <2>. QED  BY <1>1, <1>3, <2>1, <2>2, LocalTypes DEF d
  <1>4. ASSUME c.idx < numPages, c.n <= 1, Local(t, [c EXCEPT !.pc = "set", !.k = c.idx])
        PROVE  TypeInv'
    <2> DEFINE d == [c EXCEPT !.pc = "set", !.k = c.idx]
    <2>1. d \in Call /\ d.pc = "set" /\ d.idx = c.idx /\ d.k = c.idx /\ d.n = c.n
      BY <1>1, <1>2 DEF Call
    <2> HIDE DEF d
    <2>2. CallOK(d, numPages)
      BY <1>2, <1>4, <2>1, GrantedFacts DEF CallOK
    <2>. QED  BY <1>1, <1>4, <2>1, <2>2, LocalTypes DEF d
  <1>5. ASSUME c.idx < numPages, ~(c.n <= 1), Local(t, [c EXCEPT !.pc = "check", !.k = c.idx + 1])
        PROVE  TypeInv'
    <2> DEFINE d == [c EXCEPT !.pc = "check", !.k = c.idx + 1]
    <2>1. d \in Call /\ d.pc = "check" /\ d.idx = c.idx /\ d.k = c.idx + 1 /\ d.n = c.n
      <3>1. c.idx + 1 \in Nat
        BY <1>2
      <3>. QED  BY <1>1, <3>1, Zenon DEF Call
    <2> HIDE DEF d
    <2>2. CallOK(d, numPages)
      BY <1>1, <1>2, <1>5, <2>1 DEF CallOK
    <2>. QED  BY <1>1, <1>5, <2>1, <2>2, LocalTypes DEF d
  <1>. QED  BY <1>3, <1>4, <1>5, PanicTypes DEF Scan, c

\* allocate tests one more page of the run.
LEMMA CheckNextTypes ==
    ASSUME TypeInv, NEW t \in Threads, CheckNext(t)
    PROVE  TypeInv'
  <1> DEFINE c == op[t]
             p == c.k % WrapPages
  <1>1. c \in Call /\ Running /\ c.pc = "check" /\ numPages \in Nat /\ CallOK(c, numPages)
    BY DEF CheckNext, TypeInv, TypeOK, Call, CallsOK
  <1>2. c.idx \in Nat /\ c.n \in Nat /\ c.k \in Nat
    BY <1>1, GrantedFacts
  <1>3. /\ c.n >= 2 /\ c.idx < numPages
        /\ c.k \in (c.idx + 1) .. (c.idx + c.n - 1)
        /\ \A q \in (c.idx + 1) .. (c.k - 1) : q % WrapPages < numPages
    BY <1>1 DEF CallOK
  <1>4. \/ Local(t, [c EXCEPT !.pc = "scan", !.idx = c.idx + 1, !.k = 0])
        \/ /\ p < numPages
           /\ \/ c.k + 1 = c.idx + c.n /\ Local(t, [c EXCEPT !.pc = "set", !.k = c.idx])
              \/ c.k + 1 # c.idx + c.n /\ Local(t, [c EXCEPT !.k = c.k + 1])
        \/ Panic("range")
    BY DEF CheckNext
  <1> HIDE DEF c
  <1>5. ASSUME Local(t, [c EXCEPT !.pc = "scan", !.idx = c.idx + 1, !.k = 0]) PROVE TypeInv'
    <2> DEFINE d == [c EXCEPT !.pc = "scan", !.idx = c.idx + 1, !.k = 0]
    <2>1. d \in Call /\ d.pc = "scan"
      <3>1. c.idx + 1 \in Nat /\ 0 \in Nat
        BY <1>2
      <3>. QED  BY <1>1, <3>1, Zenon DEF Call
    <2> HIDE DEF d
    <2>2. CallOK(d, numPages)
      BY <2>1 DEF CallOK
    <2>. QED  BY <1>1, <1>5, <2>1, <2>2, LocalTypes DEF d
  <1>6. ASSUME p < numPages, c.k + 1 = c.idx + c.n, Local(t, [c EXCEPT !.pc = "set", !.k = c.idx])
        PROVE  TypeInv'
    <2> DEFINE d == [c EXCEPT !.pc = "set", !.k = c.idx]
    <2>1. d \in Call /\ d.pc = "set" /\ d.idx = c.idx /\ d.k = c.idx /\ d.n = c.n
      BY <1>1, <1>2 DEF Call
    <2> HIDE DEF d
    <2>2. Granted(d) = c.idx .. (c.idx + c.n - 1) /\ d.k \in Granted(d)
      BY <1>2, <1>3, <2>1, GrantedFacts
    <2>3. \A q \in Granted(d) : q % WrapPages < numPages
      <3> SUFFICES ASSUME NEW q \in c.idx .. (c.idx + c.n - 1) PROVE q % WrapPages < numPages
        BY <2>2
      <3>1. CASE q = c.idx
        <4>1. c.idx % WrapPages <= c.idx
          BY <1>2, SizesAssumption
        <4>2. c.idx % WrapPages \in Nat
          BY <1>2, SizesAssumption
        <4>. QED  BY <1>1, <1>2, <1>3, <3>1, <4>1, <4>2
      <3>2. CASE q # c.idx
        BY <1>2, <1>3, <1>6, <3>2
      <3>. QED  BY <3>1, <3>2
    <2>4. CallOK(d, numPages)
      BY <1>3, <2>1, <2>2, <2>3 DEF CallOK
    <2>. QED  BY <1>1, <1>6, <2>1, <2>4, LocalTypes DEF d
  <1>7. ASSUME p < numPages, c.k + 1 # c.idx + c.n, Local(t, [c EXCEPT !.k = c.k + 1])
        PROVE  TypeInv'
    <2> DEFINE d == [c EXCEPT !.k = c.k + 1]
    <2>1. d \in Call /\ d.pc = "check" /\ d.idx = c.idx /\ d.k = c.k + 1 /\ d.n = c.n
      BY <1>1, <1>2 DEF Call
    <2> HIDE DEF d
    <2>2. \A q \in (c.idx + 1) .. c.k : q % WrapPages < numPages
      BY <1>2, <1>3, <1>7
    <2>3. CallOK(d, numPages)
      BY <1>2, <1>3, <1>7, <2>1, <2>2 DEF CallOK
    <2>. QED  BY <1>1, <1>7, <2>1, <2>3, LocalTypes DEF d
  <1>. QED  BY <1>4, <1>5, <1>6, <1>7, PanicTypes

\* allocate sets one bit of the run.
LEMMA SetPageTypes ==
    ASSUME TypeInv, NEW t \in Threads, SetPage(t)
    PROVE  TypeInv'
  <1> DEFINE c == op[t]
             page == IF c.n <= 1 THEN c.k ELSE c.k % WrapPages
             counted == [q \in DOMAIN grants |-> IF q \in Granted(c) THEN grants[q] + 1 ELSE grants[q]]
  <1>1. c \in Call /\ Running /\ c.pc = "set" /\ numPages \in Nat /\ CallOK(c, numPages)
    BY DEF SetPage, TypeInv, TypeOK, Call, CallsOK
  <1>2. c.idx \in Nat /\ c.n \in Nat /\ c.k \in Nat
    BY <1>1, GrantedFacts
  <1>3. /\ c.idx < numPages /\ c.k \in Granted(c)
        /\ c.n >= 2 => \A q \in Granted(c) : q % WrapPages < numPages
    BY <1>1 DEF CallOK
  <1>4. /\ used' = used \union {page}
        /\ \/ /\ c.k + 1 \in Granted(c)
              /\ op' = [op EXCEPT ![t].k = c.k + 1] /\ grants' = grants
           \/ op' = [op EXCEPT ![t] = NoCall] /\ grants' = counted
        /\ UNCHANGED <<phase, bootVars, heapBase, panicked, heapPages>>
    BY DEF SetPage
  <1>5. page \in 0 .. (numPages - 1)
    <2>1. CASE c.n <= 1
      <3>1. c.k = c.idx
        BY <1>1, <1>2, <1>3, <2>1, GrantedFacts
      <3>. QED  BY <1>1, <1>2, <1>3, <2>1, <3>1
    <2>2. CASE ~(c.n <= 1)
      <3>1. c.k % WrapPages < numPages
        BY <1>2, <1>3, <2>2
      <3>2. c.k % WrapPages \in Nat
        BY <1>2, SizesAssumption
      <3>. QED  BY <1>1, <2>2, <3>1, <3>2
    <2>. QED  BY <2>1, <2>2
  <1>6. used' \subseteq 0 .. (numPages - 1)
    BY <1>4, <1>5 DEF TypeInv, TypeOK
  <1>7. counted \in [0 .. PageLimit -> Nat]
    BY DEF TypeInv, TypeOK
  <1>8. ASSUME NEW d \in Call, CallOK(d, numPages), op' = [op EXCEPT ![t] = d],
               grants' \in [0 .. PageLimit -> Nat]
        PROVE  TypeInv'
    <2>1. op' \in [Threads -> Call]
      BY <1>8 DEF TypeInv, TypeOK, Call
    <2>2. TypeOK'
      BY <1>4, <1>6, <1>8, <2>1 DEF TypeInv, TypeOK, Call, bootVars
    <2>3. \A u \in Threads : op'[u] = IF u = t THEN d ELSE op[u]
      BY <1>8 DEF TypeInv, TypeOK
    <2>4. CallsOK'
      BY <1>4, <1>8, <2>3 DEF TypeInv, CallsOK, bootVars
    <2>5. BootAlone'
      BY <1>1, <1>4 DEF Running, BootAlone
    <2>. QED  BY <2>2, <2>4, <2>5 DEF TypeInv
  <1>9. CASE c.k + 1 \in Granted(c) /\ op' = [op EXCEPT ![t].k = c.k + 1] /\ grants' = grants
    <2> DEFINE d == [c EXCEPT !.k = c.k + 1]
    <2>1. op' = [op EXCEPT ![t] = d]
      BY <1>9
    <2>2. d \in Call /\ d.pc = "set" /\ d.idx = c.idx /\ d.k = c.k + 1 /\ d.n = c.n
      <3> HIDE DEF c
      <3>. QED  BY <1>1, <1>2 DEF Call
    <2> HIDE DEF d, c
    <2>3. Granted(d) = Granted(c)
      BY <2>2 DEF Granted
    <2>4. CallOK(d, numPages)
      BY <1>3, <1>9, <2>2, <2>3 DEF CallOK
    <2>. QED  BY <1>8, <1>9, <2>1, <2>2, <2>4 DEF TypeInv, TypeOK
  <1>10. CASE op' = [op EXCEPT ![t] = NoCall] /\ grants' = counted
    BY <1>7, <1>8, <1>10, NoCallFacts
  <1>. QED  BY <1>4, <1>9, <1>10

\* free_page clears a bit.
LEMMA FreeTypes ==
    ASSUME TypeInv, NEW p \in 0 .. PageLimit, Free(p)
    PROVE  TypeInv'
  <1>1. CASE /\ used' = used \ {p} /\ grants' = [grants EXCEPT ![p] = @ - 1]
             /\ UNCHANGED <<phase, bootVars, heapBase, op, panicked, heapPages>>
    <2>1. grants' \in [0 .. PageLimit -> Nat]
      <3>1. grants \in [0 .. PageLimit -> Nat] /\ grants[p] > 0
        BY DEF Free, TypeInv, TypeOK
      <3>2. grants[p] - 1 \in Nat
        BY <3>1
      <3>. QED  BY <1>1, <3>1, <3>2
    <2>2. TypeOK'
      BY <1>1, <2>1 DEF TypeInv, TypeOK, bootVars
    <2>. QED  BY <1>1, <2>2 DEF TypeInv, CallsOK, BootAlone, bootVars
  <1>. QED  BY <1>1, PanicTypes DEF Free

\* A block is taken from the early heap.
LEMMA KmallocTypes ==
    ASSUME TypeInv, NEW size \in HeapSizes, NEW align \in {MinAlign, PageBytes},
           Kmalloc(size, align)
    PROVE  TypeInv'
  <1> DEFINE end == AlignUp(heapBase, align) + size
             moved == PageOf(heapBase) # PageOf(end)
  <1>1. size \in Nat /\ align \in Nat \ {0} /\ PageBytes \in Nat \ {0}
    BY SizesAssumption
  <1>2. CASE /\ HeapFits(size, align)
             /\ moved => PageOf(end) < numPages
             /\ TakeBlock(size, align)
             /\ used' = IF moved THEN used \union {PageOf(end)} ELSE used
             /\ UNCHANGED <<phase, bootVars, op, panicked, grants>>
    <2>1. heapBase' \in Nat /\ heapPages' \subseteq Nat /\ AlignUp(heapBase, align) \in Nat
      BY <1>1, <1>2, HeapFacts DEF TypeInv
    <2>2. PageOf(end) \in Nat
      <3>1. end \in Nat
        BY <1>1, <2>1
      <3> HIDE DEF end
      <3>. QED  BY <1>1, <3>1, DivMod DEF PageOf
    <2>3. used' \subseteq 0 .. (numPages - 1)
      <3>1. numPages \in Nat /\ used \subseteq 0 .. (numPages - 1)
        BY DEF TypeInv, TypeOK
      <3>2. /\ moved => PageOf(end) < numPages
            /\ used' = IF moved THEN used \union {PageOf(end)} ELSE used
        BY <1>2
      <3> DEFINE q == PageOf(end)
      <3>3. CASE moved
        <4>1. q \in Nat /\ q < numPages /\ used' = used \union {q}
          BY <2>2, <3>2, <3>3
        <4> HIDE DEF q
        <4>. QED  BY <3>1, <4>1
      <3>4. CASE ~moved
        BY <3>1, <3>2, <3>4
      <3>. QED  BY <3>3, <3>4
    <2>4. TypeOK'
      BY <1>2, <2>1, <2>3 DEF TypeInv, TypeOK, bootVars
    <2>. QED  BY <1>2, <2>4 DEF TypeInv, CallsOK, BootAlone, bootVars
  <1>. QED  BY <1>2, PanicTypes DEF Kmalloc

\* The initial state has the types.
LEMMA InitTypes == Init => TypeInv
  <1> SUFFICES ASSUME Init PROVE TypeInv
    OBVIOUS
  <1>1. op \in [Threads -> Call] /\ \A t \in Threads : op[t] = NoCall
    BY NoCallFacts DEF Init
  <1>2. numPages = 0 /\ used \subseteq 0 .. (numPages - 1)
    BY DEF Init
  <1>3. TypeOK
    BY <1>1, <1>2, SizesAssumption DEF Init, TypeOK, Call
  <1>. QED  BY <1>1, <1>3, NoCallFacts DEF TypeInv, CallsOK, BootAlone

\* Every step keeps them.
LEMMA NextTypes == TypeInv /\ [Next]_vars => TypeInv'
  <1> SUFFICES ASSUME TypeInv, [Next]_vars PROVE TypeInv'
    OBVIOUS
  <1>1. CASE Boot
    BY <1>1, BootTypes
  <1>2. ASSUME NEW t \in Threads, NEW n \in Requests, Allocate(t, n) PROVE TypeInv'
    BY <1>2, AllocateTypes
  <1>3. ASSUME NEW t \in Threads, Scan(t) \/ CheckNext(t) \/ SetPage(t) PROVE TypeInv'
    BY <1>3, ScanTypes, CheckNextTypes, SetPageTypes
  <1>4. ASSUME NEW p \in 0 .. PageLimit, Free(p) PROVE TypeInv'
    BY <1>4, FreeTypes
  <1>5. ASSUME NEW size \in HeapSizes, NEW align \in {MinAlign, PageBytes}, Kmalloc(size, align)
        PROVE  TypeInv'
    BY <1>5, KmallocTypes
  <1>6. CASE UNCHANGED vars
    BY <1>6 DEF vars, TypeInv, TypeOK, CallsOK, BootAlone
  <1>. QED  BY <1>1, <1>2, <1>3, <1>4, <1>5, <1>6 DEF Next

\* So they hold however calls overlap.
LEMMA TypeInvariance == Spec => []TypeInv
  BY InitTypes, NextTypes, PTL DEF Spec

\* Every bit set belongs to a page of the bitmap and every field has its type,
\* however calls overlap and wherever memory ends: the assertions in bitset.h are
\* enough even for addresses that wrapped.
THEOREM TypeCorrect == Spec => []TypeOK
  <1>1. TypeInv => TypeOK
    BY DEF TypeInv
  <1>. QED  BY <1>1, TypeInvariance, PTL

-----------------------------------------------------------------------------
(* Calls that do not overlap *)

\* At most one thread is inside allocate.
OneCall == \A t, u \in Threads : op[t].pc # "out" /\ op[u].pc # "out" => t = u

\* Every byte of page p is free memory.
FreePage(p) ==
    \A b \in (p * PageBytes) .. (p * PageBytes + PageBytes - 1) :
        \E r \in FreeRegions : r.start <= b /\ b < r.start + r.size

\* A clear bit stands for free memory, and after boot for free memory above the
\* reserved pages.
BitmapOK ==
    /\ numPages <= WrapPages
    /\ phase = "free" => \A p \in 0 .. (numPages - 1) : p \in used
    /\ phase \in {"reserve", "count", "run"} =>
          \A p \in 0 .. (numPages - 1) : p \notin used => FreePage(p)
    /\ phase \in {"count", "run"} =>
          \A p \in 0 .. (numPages - 1) : p \notin used => p >= LowPages

\* The heap stays in the reserved pages.
HeapOK == \A p \in heapPages : p < LowPages

\* A granted page is granted once, set, and free memory above the reserved pages.
GrantsOK ==
    \A p \in 0 .. PageLimit : grants[p] > 0 =>
        /\ grants[p] = 1 /\ phase = "run"
        /\ p \in used /\ p >= LowPages /\ FreePage(p)

\* The pages that a request for n takes.
Span(n) == IF n >= 1 THEN n ELSE 1

\* The n pages from i on exist and are clear.
FreeRun(i, n, pages, bits) ==
    \A p \in i .. (i + Span(n) - 1) : p < pages /\ p \notin bits

\* What a call has found out: no run starts below idx; the pages it has tested
\* are clear; the pages it has set are set and the rest of its run is clear.
SearchOK(c, pages, bits) ==
    /\ c.pc \in {"scan", "check"} =>
          \A i \in 0 .. (c.idx - 1) : ~FreeRun(i, c.n, pages, bits)
    /\ c.pc = "set" /\ c.k = c.idx =>
          \A i \in 0 .. (c.idx - 1) : ~FreeRun(i, c.n, pages, bits)
    /\ c.pc = "check" => \A p \in c.idx .. (c.k - 1) : p < pages /\ p \notin bits
    /\ c.pc = "set" =>
          /\ \A p \in c.k .. (c.idx + Span(c.n) - 1) : p < pages /\ p \notin bits
          /\ \A p \in c.idx .. (c.k - 1) : p < pages /\ p \in bits

\* The pages a call is about to hand out are nobody's.
FoundOK(c) ==
    c.pc = "set" => \A p \in c.idx .. (c.idx + Span(c.n) - 1) :
        /\ p >= LowPages /\ FreePage(p)
        /\ p <= PageLimit => grants[p] = 0

\* Every call has found out what its position says.
SearchesOK == \A t \in Threads : SearchOK(op[t], numPages, used) /\ FoundOK(op[t])

\* The kernel stops for want of memory only when there is none.
PanicOK ==
    panicked \in {"oom", "range"} =>
        \E t \in Threads :
            /\ op[t].pc # "out"
            /\ \A i \in 0 .. (numPages - 1) : ~FreeRun(i, op[t].n, numPages, used)

\* The inductive invariant when calls do not overlap.
SerialInv ==
    TypeInv /\ OneCall /\ BitmapOK /\ HeapOK /\ GrantsOK /\ SearchesOK /\ PanicOK

\* The machines the theorems below speak of.
Machine == SerialCalls /\ WholePages /\ Addressable /\ LowHeap

\* The memory map does not change, so free memory stays free memory.
LEMMA MapFixed ==
    ASSUME memmap' = memmap
    PROVE  \A p : FreePage(p)' <=> FreePage(p)
  BY DEF FreePage, FreeRegions

\* A step that waits for its turn finds no call under way.
LEMMA NoneBusy ==
    ASSUME TypeOK, OneCall, SerialCalls, Cardinality(Busy) < MaxBusy
    PROVE  \A t \in Threads : op[t].pc = "out"
  <1> SUFFICES ASSUME NEW t \in Threads, op[t].pc # "out" PROVE FALSE
    OBVIOUS
  <1>1. Busy = {t}
    BY DEF Busy, OneCall
  <1>2. Cardinality(Busy) = 1
    BY <1>1, FS_Singleton, Zenon
  <1>. QED  BY <1>2 DEF SerialCalls

\* The kernel stops, and if for want of memory then there is none.
LEMMA PanicSerial ==
    ASSUME SerialInv, NEW why \in {"heap", "assert", "oom", "range"}, Panic(why),
           why \in {"oom", "range"} =>
               \E t \in Threads :
                   /\ op[t].pc # "out"
                   /\ \A i \in 0 .. (numPages - 1) : ~FreeRun(i, op[t].n, numPages, used)
    PROVE  SerialInv'
  <1>1. TypeInv'
    BY PanicTypes DEF SerialInv
  <1>2. /\ panicked' = why
        /\ UNCHANGED <<phase, memmap, numPages, used, maxFree, nonBacked, heapBase,
                       op, grants, heapPages>>
    BY DEF Panic
  <1>3. OneCall' /\ HeapOK'
    BY <1>2 DEF SerialInv, OneCall, HeapOK
  <1>4. BitmapOK' /\ GrantsOK'
    BY <1>2, MapFixed DEF SerialInv, BitmapOK, GrantsOK
  <1>5. SearchesOK'
    BY <1>2, MapFixed DEF SerialInv, SearchesOK, FoundOK
  <1>6. PanicOK'
    BY <1>2 DEF PanicOK
  <1>. QED  BY <1>1, <1>3, <1>4, <1>5, <1>6 DEF SerialInv

\* A step of a call that changes its locals only.
LEMMA LocalSerial ==
    ASSUME SerialInv, TypeInv', Running, NEW t \in Threads, NEW d \in Call,
           \A u \in Threads \ {t} : op[u].pc = "out",
           SearchOK(d, numPages, used), FoundOK(d), Local(t, d)
    PROVE  SerialInv'
  <1>1. /\ op' = [op EXCEPT ![t] = d]
        /\ UNCHANGED <<phase, memmap, numPages, used, heapBase, panicked, grants, heapPages>>
    BY DEF Local, bootVars
  <1>2. \A u \in Threads : op'[u] = IF u = t THEN d ELSE op[u]
    BY <1>1 DEF SerialInv, TypeInv, TypeOK
  <1>3. OneCall' /\ HeapOK'
    BY <1>1, <1>2 DEF SerialInv, OneCall, HeapOK
  <1>4. BitmapOK' /\ GrantsOK'
    BY <1>1, MapFixed DEF SerialInv, BitmapOK, GrantsOK
  <1>5. SearchesOK'
    <2> SUFFICES ASSUME NEW u \in Threads
                 PROVE  SearchOK(op'[u], numPages', used') /\ FoundOK(op[u])'
      BY DEF SearchesOK
    <2>1. SearchOK(op[u], numPages, used) /\ FoundOK(op[u])
      BY DEF SerialInv, SearchesOK
    <2>2. SearchOK(op'[u], numPages', used')
      BY <1>1, <1>2, <2>1
    <2>3. FoundOK(op[u])'
      <3>1. CASE u = t
        BY <1>1, <1>2, <3>1, MapFixed DEF FoundOK
      <3>2. CASE u # t
        BY <1>1, <1>2, <2>1, <3>2, MapFixed DEF FoundOK
      <3>. QED  BY <3>1, <3>2
    <2>. QED  BY <2>2, <2>3
  <1>6. PanicOK'
    BY <1>1 DEF PanicOK, Running
  <1>. QED  BY <1>3, <1>4, <1>5, <1>6 DEF SerialInv

\* The heap takes blocks below its limit, which is in the reserved memory.
LEMMA HeapStaysLow ==
    ASSUME TypeOK, Machine, HeapOK, NEW size \in Nat, NEW align \in Nat \ {0},
           HeapFits(size, align), TakeBlock(size, align)
    PROVE  HeapOK'
  <1> SUFFICES ASSUME NEW p \in heapPages' PROVE p < LowPages
    BY DEF HeapOK
  <1>1. CASE p \in heapPages
    BY <1>1 DEF HeapOK
  <1>2. ASSUME NEW a \in Nat, a < HeapLimit, p = PageOf(a) PROVE p < LowPages
    <2>1. HeapLimit <= LowPages * PageBytes /\ LowPages \in Nat /\ PageBytes \in Nat \ {0}
          /\ HeapLimit \in Nat
      BY SizesAssumption DEF Machine, LowHeap
    <2>2. LowPages * PageBytes \in Nat
      BY <2>1
    <2>3. a < LowPages * PageBytes
      BY <1>2, <2>1, <2>2
    <2>4. a \div PageBytes < LowPages
      BY <2>1, <2>3, DivBelow
    <2>. QED  BY <1>2, <2>4 DEF PageOf
  <1>3. p \in heapPages \/ \E a \in Nat : a < HeapLimit /\ p = PageOf(a)
    BY HeapFacts
  <1>. QED  BY <1>1, <1>2, <1>3

\* A boot step finds no call and nothing handed out.
LEMMA BootQuiet ==
    ASSUME SerialInv, phase # "run", panicked = "no", panicked' = "no",
           op' = op, grants' = grants
    PROVE  OneCall' /\ SearchesOK' /\ GrantsOK' /\ PanicOK'
  <1>1. \A t \in Threads : op[t].pc = "out"
    BY NoCallFacts DEF SerialInv, TypeInv, BootAlone
  <1>2. OneCall'
    BY <1>1 DEF OneCall
  <1>3. SearchesOK'
    BY <1>1 DEF SearchesOK, SearchOK, FoundOK
  <1>4. \A p \in 0 .. PageLimit : ~(grants[p] > 0)
    BY DEF SerialInv, GrantsOK
  <1>5. GrantsOK'
    BY <1>4 DEF GrantsOK
  <1>6. PanicOK'
    BY DEF PanicOK
  <1>. QED  BY <1>2, <1>3, <1>5, <1>6

\* A region that begins and ends with a page frees the pages that lie in it.
LEMMA RegionIsWhole ==
    ASSUME TypeOK, Machine, NEW r \in FreeRegions, NEW p \in RegionPages(r)
    PROVE  FreePage(p)
  <1>1. PageBytes \in Nat \ {0} /\ r.start \in Nat /\ r.size \in Nat
    BY MapFacts, SizesAssumption
  <1>2. r.start % PageBytes = 0 /\ r.size % PageBytes = 0
    <2>1. PICK i \in DOMAIN memmap : r = memmap[i] /\ memmap[i].free
      BY MapFacts
    <2>. QED  BY <2>1 DEF TypeOK, Machine, WholePages
  <1>3. PICK j \in 0 .. r.size : j * PageBytes < r.size /\ p = PageOf(r.start + j * PageBytes)
    BY DEF RegionPages
  <1> DEFINE s == r.start \div PageBytes
             z == r.size \div PageBytes
  <1>4. s \in Nat /\ z \in Nat /\ r.start = s * PageBytes /\ r.size = z * PageBytes
    BY <1>1, <1>2, DivMod
  <1> HIDE DEF s, z
  <1>5. j \in Nat
    BY <1>1, <1>3
  <1>6. p = s + j
    <2>1. r.start + j * PageBytes = (s + j) * PageBytes
      BY <1>1, <1>4, <1>5, Distribute
    <2>2. s + j \in Nat
      BY <1>4, <1>5
    <2>3. ((s + j) * PageBytes) \div PageBytes = s + j
      BY <1>1, <2>2, DivOfMultiple
    <2>. QED  BY <1>3, <2>1, <2>3 DEF PageOf
  <1>7. j + 1 <= z
    <2> SUFFICES ASSUME z <= j PROVE FALSE
      BY <1>4, <1>5
    <2>1. z * PageBytes <= j * PageBytes
      BY <1>1, <1>4, <1>5, MulMonotone
    <2>. QED  BY <1>1, <1>3, <1>4, <1>5, <2>1
  <1>8. (p + 1) * PageBytes <= (s + z) * PageBytes
    BY <1>1, <1>4, <1>5, <1>6, <1>7, MulMonotone
  <1>9. s * PageBytes <= p * PageBytes
    BY <1>1, <1>4, <1>5, <1>6, MulMonotone
  <1>10. (p + 1) * PageBytes = p * PageBytes + PageBytes
    <2>1. p \in Nat
      BY <1>4, <1>5, <1>6
    <2>2. p * PageBytes + 1 * PageBytes = (p + 1) * PageBytes
      BY <1>1, <2>1, Distribute
    <2>. QED  BY <1>1, <2>2
  <1>11. (s + z) * PageBytes = r.start + r.size
    BY <1>1, <1>4, Distribute
  <1> DEFINE first == p * PageBytes
  <1>12. r.start <= first /\ first + PageBytes <= r.start + r.size /\ first \in Nat
    BY <1>1, <1>4, <1>5, <1>6, <1>8, <1>9, <1>10, <1>11
  <1> HIDE DEF first
  <1>13. \A b \in first .. (first + PageBytes - 1) : r.start <= b /\ b < r.start + r.size
    BY <1>1, <1>12
  <1>. QED  BY <1>13 DEF FreePage, first

\* The bitmap covers no more pages than an unsigned int can address.
LEMMA PagesAddressable ==
    ASSUME TypeOK, Machine
    PROVE  MemEnd \div PageBytes <= WrapPages
  <1>1. PageBytes \in Nat \ {0} /\ WrapPages \in Nat
    BY SizesAssumption
  <1>2. WrapPages * PageBytes \in Nat
    BY <1>1
  <1>3. MemEnd \in Nat /\ MemEnd <= WrapPages * PageBytes
    <2>1. CASE MemEnd = 0
      BY <1>2, <2>1
    <2>2. ASSUME NEW r \in FreeRegions, MemEnd = r.start + r.size
          PROVE  MemEnd <= WrapPages * PageBytes
      <3>1. PICK i \in DOMAIN memmap : r = memmap[i] /\ memmap[i].free
        BY MapFacts
      <3>. QED  BY <2>2, <3>1 DEF TypeOK, Machine, Addressable
    <2>. QED  BY <2>1, <2>2, MemEndFacts
  <1> DEFINE end == MemEnd
  <1> HIDE DEF end
  <1>4. end \in Nat /\ end <= WrapPages * PageBytes
    BY <1>3 DEF end
  <1>5. end \div PageBytes <= WrapPages
    BY <1>1, <1>4, DivBelow
  <1>. QED  BY <1>5 DEF end

\* Boot builds a bitmap whose clear bits are free memory above the low pages.
LEMMA BootSerial ==
    ASSUME SerialInv, TypeInv', Machine, Boot
    PROVE  SerialInv'
  <1>1. TypeOK /\ HeapOK /\ BitmapOK /\ numPages \in Nat /\ LowPages \in Nat
    BY SizesAssumption DEF SerialInv, TypeInv, TypeOK
  <1>2. ASSUME phase # "run", panicked = "no", panicked' = "no", op' = op, grants' = grants,
               BitmapOK', HeapOK'
        PROVE  SerialInv'
    BY <1>2, BootQuiet DEF SerialInv
  <1>3. ASSUME Panic("heap") \/ Panic("assert") PROVE SerialInv'
    BY <1>3, PanicSerial
  <1>4. CASE VmmInit
    <2>1. CASE /\ HeapFits(PageBytes, PageBytes) /\ TakeBlock(PageBytes, PageBytes)
               /\ phase' = "init"
               /\ UNCHANGED <<bootVars, used, op, panicked, grants>>
      <3>1. HeapOK'
        BY <1>1, <2>1, HeapStaysLow, SizesAssumption
      <3>2. BitmapOK'
        BY <1>1, <2>1 DEF BitmapOK, bootVars
      <3>. QED  BY <1>2, <1>4, <2>1, <3>1, <3>2 DEF VmmInit
    <2>. QED  BY <1>3, <1>4, <2>1 DEF VmmInit
  <1>5. CASE PmmInit
    <2> DEFINE pages == MemEnd \div PageBytes
               bitmap == (pages \div 8) + 1
    <2>1. pages \in Nat /\ bitmap \in Nat
      <3>1. MemEnd \in Nat /\ PageBytes \in Nat \ {0}
        BY <1>1, MemEndFacts, SizesAssumption
      <3>2. pages \in Nat
        BY <3>1, DivMod
      <3> HIDE DEF pages
      <3>3. pages \div 8 \in Nat
        BY <3>2, DivMod
      <3>. QED  BY <3>2, <3>3
    <2>2. \/ /\ HeapFits(bitmap, MinAlign) /\ TakeBlock(bitmap, MinAlign)
             /\ numPages' = pages /\ used' = 0 .. (pages - 1) /\ phase' = "free"
             /\ UNCHANGED <<memmap, maxFree, nonBacked, op, panicked, grants>>
          \/ Panic("heap")
      BY <1>5 DEF PmmInit
    <2>3. pages <= WrapPages
      BY <1>1, PagesAddressable
    <2> HIDE DEF pages, bitmap
    <2>4. CASE /\ HeapFits(bitmap, MinAlign) /\ TakeBlock(bitmap, MinAlign)
               /\ numPages' = pages /\ used' = 0 .. (pages - 1) /\ phase' = "free"
               /\ UNCHANGED <<memmap, maxFree, nonBacked, op, panicked, grants>>
      <3>1. HeapOK'
        BY <1>1, <2>1, <2>4, HeapStaysLow, SizesAssumption
      <3>2. BitmapOK'
        BY <2>3, <2>4 DEF BitmapOK
      <3>. QED  BY <1>2, <1>5, <2>4, <3>1, <3>2 DEF PmmInit
    <2>. QED  BY <1>3, <2>2, <2>4
  <1>6. CASE FreeMemory
    <2> DEFINE freed == UNION {RegionPages(r) : r \in FreeRegions}
    <2>1. CASE /\ used' = used \ freed /\ phase' = "reserve"
               /\ UNCHANGED <<bootVars, heapBase, op, panicked, grants, heapPages>>
      <3>1. \A p \in freed : FreePage(p)
        BY <1>1, RegionIsWhole
      <3> HIDE DEF freed
      <3>2. phase = "free" /\ memmap' = memmap /\ numPages' = numPages
        BY <1>6, <2>1 DEF FreeMemory, bootVars
      <3>3. \A p \in 0 .. (numPages - 1) : p \notin used' => FreePage(p)
        BY <1>1, <2>1, <3>1, <3>2 DEF BitmapOK
      <3>4. BitmapOK'
        BY <1>1, <2>1, <3>2, <3>3, MapFixed DEF BitmapOK
      <3>5. HeapOK'
        BY <1>1, <2>1 DEF HeapOK
      <3>. QED  BY <1>2, <1>6, <2>1, <3>4, <3>5 DEF FreeMemory
    <2>. QED  BY <1>3, <1>6, <2>1 DEF FreeMemory
  <1>7. CASE ReserveLow
    <2>1. CASE /\ LowPages <= numPages /\ used' = used \union (0 .. (LowPages - 1))
               /\ phase' = "count"
               /\ UNCHANGED <<bootVars, heapBase, op, panicked, grants, heapPages>>
      <3>1. phase = "reserve" /\ memmap' = memmap /\ numPages' = numPages
        BY <1>7, <2>1 DEF ReserveLow, bootVars
      <3>2. \A p \in 0 .. (numPages - 1) : p \notin used' => FreePage(p)
        BY <1>1, <2>1, <3>1 DEF BitmapOK
      <3>3. \A p \in 0 .. (numPages - 1) : p \notin used' => p >= LowPages
        BY <1>1, <2>1
      <3>4. BitmapOK'
        BY <1>1, <2>1, <3>1, <3>2, <3>3, MapFixed DEF BitmapOK
      <3>5. HeapOK'
        BY <1>1, <2>1 DEF HeapOK
      <3>. QED  BY <1>2, <1>7, <2>1, <3>4, <3>5 DEF ReserveLow
    <2>. QED  BY <1>3, <1>7, <2>1 DEF ReserveLow
  <1>8. CASE SetFreeMemory
    <2>1. /\ phase = "count" /\ phase' = "run"
          /\ UNCHANGED <<memmap, numPages, used, heapBase, op, panicked, grants, heapPages>>
      BY <1>8 DEF SetFreeMemory
    <2>2. BitmapOK'
      BY <1>1, <2>1, MapFixed DEF BitmapOK
    <2>3. HeapOK'
      BY <1>1, <2>1 DEF HeapOK
    <2>. QED  BY <1>2, <1>8, <2>1, <2>2, <2>3 DEF SetFreeMemory
  <1>. QED  BY <1>4, <1>5, <1>6, <1>7, <1>8 DEF Boot

\* A call starts with nothing tested.
LEMMA AllocateSerial ==
    ASSUME SerialInv, TypeInv', Machine, NEW t \in Threads, NEW n \in Requests, Allocate(t, n)
    PROVE  SerialInv'
  <1> DEFINE d == [NoCall EXCEPT !.pc = "scan", !.n = n]
  <1>1. d \in Call /\ d.pc = "scan" /\ d.idx = 0
    BY DEF NoCall, Call
  <1>2. Running /\ Local(t, d) /\ Cardinality(Busy) < MaxBusy
    BY DEF Allocate
  <1> HIDE DEF d
  <1>3. \A u \in Threads : op[u].pc = "out"
    BY <1>2, NoneBusy DEF SerialInv, TypeInv, Machine
  <1>4. SearchOK(d, numPages, used) /\ FoundOK(d)
    BY <1>1 DEF SearchOK, FoundOK
  <1>. QED  BY <1>1, <1>2, <1>3, <1>4, LocalSerial

\* What the invariant says of the thread that takes a step of its call.
LEMMA CallFacts ==
    ASSUME SerialInv, Running, NEW t \in Threads, op[t].pc # "out"
    PROVE  /\ op[t] \in Call /\ op[t].idx \in Nat /\ op[t].n \in Nat /\ op[t].k \in Nat
           /\ numPages \in Nat /\ numPages <= WrapPages /\ WrapPages \in Nat \ {0}
           /\ CallOK(op[t], numPages) /\ SearchOK(op[t], numPages, used) /\ FoundOK(op[t])
           /\ \A u \in Threads \ {t} : op[u].pc = "out"
           /\ \A p \in 0 .. (numPages - 1) : p \notin used => p >= LowPages /\ FreePage(p)
           /\ Span(op[t].n) \in Nat /\ Span(op[t].n) >= 1 /\ Span(op[t].n) >= op[t].n
  <1>1. op[t] \in Call /\ numPages \in Nat /\ CallOK(op[t], numPages)
    BY DEF SerialInv, TypeInv, TypeOK, Call, CallsOK
  <1>2. op[t].idx \in Nat /\ op[t].n \in Nat /\ op[t].k \in Nat
    BY <1>1, GrantedFacts
  <1>3. numPages <= WrapPages /\ WrapPages \in Nat \ {0}
    BY SizesAssumption DEF SerialInv, BitmapOK
  <1>4. SearchOK(op[t], numPages, used) /\ FoundOK(op[t])
    BY DEF SerialInv, SearchesOK
  <1>5. \A u \in Threads \ {t} : op[u].pc = "out"
    BY DEF SerialInv, OneCall
  <1>6. \A p \in 0 .. (numPages - 1) : p \notin used => p >= LowPages /\ FreePage(p)
    BY DEF SerialInv, BitmapOK, Running
  <1>7. Span(op[t].n) \in Nat /\ Span(op[t].n) >= 1 /\ Span(op[t].n) >= op[t].n
    BY <1>2 DEF Span
  <1>. QED  BY <1>1, <1>2, <1>3, <1>4, <1>5, <1>6, <1>7

\* No thread holds a page whose bit is clear.
LEMMA ClearIsFree ==
    ASSUME SerialInv, NEW p \in 0 .. PageLimit, p \notin used
    PROVE  grants[p] = 0
  <1>1. grants[p] \in Nat
    BY DEF SerialInv, TypeInv, TypeOK
  <1>2. ~(grants[p] > 0)
    BY DEF SerialInv, GrantsOK
  <1>. QED  BY <1>1, <1>2

\* The first run that is long enough starts at idx.
LEMMA RunFound ==
    ASSUME SerialInv, Running, NEW t \in Threads, op[t].pc \in {"scan", "check"},
           FreeRun(op[t].idx, op[t].n, numPages, used),
           NEW d \in Call, d.pc = "set", d.idx = op[t].idx, d.k = op[t].idx, d.n = op[t].n
    PROVE  SearchOK(d, numPages, used) /\ FoundOK(d)
  <1> DEFINE c == op[t]
  <1>1. /\ c.idx \in Nat /\ numPages \in Nat
        /\ \A p \in 0 .. (numPages - 1) : p \notin used => p >= LowPages /\ FreePage(p)
        /\ SearchOK(c, numPages, used) /\ Span(c.n) \in Nat
    BY CallFacts
  <1>2. \A p \in c.idx .. (c.idx + Span(c.n) - 1) : p < numPages /\ p \notin used /\ p \in Nat
    BY <1>1 DEF FreeRun
  <1>3. SearchOK(d, numPages, used)
    <2>1. \A i \in 0 .. (c.idx - 1) : ~FreeRun(i, c.n, numPages, used)
      BY <1>1 DEF SearchOK
    <2> HIDE DEF c
    <2>2. d.pc = "set" /\ d.idx = c.idx /\ d.k = c.idx /\ d.n = c.n
      BY DEF c
    <2>3. \A p \in d.idx .. (d.k - 1) : p < numPages /\ p \in used
      BY <1>1, <2>2
    <2>. QED  BY <1>2, <2>1, <2>2, <2>3 DEF SearchOK
  <1>4. FoundOK(d)
    <2> SUFFICES ASSUME NEW p \in c.idx .. (c.idx + Span(c.n) - 1)
                 PROVE  /\ p >= LowPages /\ FreePage(p)
                        /\ p <= PageLimit => grants[p] = 0
      BY DEF FoundOK
    <2>1. p \in Nat /\ p < numPages /\ p \notin used
      BY <1>2
    <2>2. p >= LowPages /\ FreePage(p)
      BY <1>1, <2>1
    <2>3. p <= PageLimit => grants[p] = 0
      BY <2>1, ClearIsFree, SizesAssumption
    <2>. QED  BY <2>2, <2>3
  <1>. QED  BY <1>3, <1>4

\* The outer loop.
LEMMA ScanSerial ==
    ASSUME SerialInv, TypeInv', Machine, NEW t \in Threads, Scan(t)
    PROVE  SerialInv'
  <1> DEFINE c == op[t]
  <1>1. Running /\ c.pc = "scan"
    BY DEF Scan
  <1>2. /\ c \in Call /\ c.idx \in Nat /\ c.n \in Nat /\ numPages \in Nat
        /\ SearchOK(c, numPages, used) /\ \A u \in Threads \ {t} : op[u].pc = "out"
        /\ Span(c.n) \in Nat /\ Span(c.n) >= 1
    BY <1>1, CallFacts
  <1>3. \A i \in 0 .. (c.idx - 1) : ~FreeRun(i, c.n, numPages, used)
    BY <1>1, <1>2 DEF SearchOK
  <1>4. \/ c.idx \in used /\ Local(t, [c EXCEPT !.idx = c.idx + 1])
        \/ c.idx < numPages /\ c.idx \notin used /\ c.n <= 1
           /\ Local(t, [c EXCEPT !.pc = "set", !.k = c.idx])
        \/ c.idx < numPages /\ c.idx \notin used /\ ~(c.n <= 1)
           /\ Local(t, [c EXCEPT !.pc = "check", !.k = c.idx + 1])
        \/ c.idx >= numPages /\ Panic("oom")
    BY DEF Scan
  <1>5. CASE c.idx \in used /\ Local(t, [c EXCEPT !.idx = c.idx + 1])
    <2> HIDE DEF c
    <2> DEFINE d == [c EXCEPT !.idx = c.idx + 1]
    <2>1. d \in Call /\ d.pc = "scan" /\ d.idx = c.idx + 1 /\ d.n = c.n
      <3>1. c.idx + 1 \in Nat
        BY <1>2
      <3>. QED  BY <1>1, <1>2, <3>1, Zenon DEF Call
    <2> HIDE DEF d
    <2>2. c.idx \in c.idx .. (c.idx + Span(c.n) - 1)
      BY <1>2
    <2>3. ~FreeRun(c.idx, c.n, numPages, used)
      BY <1>5, <2>2 DEF FreeRun
    <2>4. \A i \in 0 .. (d.idx - 1) : ~FreeRun(i, d.n, numPages, used)
      BY <1>2, <1>3, <2>1, <2>3
    <2>5. SearchOK(d, numPages, used) /\ FoundOK(d)
      BY <2>1, <2>4 DEF SearchOK, FoundOK
    <2>. QED  BY <1>1, <1>2, <1>5, <2>1, <2>5, LocalSerial DEF d
  <1>6. CASE c.idx < numPages /\ c.idx \notin used /\ c.n <= 1
             /\ Local(t, [c EXCEPT !.pc = "set", !.k = c.idx])
    <2>1. FreeRun(c.idx, c.n, numPages, used)
      <3> HIDE DEF c
      <3>1. Span(c.n) = 1
        BY <1>2, <1>6 DEF Span
      <3>. QED  BY <1>2, <1>6, <3>1 DEF FreeRun
    <2> DEFINE d == [c EXCEPT !.pc = "set", !.k = c.idx]
    <2>2. d \in Call /\ d.pc = "set" /\ d.idx = c.idx /\ d.k = c.idx /\ d.n = c.n
      <3> HIDE DEF c
      <3>. QED  BY <1>2, Zenon DEF Call
    <2> HIDE DEF d
    <2>3. SearchOK(d, numPages, used) /\ FoundOK(d)
      BY <1>1, <2>1, <2>2, RunFound
    <2>. QED  BY <1>1, <1>2, <1>6, <2>2, <2>3, LocalSerial DEF d
  <1>7. CASE c.idx < numPages /\ c.idx \notin used /\ ~(c.n <= 1)
             /\ Local(t, [c EXCEPT !.pc = "check", !.k = c.idx + 1])
    <2> HIDE DEF c
    <2> DEFINE d == [c EXCEPT !.pc = "check", !.k = c.idx + 1]
    <2>1. d \in Call /\ d.pc = "check" /\ d.idx = c.idx /\ d.k = c.idx + 1 /\ d.n = c.n
      <3>1. c.idx + 1 \in Nat
        BY <1>2
      <3>. QED  BY <1>2, <3>1, Zenon DEF Call
    <2> HIDE DEF d
    <2>2. \A p \in d.idx .. (d.k - 1) : p < numPages /\ p \notin used
      BY <1>2, <1>7, <2>1
    <2>3. SearchOK(d, numPages, used) /\ FoundOK(d)
      BY <1>3, <2>1, <2>2 DEF SearchOK, FoundOK
    <2>. QED  BY <1>1, <1>2, <1>7, <2>1, <2>3, LocalSerial DEF d
  <1>8. CASE c.idx >= numPages /\ Panic("oom")
    <2>1. \A i \in 0 .. (numPages - 1) : ~FreeRun(i, c.n, numPages, used)
      BY <1>2, <1>3, <1>8
    <2>. QED  BY <1>1, <1>8, <2>1, PanicSerial
  <1>. QED  BY <1>4, <1>5, <1>6, <1>7, <1>8

\* The inner loop.  Its page number cannot wrap: the first page beyond those an
\* unsigned int can address would be page 0, which is reserved.
LEMMA CheckNextSerial ==
    ASSUME SerialInv, TypeInv', Machine, NEW t \in Threads, CheckNext(t)
    PROVE  SerialInv'
  <1> DEFINE c == op[t]
             p == c.k % WrapPages
  <1>1. Running /\ c.pc = "check"
    BY DEF CheckNext
  <1>2. /\ c \in Call /\ c.idx \in Nat /\ c.n \in Nat /\ c.k \in Nat /\ numPages \in Nat
        /\ numPages <= WrapPages /\ WrapPages \in Nat \ {0}
        /\ \A u \in Threads \ {t} : op[u].pc = "out"
        /\ CallOK(c, numPages) /\ SearchOK(c, numPages, used)
        /\ \A q \in 0 .. (numPages - 1) : q \notin used => q >= LowPages
    BY <1>1, CallFacts
  <1>3. /\ c.n >= 2 /\ c.idx < numPages /\ c.k \in (c.idx + 1) .. (c.idx + c.n - 1)
        /\ \A i \in 0 .. (c.idx - 1) : ~FreeRun(i, c.n, numPages, used)
        /\ \A q \in c.idx .. (c.k - 1) : q < numPages /\ q \notin used
    BY <1>1, <1>2 DEF CallOK, SearchOK
  <1>4. \/ p < numPages /\ p \in used /\ Local(t, [c EXCEPT !.pc = "scan", !.idx = c.idx + 1, !.k = 0])
        \/ p < numPages /\ p \notin used /\ c.k + 1 = c.idx + c.n
           /\ Local(t, [c EXCEPT !.pc = "set", !.k = c.idx])
        \/ p < numPages /\ p \notin used /\ c.k + 1 # c.idx + c.n
           /\ Local(t, [c EXCEPT !.k = c.k + 1])
        \/ p >= numPages /\ Panic("range")
    BY DEF CheckNext
  <1>5. Span(c.n) = c.n
    BY <1>2, <1>3 DEF Span
  <1>6. c.k <= numPages
    <2>1. c.k - 1 \in c.idx .. (c.k - 1)
      BY <1>2, <1>3
    <2>. QED  BY <1>2, <1>3, <2>1
  <1>7. p \in Nat /\ (p = c.k \/ (p = 0 /\ c.k = numPages))
    <2>1. CASE c.k < WrapPages
      <3>1. p = c.k
        BY <1>2, <2>1, SmallMod
      <3>. QED  BY <1>2, <3>1
    <2>2. CASE c.k = WrapPages
      BY <1>2, <1>6, <2>2
    <2>. QED  BY <1>2, <1>6, <2>1, <2>2
  <1>8. ASSUME p < numPages, p \notin used PROVE p = c.k
    <2> HIDE DEF p
    <2>1. p >= LowPages /\ LowPages > 0 /\ LowPages \in Nat
      BY <1>2, <1>7, <1>8, SizesAssumption DEF Machine, LowHeap
    <2>. QED  BY <1>7, <2>1
  <1>9. ASSUME p \in used \/ p >= numPages PROVE ~FreeRun(c.idx, c.n, numPages, used)
    <2>1. c.k \in c.idx .. (c.idx + Span(c.n) - 1)
      BY <1>2, <1>3, <1>5
    <2>2. c.k \in used \/ c.k >= numPages
      <3> HIDE DEF p
      <3>. QED  BY <1>2, <1>7, <1>9
    <2> HIDE DEF c
    <2>3. ~(c.k < numPages /\ c.k \notin used)
      BY <1>2, <2>2
    <2>. QED  BY <2>1, <2>3 DEF FreeRun
  <1> HIDE DEF p
  <1>10. CASE p < numPages /\ p \in used
              /\ Local(t, [c EXCEPT !.pc = "scan", !.idx = c.idx + 1, !.k = 0])
    <2>1. ~FreeRun(c.idx, c.n, numPages, used)
      BY <1>9, <1>10
    <2> HIDE DEF c
    <2> DEFINE d == [c EXCEPT !.pc = "scan", !.idx = c.idx + 1, !.k = 0]
    <2>2. d \in Call /\ d.pc = "scan" /\ d.idx = c.idx + 1 /\ d.n = c.n
      <3>1. c.idx + 1 \in Nat /\ 0 \in Nat
        BY <1>2
      <3>. QED  BY <1>2, <3>1, Zenon DEF Call
    <2> HIDE DEF d
    <2>3. \A i \in 0 .. (d.idx - 1) : ~FreeRun(i, d.n, numPages, used)
      BY <1>2, <1>3, <2>1, <2>2
    <2>4. SearchOK(d, numPages, used) /\ FoundOK(d)
      BY <2>2, <2>3 DEF SearchOK, FoundOK
    <2>. QED  BY <1>1, <1>2, <1>10, <2>2, <2>4, LocalSerial DEF d
  <1>11. CASE p < numPages /\ p \notin used /\ c.k + 1 = c.idx + c.n
              /\ Local(t, [c EXCEPT !.pc = "set", !.k = c.idx])
    <2>1. FreeRun(c.idx, c.n, numPages, used)
      <3> HIDE DEF c
      <3>1. c.k < numPages /\ c.k \notin used
        BY <1>8, <1>11
      <3>2. \A q \in c.idx .. (c.idx + c.n - 1) : q = c.k \/ q \in c.idx .. (c.k - 1)
        BY <1>2, <1>3, <1>11
      <3>. QED  BY <1>3, <1>5, <3>1, <3>2 DEF FreeRun
    <2> DEFINE d == [c EXCEPT !.pc = "set", !.k = c.idx]
    <2>2. d \in Call /\ d.pc = "set" /\ d.idx = c.idx /\ d.k = c.idx /\ d.n = c.n
      <3> HIDE DEF c
      <3>. QED  BY <1>2, Zenon DEF Call
    <2> HIDE DEF d
    <2>3. SearchOK(d, numPages, used) /\ FoundOK(d)
      BY <1>1, <2>1, <2>2, RunFound
    <2>. QED  BY <1>1, <1>2, <1>11, <2>2, <2>3, LocalSerial DEF d
  <1>12. CASE p < numPages /\ p \notin used /\ c.k + 1 # c.idx + c.n
              /\ Local(t, [c EXCEPT !.k = c.k + 1])
    <2> HIDE DEF c
    <2> DEFINE d == [c EXCEPT !.k = c.k + 1]
    <2>1. d \in Call /\ d.pc = "check" /\ d.idx = c.idx /\ d.k = c.k + 1 /\ d.n = c.n
      <3>1. c.k + 1 \in Nat
        BY <1>2
      <3>. QED  BY <1>1, <1>2, <3>1, Zenon DEF Call
    <2> HIDE DEF d
    <2>2. c.k < numPages /\ c.k \notin used
      BY <1>8, <1>12
    <2>3. \A q \in d.idx .. (d.k - 1) : q < numPages /\ q \notin used
      <3>1. \A q \in c.idx .. c.k : q = c.k \/ q \in c.idx .. (c.k - 1)
        BY <1>2
      <3>2. d.k - 1 = c.k
        BY <1>2, <2>1
      <3>. QED  BY <1>3, <2>1, <2>2, <3>1, <3>2
    <2>4. SearchOK(d, numPages, used) /\ FoundOK(d)
      BY <1>3, <2>1, <2>3 DEF SearchOK, FoundOK
    <2>. QED  BY <1>1, <1>2, <1>12, <2>1, <2>4, LocalSerial DEF d
  <1>13. CASE p >= numPages /\ Panic("range")
    <2>1. c.k = numPages
      BY <1>2, <1>6, <1>7, <1>13
    <2>2. ASSUME NEW i \in 0 .. (numPages - 1) PROVE ~FreeRun(i, c.n, numPages, used)
      <3>1. CASE i < c.idx
        BY <1>2, <1>3, <3>1
      <3>2. CASE i = c.idx
        BY <1>9, <1>13, <3>2
      <3>3. CASE i > c.idx
        <4> HIDE DEF c
        <4>1. numPages \in i .. (i + Span(c.n) - 1)
          BY <1>2, <1>3, <1>5, <2>1, <3>3
        <4>2. ~(numPages < numPages)
          BY <1>2
        <4>. QED  BY <4>1, <4>2 DEF FreeRun
      <3>. QED  BY <1>2, <3>1, <3>2, <3>3
    <2>. QED  BY <1>1, <1>13, <2>2, PanicSerial
  <1>. QED  BY <1>4, <1>10, <1>11, <1>12, <1>13

\* A bit of the run is set; with the last one the pages are handed out.
LEMMA SetPageSerial ==
    ASSUME SerialInv, TypeInv', Machine, NEW t \in Threads, SetPage(t)
    PROVE  SerialInv'
  <1> DEFINE c == op[t]
             last == c.idx + Span(c.n) - 1
             page == IF c.n <= 1 THEN c.k ELSE c.k % WrapPages
             counted == [q \in DOMAIN grants |-> IF q \in Granted(c) THEN grants[q] + 1 ELSE grants[q]]
  <1>1. Running /\ c.pc = "set"
    BY DEF SetPage
  <1>2. /\ c \in Call /\ c.idx \in Nat /\ c.n \in Nat /\ c.k \in Nat /\ numPages \in Nat
        /\ numPages <= WrapPages /\ WrapPages \in Nat \ {0}
        /\ \A u \in Threads \ {t} : op[u].pc = "out"
        /\ CallOK(c, numPages) /\ SearchOK(c, numPages, used) /\ FoundOK(c)
        /\ Span(c.n) \in Nat /\ Span(c.n) >= 1
    BY <1>1, CallFacts
  <1>3. Granted(c) = c.idx .. last
    BY <1>2, GrantedFacts DEF Span
  <1>4. /\ \A p \in c.k .. last : p < numPages /\ p \notin used
        /\ \A p \in c.idx .. (c.k - 1) : p < numPages /\ p \in used
        /\ \A p \in c.idx .. last : p >= LowPages /\ FreePage(p)
        /\ \A p \in c.idx .. last : p <= PageLimit => grants[p] = 0
        /\ c.k \in c.idx .. last
    BY <1>1, <1>2, <1>3 DEF SearchOK, FoundOK, CallOK
  <1>5. page = c.k
    <2>1. c.k \in c.k .. last /\ last \in Int
      BY <1>2, <1>4
    <2>2. c.k < WrapPages
      BY <1>2, <1>4, <2>1
    <2>3. c.k % WrapPages = c.k
      BY <1>2, <2>2, SmallMod
    <2>. QED  BY <2>3
  <1>6. /\ used' = used \union {c.k}
        /\ \/ /\ c.k + 1 \in c.idx .. last
              /\ op' = [op EXCEPT ![t].k = c.k + 1] /\ grants' = grants
           \/ /\ c.k + 1 \notin c.idx .. last
              /\ op' = [op EXCEPT ![t] = NoCall] /\ grants' = counted
        /\ UNCHANGED <<phase, memmap, numPages, heapBase, panicked, heapPages>>
    <2>1. /\ used' = used \union {page}
          /\ \/ /\ c.k + 1 \in Granted(c)
                /\ op' = [op EXCEPT ![t].k = c.k + 1] /\ grants' = grants
             \/ /\ c.k + 1 \notin Granted(c)
                /\ op' = [op EXCEPT ![t] = NoCall] /\ grants' = counted
          /\ UNCHANGED <<phase, memmap, numPages, heapBase, panicked, heapPages>>
      BY DEF SetPage, bootVars
    <2> HIDE DEF c, last, page, counted
    <2>. QED  BY <1>3, <1>5, <2>1
  <1>7. BitmapOK' /\ HeapOK' /\ PanicOK'
    <2>1. BitmapOK'
      BY <1>6, MapFixed DEF SerialInv, BitmapOK
    <2>2. HeapOK' /\ PanicOK'
      BY <1>1, <1>6 DEF SerialInv, HeapOK, PanicOK, Running
    <2>. QED  BY <2>1, <2>2
  <1>8. \A p \in 0 .. PageLimit : grants[p] > 0 =>
            /\ grants[p] = 1 /\ phase' = "run"
            /\ p \in used' /\ p >= LowPages /\ FreePage(p)'
    BY <1>6, MapFixed DEF SerialInv, GrantsOK
  <1>9. CASE /\ c.k + 1 \in c.idx .. last
             /\ op' = [op EXCEPT ![t].k = c.k + 1] /\ grants' = grants
    <2> DEFINE d == [c EXCEPT !.k = c.k + 1]
    <2>1. op' = [op EXCEPT ![t] = d]
      BY <1>9
    <2>2. d \in Call /\ d.pc = "set" /\ d.idx = c.idx /\ d.k = c.k + 1 /\ d.n = c.n
      <3> HIDE DEF c
      <3>1. c.k + 1 \in Nat
        BY <1>2
      <3>. QED  BY <1>1, <1>2, <3>1, Zenon DEF Call
    <2> HIDE DEF d
    <2>3. \A u \in Threads : op'[u] = IF u = t THEN d ELSE op[u]
      BY <2>1 DEF SerialInv, TypeInv, TypeOK
    <2>4. OneCall'
      BY <1>2, <2>3 DEF OneCall
    <2>5. GrantsOK'
      BY <1>8, <1>9 DEF GrantsOK
    <2>6. SearchOK(d, numPages', used')
      <3> HIDE DEF c
      <3>1. d.k # d.idx
        BY <1>2, <1>4, <2>2
      <3>2. \A p \in d.k .. (d.idx + Span(d.n) - 1) : p < numPages' /\ p \notin used'
        BY <1>2, <1>4, <1>6, <2>2
      <3>3. \A p \in d.idx .. (d.k - 1) : p < numPages' /\ p \in used'
        <4>1. \A p \in c.idx .. c.k : p = c.k \/ p \in c.idx .. (c.k - 1)
          BY <1>2
        <4>2. d.k - 1 = c.k /\ d.idx = c.idx
          BY <1>2, <2>2
        <4>3. c.k < numPages
          BY <1>2, <1>4
        <4>. QED  BY <1>4, <1>6, <4>1, <4>2, <4>3
      <3>. QED  BY <2>2, <3>1, <3>2, <3>3 DEF SearchOK
    <2>7. ASSUME NEW p \in d.idx .. (d.idx + Span(d.n) - 1)
          PROVE  /\ p >= LowPages /\ FreePage(p)'
                 /\ p <= PageLimit => grants'[p] = 0
      BY <1>4, <1>6, <1>9, <2>2, MapFixed
    <2>8. SearchesOK'
      <3> SUFFICES ASSUME NEW u \in Threads
                   PROVE  SearchOK(op'[u], numPages', used') /\ FoundOK(op[u])'
        BY DEF SearchesOK
      <3>1. CASE u = t
        BY <2>3, <2>6, <2>7, <3>1 DEF FoundOK
      <3>2. CASE u # t
        BY <1>2, <2>3, <3>2 DEF SearchOK, FoundOK
      <3>. QED  BY <3>1, <3>2
    <2>. QED  BY <1>7, <2>4, <2>5, <2>8 DEF SerialInv
  <1>10. CASE /\ c.k + 1 \notin c.idx .. last
              /\ op' = [op EXCEPT ![t] = NoCall] /\ grants' = counted
    <2>1. \A u \in Threads : op'[u].pc = "out"
      <3>1. \A u \in Threads : op'[u] = IF u = t THEN NoCall ELSE op[u]
        BY <1>10 DEF SerialInv, TypeInv, TypeOK
      <3>. QED  BY <1>2, <3>1, NoCallFacts
    <2>2. OneCall' /\ SearchesOK'
      BY <2>1 DEF OneCall, SearchesOK, SearchOK, FoundOK
    <2>3. \A p \in c.idx .. last : p \in used'
      <3>1. last = c.k
        BY <1>2, <1>4, <1>10
      <3>2. \A p \in c.idx .. c.k : p = c.k \/ p \in c.idx .. (c.k - 1)
        BY <1>2
      <3>. QED  BY <1>4, <1>6, <3>1, <3>2
    <2>4. GrantsOK'
      <3> SUFFICES ASSUME NEW p \in 0 .. PageLimit, grants'[p] > 0
                   PROVE  /\ grants'[p] = 1 /\ phase' = "run"
                          /\ p \in used' /\ p >= LowPages /\ FreePage(p)'
        BY DEF GrantsOK
      <3>1. grants'[p] = IF p \in c.idx .. last THEN grants[p] + 1 ELSE grants[p]
        <4>1. DOMAIN grants = 0 .. PageLimit
          BY DEF SerialInv, TypeInv, TypeOK
        <4>. QED  BY <1>3, <1>10, <4>1
      <3>2. CASE p \in c.idx .. last
        <4>1. grants[p] = 0 /\ p >= LowPages /\ FreePage(p)
          BY <1>4, <3>2, SizesAssumption
        <4>2. grants'[p] = 1
          BY <3>1, <3>2, <4>1
        <4>3. phase' = "run"
          BY <1>1, <1>6 DEF Running
        <4>. QED  BY <1>6, <2>3, <3>2, <4>1, <4>2, <4>3, MapFixed
      <3>3. CASE p \notin c.idx .. last
        BY <1>8, <3>1, <3>3
      <3>. QED  BY <3>2, <3>3
    <2>. QED  BY <1>7, <2>2, <2>4 DEF SerialInv
  <1>. QED  BY <1>6, <1>9, <1>10

\* A holder gives its page back.
LEMMA FreeSerial ==
    ASSUME SerialInv, TypeInv', Machine, NEW p \in 0 .. PageLimit, Free(p)
    PROVE  SerialInv'
  <1>1. CASE /\ p < numPages /\ used' = used \ {p} /\ grants' = [grants EXCEPT ![p] = grants[p] - 1]
             /\ UNCHANGED <<phase, bootVars, heapBase, op, panicked, heapPages>>
    <2>1. \A u \in Threads : op'[u].pc = "out"
      BY <1>1, NoneBusy DEF SerialInv, TypeInv, Machine, Free
    <2>2. OneCall' /\ SearchesOK'
      BY <2>1 DEF OneCall, SearchesOK, SearchOK, FoundOK
    <2>3. HeapOK' /\ PanicOK'
      BY <1>1 DEF SerialInv, HeapOK, PanicOK, Free, Running
    <2>4. grants[p] = 1 /\ p >= LowPages /\ FreePage(p)
      BY DEF SerialInv, GrantsOK, Free
    <2>5. memmap' = memmap /\ numPages' = numPages /\ phase' = phase
      BY <1>1 DEF bootVars
    <2>6. BitmapOK'
      <3>1. phase = "run"
        BY DEF Free, Running
      <3>2. \A q \in 0 .. (numPages - 1) : q \notin used => q >= LowPages /\ FreePage(q)
        BY <3>1 DEF SerialInv, BitmapOK
      <3>3. \A q \in 0 .. (numPages - 1) : q \notin used' => q >= LowPages /\ FreePage(q)
        BY <1>1, <2>4, <3>2
      <3>4. numPages <= WrapPages
        BY DEF SerialInv, BitmapOK
      <3>. QED  BY <2>5, <3>1, <3>3, <3>4, MapFixed DEF BitmapOK
    <2>7. \A q \in 0 .. PageLimit : grants'[q] = IF q = p THEN 0 ELSE grants[q]
      BY <1>1, <2>4 DEF SerialInv, TypeInv, TypeOK
    <2>8. GrantsOK'
      BY <1>1, <2>5, <2>7, MapFixed DEF SerialInv, GrantsOK
    <2>. QED  BY <2>2, <2>3, <2>6, <2>8 DEF SerialInv
  <1>. QED  BY <1>1, PanicSerial DEF Free

\* The heap grows.
LEMMA KmallocSerial ==
    ASSUME SerialInv, TypeInv', Machine,
           NEW size \in HeapSizes, NEW align \in {MinAlign, PageBytes}, Kmalloc(size, align)
    PROVE  SerialInv'
  <1>1. CASE /\ HeapFits(size, align) /\ TakeBlock(size, align)
             /\ used \subseteq used'
             /\ UNCHANGED <<phase, bootVars, op, panicked, grants>>
    <2>1. \A u \in Threads : op'[u].pc = "out"
      BY <1>1, NoneBusy DEF SerialInv, TypeInv, Machine, Kmalloc
    <2>2. OneCall' /\ SearchesOK'
      BY <2>1 DEF OneCall, SearchesOK, SearchOK, FoundOK
    <2>3. HeapOK'
      BY <1>1, HeapStaysLow, SizesAssumption DEF SerialInv, TypeInv
    <2>4. PanicOK'
      BY <1>1 DEF PanicOK, Kmalloc, Running
    <2>5. memmap' = memmap /\ numPages' = numPages /\ phase' = phase /\ grants' = grants
      BY <1>1 DEF bootVars
    <2>6. BitmapOK'
      <3>1. phase = "run"
        BY DEF Kmalloc, Running
      <3>. QED  BY <1>1, <2>5, <3>1, MapFixed DEF SerialInv, BitmapOK
    <2>7. GrantsOK'
      BY <1>1, <2>5, MapFixed DEF SerialInv, GrantsOK
    <2>. QED  BY <2>2, <2>3, <2>4, <2>6, <2>7 DEF SerialInv
  <1>. QED  BY <1>1, PanicSerial DEF Kmalloc

\* The initial state satisfies the invariant.
LEMMA InitSerial == Init => SerialInv
  <1> SUFFICES ASSUME Init PROVE SerialInv
    OBVIOUS
  <1>1. TypeInv
    BY InitTypes
  <1>2. \A t \in Threads : op[t].pc = "out"
    BY NoCallFacts DEF Init
  <1>3. OneCall /\ SearchesOK
    BY <1>2 DEF OneCall, SearchesOK, SearchOK, FoundOK
  <1>4. BitmapOK /\ HeapOK /\ GrantsOK /\ PanicOK
    BY SizesAssumption DEF Init, BitmapOK, HeapOK, GrantsOK, PanicOK
  <1>. QED  BY <1>1, <1>3, <1>4 DEF SerialInv

\* Every step keeps it.
LEMMA NextSerial == Machine /\ SerialInv /\ [Next]_vars => SerialInv'
  <1> SUFFICES ASSUME Machine, SerialInv, [Next]_vars PROVE SerialInv'
    OBVIOUS
  <1>0. TypeInv'
    BY NextTypes DEF SerialInv
  <1>1. CASE Boot
    BY <1>0, <1>1, BootSerial
  <1>2. ASSUME NEW t \in Threads, NEW n \in Requests, Allocate(t, n) PROVE SerialInv'
    BY <1>0, <1>2, AllocateSerial
  <1>3. ASSUME NEW t \in Threads, Scan(t) \/ CheckNext(t) \/ SetPage(t) PROVE SerialInv'
    BY <1>0, <1>3, ScanSerial, CheckNextSerial, SetPageSerial
  <1>4. ASSUME NEW p \in 0 .. PageLimit, Free(p) PROVE SerialInv'
    BY <1>0, <1>4, FreeSerial
  <1>5. ASSUME NEW size \in HeapSizes, NEW align \in {MinAlign, PageBytes}, Kmalloc(size, align)
        PROVE  SerialInv'
    BY <1>0, <1>5, KmallocSerial
  <1>6. CASE UNCHANGED vars
    <2>1. memmap' = memmap
      BY <1>6 DEF vars
    <2>2. BitmapOK' /\ GrantsOK' /\ SearchesOK'
      BY <1>6, <2>1, MapFixed DEF vars, SerialInv, BitmapOK, GrantsOK, SearchesOK, FoundOK
    <2>. QED  BY <1>0, <1>6, <2>2 DEF vars, SerialInv, OneCall, HeapOK, PanicOK
  <1>. QED  BY <1>1, <1>2, <1>3, <1>4, <1>5, <1>6 DEF Next

\* So it holds on every such machine.
LEMMA SerialInvariance == ASSUME Machine PROVE Spec => []SerialInv
  <1>1. SerialInv /\ [Next]_vars => SerialInv'
    BY NextSerial
  <1>. QED  BY <1>1, InitSerial, PTL DEF Spec

\* When calls do not overlap and memory ends where an unsigned int can still
\* address it, pmm::allocate never hands a page to two callers, and the bit of a
\* page that is in a caller's hands stays set.
THEOREM Exclusive == ASSUME Machine PROVE Spec => []GrantsExclusive
  <1>1. SerialInv => GrantsExclusive
    BY DEF SerialInv, GrantsOK, GrantsExclusive
  <1>. QED  BY <1>1, SerialInvariance, PTL

\* What boot and the allocator make of any memory map whose free regions are
\* whole pages: only free memory is handed out, never the first 4MB or the heap.
THEOREM MemoryIsFree == ASSUME Machine PROVE Spec => []OnlyFreeMemory
  <1>1. SerialInv => OnlyFreeMemory
    <2> SUFFICES ASSUME SerialInv, NEW p \in 0 .. PageLimit, grants[p] > 0
                 PROVE  p >= LowPages /\ p \notin heapPages /\ FreePage(p)
      BY DEF OnlyFreeMemory, FreePage
    <2>1. p >= LowPages /\ FreePage(p)
      BY DEF SerialInv, GrantsOK
    <2>2. p \notin heapPages
      BY <2>1, SizesAssumption DEF SerialInv, HeapOK
    <2>. QED  BY <2>1, <2>2
  <1>. QED  BY <1>1, SerialInvariance, PTL

\* The search of pmm::allocate is first fit, and the kernel panics only when no
\* run of free pages is long enough.
THEOREM SearchIsFirstFit == ASSUME Machine PROVE Spec => []FirstFit
  <1>1. SerialInv => FirstFit
    <2> SUFFICES ASSUME SerialInv PROVE FirstFit
      OBVIOUS
    <2>1. \A i : \A n \in Nat : Fits(i, n) <=> FreeRun(i, n, numPages, used)
      BY AtLeastOne DEF Fits, FreeRun, Span
    <2>2. \A t \in Threads : op[t] \in Call /\ op[t].n \in Nat
      BY GrantedFacts DEF SerialInv, TypeInv, TypeOK, Call
    <2>3. ASSUME NEW t \in Threads, op[t].pc = "set", op[t].k = op[t].idx
          PROVE  /\ Fits(op[t].idx, op[t].n)
                 /\ \A i \in 0 .. (op[t].idx - 1) : ~Fits(i, op[t].n)
      <3>1. SearchOK(op[t], numPages, used)
        BY DEF SerialInv, SearchesOK
      <3>2. \A i \in 0 .. (op[t].idx - 1) : ~FreeRun(i, op[t].n, numPages, used)
        BY <2>3, <3>1 DEF SearchOK
      <3>3. FreeRun(op[t].idx, op[t].n, numPages, used)
        BY <2>3, <3>1 DEF SearchOK, FreeRun
      <3>. QED  BY <2>1, <2>2, <3>2, <3>3
    <2>4. ASSUME panicked \in {"oom", "range"}
          PROVE  \E t \in Busy : \A i \in 0 .. (numPages - 1) : ~Fits(i, op[t].n)
      <3>1. PICK t \in Threads :
                /\ op[t].pc # "out"
                /\ \A i \in 0 .. (numPages - 1) : ~FreeRun(i, op[t].n, numPages, used)
        BY <2>4 DEF SerialInv, PanicOK
      <3>2. t \in Busy
        BY <3>1 DEF Busy
      <3>. QED  BY <2>1, <2>2, <3>1, <3>2
    <2>. QED  BY <2>3, <2>4 DEF FirstFit
  <1>. QED  BY <1>1, SerialInvariance, PTL
=============================================================================
