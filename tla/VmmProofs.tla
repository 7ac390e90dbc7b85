----------------------------- MODULE VmmProofs -----------------------------
(***************************************************************************)
(* What holds of the page tables for every number of levels and entries,   *)
(* every size of a page, every set of requests and every sequence of them. *)
(*                                                                         *)
(* However threads interleave, every table is used at one level, and a     *)
(* cached translation is current when no call is in progress.  When one    *)
(* thread at a time maps and unmaps, the tables form a tree in which the   *)
(* digits of an address lead to its entry; they implement a flat address   *)
(* space; and what is mapped is what the memmaps asked for.                *)
(***************************************************************************)
EXTENDS Vmm, FiniteSetTheorems, WellFoundedInduction, TLAPS

\* A set of numbers that is not empty has a least element.
LEMMA LeastExists ==
    ASSUME NEW S \in SUBSET Nat, S # {}
    PROVE  \E x \in S : \A y \in S : x <= y
  <1> DEFINE R == OpToRel(<, Nat)
  <1>1. PICK x \in S : \A y \in S : ~ (<<y, x>> \in R)
    <2> HIDE DEF R
    <2>1. IsWellFoundedOn(R, Nat)
      BY NatLessThanWellFounded DEF R
    <2>2. S \subseteq Nat
      OBVIOUS
    <2> QED BY <2>1, <2>2, WFMin
  <1>2. \A y \in S : <<y, x>> \in R <=> y < x
    BY DEF OpToRel
  <1> HIDE DEF R
  <1>3. \A y \in S : x <= y
    <2>1. \A y \in S : ~(y < x) /\ y \in Nat /\ x \in Nat
      BY <1>1, <1>2
    <2> QED BY <2>1
  <1> QED BY <1>3

\* Radix to the power of k is defined by its recursion: it holds up to each number,
\* for the least at which it failed would not be 0 and would have a predecessor.
LEMMA PowerExists == \E f : f = [k \in 0 .. Levels |-> IF k = 0 THEN 1 ELSE Radix * f[k - 1]]
  <1> DEFINE Upto(n, f) == f = [k \in 0 .. n |-> IF k = 0 THEN 1 ELSE Radix * f[k - 1]]
             Bad == {n \in Nat : ~ \E f : Upto(n, f)}
  <1>0. Levels \in Nat
    BY VmmAssumption
  <1>1. Bad = {}
    <2>1. SUFFICES ASSUME Bad # {} PROVE FALSE
      OBVIOUS
    <2>2. PICK n \in Bad : \A m \in Bad : n <= m
      BY <2>1, LeastExists
    <2>3. n # 0
      <3>1. Upto(0, [k \in {0} |-> 1])
        OBVIOUS
      <3> QED BY <3>1
    <2>4. PICK f : Upto(n - 1, f)
      <3>1. n \in Nat /\ n - 1 \in Nat /\ ~(n <= n - 1)
        BY <2>2, <2>3
      <3>2. n - 1 \notin Bad
        BY <3>1, <2>2
      <3> QED BY <3>1, <3>2
    <2> DEFINE g == [k \in 0 .. n |-> IF k = 0 THEN 1 ELSE Radix * f[k - 1]]
    <2>5. \A k \in 0 .. (n - 1) : g[k] = f[k]
      BY <2>4
    <2>6. \A k \in 0 .. n : k # 0 => g[k - 1] = f[k - 1]
      <3>1. \A k \in 0 .. n : k # 0 => k - 1 \in 0 .. (n - 1)
        OBVIOUS
      <3> HIDE DEF g
      <3> QED BY <2>5, <3>1
    <2>7. Upto(n, g)
      BY <2>6
    <2> QED BY <2>7
  <1> QED BY <1>0, <1>1

\* Power is the function that its recursion defines.
LEMMA PowerDef ==
    /\ DOMAIN Power = 0 .. Levels
    /\ Power[0] = 1
    /\ \A k \in 1 .. Levels : Power[k] = Radix * Power[k - 1]
  <1>1. Power = [k \in 0 .. Levels |-> IF k = 0 THEN 1 ELSE Radix * Power[k - 1]]
    BY PowerExists DEF Power
  <1> QED BY <1>1, VmmAssumption

\* Powers are positive.
LEMMA PowerType == \A k \in 0 .. Levels : Power[k] \in Nat \ {0}
  <1> DEFINE Bad == {k \in 0 .. Levels : Power[k] \notin Nat \ {0}}
  <1>1. SUFFICES ASSUME Bad # {} PROVE FALSE
    OBVIOUS
  <1>2. PICK k \in Bad : \A m \in Bad : k <= m
    <2>1. Bad \in SUBSET Nat
      BY VmmAssumption
    <2> HIDE DEF Bad
    <2> QED BY <1>1, <2>1, LeastExists
  <1>3. k # 0 
    BY PowerDef
  <1>4. Power[k - 1] \in Nat \ {0} /\ Power[k] = Radix * Power[k - 1]
    BY <1>2, <1>3, PowerDef, VmmAssumption
  <1> DEFINE p == Power[k - 1]
  <1>5. p \in Nat \ {0} => Radix * p \in Nat \ {0}
    <2> HIDE DEF p
    <2> QED BY VmmAssumption
  <1> QED BY <1>2, <1>4, <1>5

-----------------------------------------------------------------------------
(* Addresses and their digits *)

\* The page that begins the range of a table of level l on the walk for page a, counted
\* in such ranges: the digits of a above its l lowest.
Prefix(a, l) == a \div Power[l]

\* A quotient is the number whose multiples enclose the dividend.
LEMMA DivUnique ==
    ASSUME NEW a \in Nat, NEW b \in Nat \ {0}, NEW q \in Nat, q * b <= a, a < (q + 1) * b
    PROVE  a \div b = q
  OBVIOUS

\* What division and remainder of numbers are.
LEMMA DivMod ==
    ASSUME NEW a \in Nat, NEW b \in Nat \ {0}
    PROVE  /\ a \div b \in Nat /\ a % b \in 0 .. (b - 1)
           /\ a = (a \div b) * b + (a % b)
  OBVIOUS

\* Dividing twice is dividing by the product.
LEMMA DivDiv ==
    ASSUME NEW a \in Nat, NEW b \in Nat \ {0}, NEW c \in Nat \ {0}
    PROVE  a \div (c * b) = (a \div b) \div c
  <1> DEFINE p == a \div b
             q == p \div c
             x == a % b
             y == p % c
  <1>1. p \in Nat /\ x \in 0 .. (b - 1) /\ a = p * b + x
    BY DivMod
  <1>2. q \in Nat /\ y \in 0 .. (c - 1) /\ p = q * c + y
    BY <1>1, DivMod
  <1>3. c * b \in Nat \ {0}
    OBVIOUS
  <1> HIDE DEF p, q, x, y
  <1>4. (y * b) + x < c * b /\ (y * b) + x >= 0
    <2>1. (y + 1) * b <= c * b
      BY <1>2
    <2>2. (y + 1) * b = (y * b) + b
      BY <1>2
    <2> QED BY <2>1, <2>2, <1>1, <1>2
  <1>5. a = (q * (c * b)) + ((y * b) + x)
    <2>1. p * b = (q * c) * b + y * b
      BY <1>2
    <2>2. (q * c) * b = q * (c * b)
      BY <1>2
    <2> QED BY <2>1, <2>2, <1>1, <1>2
  <1>6. q * (c * b) <= a /\ a < (q + 1) * (c * b)
    <2>1. (q + 1) * (c * b) = q * (c * b) + c * b
      BY <1>2
    <2> DEFINE A == q * (c * b)
               B == c * b
               r == (y * b) + x
    <2>2. A \in Nat /\ B \in Nat /\ r \in Int
      BY <1>1, <1>2
    <2>3. a = A + r /\ r >= 0 /\ r < B
      BY <1>4, <1>5
    <2> HIDE DEF A, B, r
    <2>4. A <= a /\ a < A + B
      BY <2>2, <2>3
    <2> QED BY <2>1, <2>4 DEF A, B
  <1>7. a \div (c * b) = q
    BY <1>2, <1>3, <1>6, DivUnique
  <1> QED BY <1>7 DEF q, p

\* The number that digit i extends prefix p to.
LEMMA DigitFacts ==
    ASSUME NEW p \in Nat, NEW i \in 0 .. (Radix - 1)
    PROVE  (p * Radix + i) \div Radix = p /\ (p * Radix + i) % Radix = i
  <1>1. Radix \in Nat \ {0}
    BY VmmAssumption
  <1>2. (p * Radix + i) \in Nat /\ (p + 1) * Radix = p * Radix + Radix
    BY <1>1
  <1> DEFINE a == p * Radix + i
  <1>3. a \div Radix = p
    BY <1>1, <1>2, DivUnique
  <1>4. a = (a \div Radix) * Radix + (a % Radix) /\ a % Radix \in 0 .. (Radix - 1)
    BY <1>1, <1>2, DivMod
  <1> QED BY <1>1, <1>3, <1>4

\* The walk for page a goes down by its digits: its prefix of all levels is 0, each
\* prefix is the one above extended by the index, and the last is the page itself.
LEMMA PrefixFacts ==
    ASSUME NEW a \in Nat
    PROVE  /\ \A l \in 0 .. Levels : Prefix(a, l) \in Nat
           /\ \A l \in 1 .. Levels :
                 /\ Index(a, l) \in 0 .. (Radix - 1)
                 /\ Prefix(a, l - 1) = Prefix(a, l) * Radix + Index(a, l)
           /\ Prefix(a, 0) = a /\ Index(a, 1) = a % Radix
           /\ Prefix(a, 1) = a \div Radix
           /\ a \in Pages => Prefix(a, Levels) = 0
  <1>0. Levels \in Nat /\ Radix \in Nat \ {0} /\ Levels >= 2
    BY VmmAssumption
  <1>1. \A l \in 0 .. Levels : Power[l] \in Nat \ {0}
    BY PowerType
  <1>2. \A l \in 0 .. Levels : Prefix(a, l) \in Nat
    <2>1. \A b \in Nat \ {0} : a \div b \in Nat
      OBVIOUS
    <2> QED BY <1>1, <2>1 DEF Prefix
  <1>3. ASSUME NEW l \in 1 .. Levels
        PROVE  /\ Index(a, l) \in 0 .. (Radix - 1)
               /\ Prefix(a, l - 1) = Prefix(a, l) * Radix + Index(a, l)
    <2>1. l - 1 \in 0 .. Levels /\ Power[l] = Radix * Power[l - 1]
      BY <1>0, PowerDef
    <2> DEFINE b == Power[l - 1]
               p == a \div b
    <2>2. b \in Nat \ {0} /\ p \in Nat
      BY <1>1, <1>2, <2>1 DEF Prefix
    <2>3. Prefix(a, l) = p \div Radix
      <3>1. a \div (Radix * b) = (a \div b) \div Radix
        BY <1>0, <2>2, DivDiv
      <3> QED BY <2>1, <3>1 DEF Prefix
    <2>4. p = (p \div Radix) * Radix + (p % Radix) /\ p % Radix \in 0 .. (Radix - 1)
      BY <1>0, <2>2, DivMod
    <2> QED BY <2>3, <2>4 DEF Prefix, Index
  <1>4. Prefix(a, 0) = a /\ Index(a, 1) = a % Radix
    <2>1. Power[0] = 1
      BY PowerDef
    <2>2. a \div 1 = a
      OBVIOUS
    <2> QED BY <2>1, <2>2 DEF Prefix, Index
  <1>5. Prefix(a, 1) = a \div Radix
    <2>1. Power[1] = Radix * 1
      <3>1. 1 \in 1 .. Levels
        BY <1>0
      <3>2. Power[1] = Radix * Power[1 - 1]
        BY <3>1, PowerDef
      <3> QED BY <3>2, PowerDef
    <2>2. Power[1] = Radix
      BY <2>1, <1>0
    <2> QED BY <2>2 DEF Prefix
  <1>6. a \in Pages => Prefix(a, Levels) = 0
    <2>1. ASSUME NEW b \in Nat \ {0}, a < b PROVE a \div b = 0
      BY <2>1, DivUnique
    <2>2. Power[Levels] \in Nat \ {0}
      BY <1>0, <1>1
    <2> QED BY <2>1, <2>2 DEF Prefix, Pages, SpacePages
  <1> QED BY <1>2, <1>3, <1>4, <1>5, <1>6

-----------------------------------------------------------------------------
(* Types, for any number of threads *)

\* What an entry of a table may be.
Entries == [at: Pages, flags: SUBSET Flags]

\* What op holds for a thread.
Call == [pc: {"out", "walk", "link", "entry", "store", "flush"}, fn: {"map", "unmap"},
         first: Pages, phys: Pages, len: Nat, perm: SUBSET Flags, backed: BOOLEAN,
         addr: Pages, p_addr: Pages, limit: Nat, level: 0 .. Levels, table: Nat, new: Nat]

\* What a memmap may be.
Memmaps == [addr: Pages, phys: Pages, len: Nat, perm: SUBSET Flags, backed: BOOLEAN]

\* Tables are numbered from 0, and no more of them than the heap has room for.
TablesOK ==
    \E n \in 1 .. MaxTables : tables \in [0 .. (n - 1) -> [0 .. (Radix - 1) -> Entries]]

\* The types, which LevelInv makes inductive.
TypeInv ==
    /\ TablesOK
    /\ used \subseteq 0 .. (NumFrames - 1)
    /\ op \in [Threads -> Call]
    /\ maps \subseteq Memmaps
    /\ panicked \in {"no", "unimplemented", "oom", "assert", "remap", "heap"}

\* The tables that call c refers to exist and have the levels at which c uses them.
CallLevels(c, L) ==
    /\ c.table \in DOMAIN L /\ c.new \in DOMAIN L
    /\ c.pc \in {"walk", "link"} => c.level \in 2 .. Levels /\ L[c.table] = c.level
    /\ c.pc = "link" => L[c.new] = c.level - 1
    /\ c.pc \in {"entry", "store"} => L[c.table] = 1

\* Each table has one level, one less than that of the tables whose entries name it.
Leveled(L) ==
    /\ L \in [DOMAIN tables -> 1 .. Levels]
    /\ L[Root] = Levels
    /\ \A n \in DOMAIN tables, i \in 0 .. (Radix - 1) :
          L[n] > 1 /\ tables[n][i] # Zero =>
              tables[n][i].at \in DOMAIN tables /\ L[tables[n][i].at] = L[n] - 1
    /\ \A t \in Threads : CallLevels(op[t], L)

\* The levels can be assigned: no table is used at two of them.
LevelInv == \E L : Leveled(L)

\* Numbers that the proofs use.
LEMMA SpaceFacts ==
    /\ SpacePages \in Nat \ {0} /\ Levels \in Nat /\ Levels >= 2
    /\ Radix \in Nat /\ Radix >= 2 /\ 0 \in Pages /\ Pages \subseteq Nat
    /\ \A p \in Int : p % SpacePages \in Pages
    /\ \A f \in 0 .. (NumFrames - 1) : f \in Pages
    /\ \A n \in 0 .. (MaxTables - 1) : n \in Pages
    /\ Zero \in Entries
  <1>1. SpacePages \in Nat \ {0}
    BY PowerType, VmmAssumption DEF SpacePages
  <1>2. Levels \in Nat /\ Levels >= 2 /\ Radix \in Nat /\ Radix >= 2 /\ 0 \in Pages /\ Pages \subseteq Nat
    BY <1>1, VmmAssumption DEF Pages
  <1>3. \A p \in Int : p % SpacePages \in Pages
    BY <1>1 DEF Pages
  <1>4. /\ \A f \in 0 .. (NumFrames - 1) : f \in Pages
        /\ \A n \in 0 .. (MaxTables - 1) : n \in Pages
    BY <1>1, VmmAssumption, SpaceAssumption DEF Pages
  <1>5. Zero \in Entries
    BY <1>2 DEF Zero, Entry, Entries
  <1> QED BY <1>1, <1>2, <1>3, <1>4, <1>5

\* The number of tables is the next table's number.
LEMMA TableCount ==
    ASSUME TablesOK
    PROVE  \E n \in 1 .. MaxTables :
              /\ Cardinality(DOMAIN tables) = n
              /\ DOMAIN tables = 0 .. (n - 1)
              /\ tables \in [0 .. (n - 1) -> [0 .. (Radix - 1) -> Entries]]
  <1>1. PICK n \in 1 .. MaxTables : tables \in [0 .. (n - 1) -> [0 .. (Radix - 1) -> Entries]]
    BY DEF TablesOK
  <1>2. n \in Int /\ n >= 1 /\ MaxTables \in Nat
    BY VmmAssumption
  <1>3. Cardinality(0 .. (n - 1)) = IF 0 > n - 1 THEN 0 ELSE ((n - 1) - 0) + 1
    BY <1>2, FS_Interval
  <1>4. Cardinality(0 .. (n - 1)) = n
    BY <1>2, <1>3
  <1>5. DOMAIN tables = 0 .. (n - 1)
    BY <1>1
  <1> QED BY <1>1, <1>4, <1>5

\* What the loop around find_page_entry makes of a call.
LEMMA LoopCall ==
    ASSUME NEW c \in Call
    PROVE  /\ Loop(c) \in Call
           /\ \A L : /\ Root \in DOMAIN L /\ L[Root] = Levels
                     /\ c.table \in DOMAIN L /\ c.new \in DOMAIN L
                     => CallLevels(Loop(c), L)
  <1>1. Levels \in 0 .. Levels /\ Levels \in 2 .. Levels /\ Root \in Nat
    BY SpaceFacts DEF Root
  <1>2. CASE c.addr * PageBytes < c.limit
    <2>1. Loop(c) = [c EXCEPT !.pc = "walk", !.level = Levels, !.table = Root]
      BY <1>2 DEF Loop
    <2>2. /\ Loop(c).pc = "walk" /\ Loop(c).level = Levels /\ Loop(c).table = Root
          /\ Loop(c).new = c.new
      BY <2>1 DEF Call
    <2>3. Loop(c) \in Call
      BY <2>1, <1>1, Zenon DEF Call
    <2> QED BY <2>2, <2>3, <1>1 DEF CallLevels
  <1>3. CASE ~(c.addr * PageBytes < c.limit)
    <2>1. Loop(c) = [c EXCEPT !.pc = "flush"]
      BY <1>3 DEF Loop
    <2>2. Loop(c).pc = "flush" /\ Loop(c).table = c.table /\ Loop(c).new = c.new
      BY <2>1 DEF Call
    <2>3. Loop(c) \in Call
      BY <2>1, Zenon DEF Call
    <2> QED BY <2>2, <2>3 DEF CallLevels
  <1> QED BY <1>2, <1>3

\* The call that Start hands to the loop.
Begun(fn, first, phys, len, perm, backed) ==
    [pc |-> "out", fn |-> fn, first |-> first, phys |-> phys, len |-> len, perm |-> perm,
     backed |-> backed, addr |-> first, p_addr |-> phys,
     limit |-> (first * PageBytes + len) % (SpacePages * PageBytes), level |-> 0,
     table |-> Root, new |-> Root]

\* What Start does.
LEMMA StartForm ==
    ASSUME NEW fn \in {"map", "unmap"}, NEW first \in Pages, NEW phys \in Pages, NEW len \in Nat,
           NEW perm \in SUBSET Flags, NEW backed \in BOOLEAN
    PROVE  /\ Begun(fn, first, phys, len, perm, backed) \in Call
           /\ Start(fn, first, phys, len, perm, backed) =
                 Loop(Begun(fn, first, phys, len, perm, backed))
  <1> DEFINE lim == (first * PageBytes + len) % (SpacePages * PageBytes)
  <1>1. lim \in Nat
    <2>1. first \in Nat /\ PageBytes \in Nat \ {0} /\ SpacePages \in Nat \ {0}
      BY SpaceFacts, VmmAssumption
    <2>2. first * PageBytes + len \in Nat /\ SpacePages * PageBytes \in Nat \ {0}
      BY <2>1
    <2> QED BY <2>2, DivMod
  <1> HIDE DEF lim
  <1>2. Begun(fn, first, phys, len, perm, backed) \in Call
    <2>1. 0 \in Pages /\ 0 \in 0 .. Levels
      BY SpaceFacts
    <2> QED BY <1>1, <2>1 DEF Call, Begun, lim, Root
  <1> DEFINE b == Begun(fn, first, phys, len, perm, backed)
             d == [NoCall EXCEPT !.fn = fn, !.first = first, !.phys = phys, !.len = len,
                        !.perm = perm, !.backed = backed, !.addr = first, !.p_addr = phys,
                        !.limit = lim]
  <1>3. d \in Call
    <2>1. 0 \in Pages /\ 0 \in 0 .. Levels
      BY SpaceFacts
    <2> QED BY <1>1, <2>1 DEF Call, NoCall
  <1>4. /\ d.pc = "out" /\ d.fn = fn /\ d.first = first /\ d.phys = phys /\ d.len = len
        /\ d.perm = perm /\ d.backed = backed /\ d.addr = first /\ d.p_addr = phys
        /\ d.limit = lim /\ d.level = 0 /\ d.table = Root /\ d.new = Root
    BY DEF NoCall, Root
  <1>5. /\ b.pc = "out" /\ b.fn = fn /\ b.first = first /\ b.phys = phys /\ b.len = len
        /\ b.perm = perm /\ b.backed = backed /\ b.addr = first /\ b.p_addr = phys
        /\ b.limit = lim /\ b.level = 0 /\ b.table = Root /\ b.new = Root
    BY DEF Begun, lim
  <1>6. Start(fn, first, phys, len, perm, backed) = Loop(d)
    BY DEF Start, lim
  <1> HIDE DEF b, d
  <1>7. b = d
    BY <1>2, <1>3, <1>4, <1>5 DEF Call, b
  <1> QED BY <1>2, <1>6, <1>7 DEF b

\* A call begins with arguments of the right types.
LEMMA StartCall ==
    ASSUME NEW fn \in {"map", "unmap"}, NEW first \in Pages, NEW phys \in Pages, NEW len \in Nat,
           NEW perm \in SUBSET Flags, NEW backed \in BOOLEAN
    PROVE  /\ Start(fn, first, phys, len, perm, backed) \in Call
           /\ \A L : Root \in DOMAIN L /\ L[Root] = Levels
                     => CallLevels(Start(fn, first, phys, len, perm, backed), L)
  <1> DEFINE d == Begun(fn, first, phys, len, perm, backed)
  <1>1. d \in Call /\ Start(fn, first, phys, len, perm, backed) = Loop(d)
    BY StartForm
  <1>2. d.table = Root /\ d.new = Root
    BY DEF Begun
  <1> HIDE DEF d
  <1> QED BY <1>1, <1>2, LoopCall

\* The walk goes to a table one level down.
LEMMA DownCall ==
    ASSUME NEW c \in Call, c.level \in 2 .. Levels, NEW n \in Nat
    PROVE  /\ Down(c, n) \in Call
           /\ Down(c, n).level = c.level - 1 /\ Down(c, n).table = n /\ Down(c, n).new = c.new
           /\ Down(c, n).pc = IF c.level = 2 THEN "entry" ELSE "walk"
           /\ Down(c, n).fn = c.fn /\ Down(c, n).addr = c.addr
           /\ \A L : n \in DOMAIN L /\ c.new \in DOMAIN L /\ L[n] = c.level - 1
                     => CallLevels(Down(c, n), L)
  <1> DEFINE d == Down(c, n)
             q == IF c.level = 2 THEN "entry" ELSE "walk"
             l == c.level - 1
  <1>1. /\ l \in 0 .. Levels /\ q \in {"entry", "walk"} /\ (q = "entry" => l = 1)
        /\ (q = "walk" => l \in 2 .. Levels)
    BY SpaceFacts
  <1>2. d = [c EXCEPT !.table = n, !.level = l, !.pc = q]
    BY DEF Down
  <1> HIDE DEF d, l, q
  <1>3. /\ d.pc = q /\ d.level = l /\ d.table = n /\ d.new = c.new
        /\ d.fn = c.fn /\ d.addr = c.addr
    BY <1>2 DEF Call
  <1>4. d \in Call
    BY <1>1, <1>2, Zenon DEF Call
  <1>5. \A L : n \in DOMAIN L /\ c.new \in DOMAIN L /\ L[n] = l => CallLevels(d, L)
    BY <1>1, <1>3 DEF CallLevels
  <1> QED BY <1>3, <1>4, <1>5 DEF d, l, q

\* A step that leaves the tables alone and gives a thread a well-formed call.
LEMMA LocalLevels ==
    ASSUME TypeInv, NEW L, Leveled(L), NEW t \in Threads, NEW d \in Call, CallLevels(d, L),
           op' = [op EXCEPT ![t] = d], tables' = tables
    PROVE  op' \in [Threads -> Call] /\ Leveled(L)' /\ TablesOK'
  <1>1. op' \in [Threads -> Call]
    BY DEF TypeInv
  <1>2. \A s \in Threads : CallLevels(op'[s], L)
    BY DEF TypeInv, Leveled
  <1>3. TablesOK'
    BY DEF TypeInv, TablesOK
  <1> QED BY <1>1, <1>2, <1>3 DEF Leveled

\* A panic keeps everything but panicked.
LEMMA PanicLevels ==
    ASSUME TypeInv, NEW L, Leveled(L), NEW why \in {"unimplemented", "oom", "assert", "remap", "heap"},
           Panic(why)
    PROVE  TypeInv' /\ Leveled(L)'
  BY DEF Panic, TypeInv, TablesOK, Leveled

\* The root alone, at the top level.
LEMMA InitLevels ==
    ASSUME Init
    PROVE  TypeInv /\ LevelInv
  <1>1. tables \in [0 .. (1 - 1) -> [0 .. (Radix - 1) -> Entries]]
    BY SpaceFacts DEF Init, Root
  <1>2. TablesOK
    <2>1. 1 \in 1 .. MaxTables
      BY VmmAssumption
    <2> QED BY <1>1, <2>1 DEF TablesOK
  <1>3. NoCall \in Call
    <2>1. 0 \in Pages /\ 0 \in 0 .. Levels
      BY SpaceFacts
    <2> QED BY <2>1 DEF Call, NoCall
  <1>4. TypeInv
    BY <1>2, <1>3, VmmAssumption DEF Init, TypeInv
  <1> DEFINE L == [n \in {Root} |-> Levels]
  <1>5. Leveled(L)
    <2>1. L \in [DOMAIN tables -> 1 .. Levels] /\ L[Root] = Levels
      BY SpaceFacts DEF Init
    <2>2. \A n \in DOMAIN tables, i \in 0 .. (Radix - 1) : tables[n][i] = Zero
      BY DEF Init
    <2>3. \A t \in Threads : CallLevels(op[t], L)
      BY DEF Init, NoCall, CallLevels, Root
    <2> QED BY <2>1, <2>2, <2>3 DEF Leveled
  <1> QED BY <1>4, <1>5 DEF LevelInv

\* allocate(n) sets at least one bit.
LEMMA AtLeastOne ==
    ASSUME NEW n \in Nat
    PROVE  Max({n, 1}) = IF n >= 1 THEN n ELSE 1
  <1>1. \E x \in {n, 1} : \A y \in {n, 1} : x >= y
    OBVIOUS
  <1>2. Max({n, 1}) \in {n, 1} /\ \A y \in {n, 1} : Max({n, 1}) >= y
    BY <1>1 DEF Max
  <1>3. Max({n, 1}) = n \/ Max({n, 1}) = 1
    BY <1>2
  <1> QED BY <1>2, <1>3

\* The frames that allocate(n) gives: memory, and not in use.
LEMMA FitsFacts ==
    ASSUME NEW n \in Nat, Fits(n) # {}
    PROVE  /\ Min(Fits(n)) \in 0 .. (NumFrames - 1)
           /\ Max({n, 1}) \in Nat /\ Max({n, 1}) >= 1 /\ Max({n, 1}) >= n
           /\ \A g \in Min(Fits(n)) .. (Min(Fits(n)) + Max({n, 1}) - 1) :
                  g \in 0 .. (NumFrames - 1) /\ g \notin used
  <1> DEFINE f == Min(Fits(n))
             k == Max({n, 1})
  <1>1. k \in Nat /\ k >= 1 /\ k >= n
    BY AtLeastOne
  <1>2. Fits(n) \in SUBSET Nat
    BY VmmAssumption DEF Fits
  <1>3. f \in Fits(n)
    <2>1. \E x \in Fits(n) : \A y \in Fits(n) : x <= y
      BY <1>2, LeastExists
    <2> QED BY <2>1 DEF Min
  <1>4. f \in 0 .. (NumFrames - 1) /\ \A g \in f .. (f + k - 1) : g < NumFrames /\ g \notin used
    BY <1>3 DEF Fits
  <1> HIDE DEF f, k
  <1>5. \A g \in f .. (f + k - 1) : g \in 0 .. (NumFrames - 1)
    BY <1>1, <1>4, VmmAssumption
  <1> QED BY <1>1, <1>4, <1>5 DEF f, k

\* A call of map or unmap begins.
LEMMA BeginLevels ==
    ASSUME TypeInv, NEW L, Leveled(L), NEW t \in Threads,
           NEW fn \in {"map", "unmap"}, NEW first \in Pages, NEW phys \in Pages, NEW len \in Nat,
           NEW perm \in SUBSET Flags, NEW backed \in BOOLEAN,
           op' = [op EXCEPT ![t] = Start(fn, first, phys, len, perm, backed)],
           tables' = tables, panicked' = panicked,
           used' \subseteq 0 .. (NumFrames - 1), maps' \subseteq Memmaps
    PROVE  TypeInv' /\ Leveled(L)'
  <1> DEFINE d == Start(fn, first, phys, len, perm, backed)
  <1>1. Root \in DOMAIN L /\ L[Root] = Levels
    <2>1. Root \in DOMAIN tables
      BY DEF TypeInv, TablesOK, Root
    <2> QED BY <2>1 DEF Leveled
  <1>2. d \in Call /\ CallLevels(d, L)
    BY <1>1, StartCall
  <1>3. op' = [op EXCEPT ![t] = d]
    OBVIOUS
  <1> HIDE DEF d
  <1>4. op' \in [Threads -> Call] /\ Leveled(L)' /\ TablesOK'
    BY <1>2, <1>3, LocalLevels
  <1> QED BY <1>4 DEF TypeInv

\* map begins or panics.
LEMMA MapLevels ==
    ASSUME TypeInv, NEW L, Leveled(L), NEW t \in Threads, NEW r \in Requests, Map(t, r)
    PROVE  TypeInv' /\ Leveled(L)'
  <1>1. /\ r.addr \in Pages /\ r.len \in Nat /\ r.perm \in SUBSET Flags
        /\ used \subseteq 0 .. (NumFrames - 1) /\ maps \subseteq Memmaps
    BY SpaceAssumption DEF TypeInv
  <1>2. \A p \in Pages : PhysToVirt(p) \in Pages /\ VirtToPhys(p) \in Pages
    <2>1. \A p \in Pages : p + KernelBase \in Int /\ p - KernelBase \in Int
      BY SpaceFacts, SpaceAssumption
    <2> QED BY <2>1, SpaceFacts DEF PhysToVirt, VirtToPhys
  <1>3. CASE MapAnywhere(t, r)
    <2> DEFINE n == r.len \div PageBytes
               f == Min(Fits(n))
               k == Max({n, 1})
    <2>1. n \in Nat
      BY <1>1, VmmAssumption, DivMod
    <2>2. CASE /\ Fits(n) # {}
               /\ used' = used \union (f .. (f + k - 1))
               /\ op' = [op EXCEPT ![t] = Start("map", PhysToVirt(f), f, r.len, r.perm, TRUE)]
               /\ UNCHANGED <<tables, maps, tlb, panicked>>
      <3>1. f \in Pages /\ \A g \in f .. (f + k - 1) : g \in 0 .. (NumFrames - 1)
        BY <2>1, <2>2, FitsFacts, SpaceFacts
      <3> HIDE DEF f, k, n
      <3>2. used' \subseteq 0 .. (NumFrames - 1)
        BY <3>1, <2>2, <1>1
      <3>3. PhysToVirt(f) \in Pages
        BY <3>1, <1>2
      <3> QED BY <3>1, <3>2, <3>3, <2>2, <1>1, BeginLevels
    <2>3. CASE Panic("unimplemented") \/ Panic("oom")
      BY <2>3, PanicLevels
    <2> QED BY <2>2, <2>3, <1>3 DEF MapAnywhere
  <1>4. CASE MapAt(t, r)
    <2>1. CASE /\ op' = [op EXCEPT ![t] = Start("map", r.addr, VirtToPhys(r.addr), r.len, r.perm, TRUE)]
               /\ UNCHANGED <<tables, used, maps, tlb, panicked>>
      BY <2>1, <1>1, <1>2, BeginLevels
    <2>2. CASE Panic("assert") \/ Panic("unimplemented")
      BY <2>2, PanicLevels
    <2> QED BY <2>1, <2>2, <1>4 DEF MapAt
  <1>5. CASE MapUnbacked(t, r)
    <2> DEFINE first == IF r.kernel THEN PhysToVirt(r.addr) ELSE r.addr
    <2>1. CASE /\ op' = [op EXCEPT ![t] = Start("map", first, r.addr, r.len, r.perm, FALSE)]
               /\ UNCHANGED <<tables, used, maps, tlb, panicked>>
      <3>1. first \in Pages
        BY <1>1, <1>2
      <3> HIDE DEF first
      <3> QED BY <2>1, <3>1, <1>1, BeginLevels
    <2>2. CASE Panic("unimplemented")
      BY <2>2, PanicLevels
    <2> QED BY <2>1, <2>2, <1>5 DEF MapUnbacked
  <1> QED BY <1>3, <1>4, <1>5 DEF Map

\* map_direct begins.
LEMMA MapDirectLevels ==
    ASSUME TypeInv, NEW L, Leveled(L), NEW t \in Threads, NEW r \in Requests, MapDirect(t, r)
    PROVE  TypeInv' /\ Leveled(L)'
  <1>1. /\ r.addr \in Pages /\ r.p_addr \in Pages /\ r.len \in Nat /\ r.perm \in SUBSET Flags
        /\ used \subseteq 0 .. (NumFrames - 1) /\ maps \subseteq Memmaps
    BY SpaceAssumption DEF TypeInv
  <1> QED BY <1>1, BeginLevels DEF MapDirect

\* unmap begins.
LEMMA UnmapLevels ==
    ASSUME TypeInv, NEW L, Leveled(L), NEW t \in Threads, NEW m \in maps, Unmap(t, m)
    PROVE  TypeInv' /\ Leveled(L)'
  <1>1. /\ m.addr \in Pages /\ m.len \in Nat /\ m.backed \in BOOLEAN
        /\ used' \subseteq 0 .. (NumFrames - 1) /\ maps' \subseteq Memmaps
        /\ {} \in SUBSET Flags /\ 0 \in Pages
    BY SpaceFacts DEF TypeInv, Unmap, Memmaps
  <1> QED BY <1>1, BeginLevels DEF Unmap

\* The tables after entry e is stored at index i of table n.
Stored(tbl, n, i, e) == [tbl EXCEPT ![n][i] = e]

\* An entry of a table that exists is stored.
LEMMA SetEntry ==
    ASSUME TablesOK, NEW n \in DOMAIN tables, NEW i \in 0 .. (Radix - 1), NEW e \in Entries,
           tables' = Stored(tables, n, i, e)
    PROVE  /\ TablesOK' /\ DOMAIN tables' = DOMAIN tables
           /\ \A m \in DOMAIN tables, j \in 0 .. (Radix - 1) :
                 tables'[m][j] = IF m = n /\ j = i THEN e ELSE tables[m][j]
  <1>1. PICK k \in 1 .. MaxTables : tables \in [0 .. (k - 1) -> [0 .. (Radix - 1) -> Entries]]
    BY DEF TablesOK
  <1>2. tables' \in [0 .. (k - 1) -> [0 .. (Radix - 1) -> Entries]]
    BY <1>1 DEF Stored
  <1> QED BY <1>1, <1>2 DEF TablesOK, Stored

\* The calls that a step of another thread does not concern.
LEMMA OpFacts ==
    ASSUME TypeInv, NEW L, Leveled(L), NEW t \in Threads
    PROVE  /\ op[t] \in Call /\ CallLevels(op[t], L)
           /\ op[t].table \in DOMAIN tables /\ op[t].new \in DOMAIN tables
           /\ op[t].table \in Nat /\ op[t].new \in Nat
           /\ op[t].addr \in Nat /\ op[t].addr \in Pages /\ op[t].p_addr \in Pages
           /\ \A l \in 1 .. Levels : Index(op[t].addr, l) \in 0 .. (Radix - 1)
           /\ Root \in DOMAIN tables
  <1>1. op[t] \in Call /\ CallLevels(op[t], L) /\ DOMAIN L = DOMAIN tables
    BY DEF TypeInv, Leveled
  <1>2. op[t].addr \in Pages /\ op[t].p_addr \in Pages /\ op[t].table \in Nat /\ op[t].new \in Nat
    BY <1>1 DEF Call
  <1>3. op[t].addr \in Nat
    BY <1>2, SpaceFacts
  <1>4. Root \in DOMAIN tables
    BY DEF TypeInv, TablesOK, Root
  <1>5. \A l \in 1 .. Levels : Index(op[t].addr, l) \in 0 .. (Radix - 1)
    BY <1>3, PrefixFacts
  <1> QED BY <1>1, <1>2, <1>3, <1>4, <1>5 DEF CallLevels

\* An entry that a walk reads is an entry, and one that is not Zero names a table.
LEMMA EntryFacts ==
    ASSUME TypeInv, NEW n \in DOMAIN tables, NEW i \in 0 .. (Radix - 1)
    PROVE  /\ tables[n][i] \in Entries /\ tables[n][i].at \in Nat
           /\ \A L : Leveled(L) /\ L[n] > 1 /\ tables[n][i] # Zero =>
                 tables[n][i].at \in DOMAIN tables /\ L[tables[n][i].at] = L[n] - 1
  <1>1. tables[n][i] \in Entries
    BY DEF TypeInv, TablesOK
  <1>2. tables[n][i].at \in Nat
    BY <1>1, SpaceFacts DEF Entries
  <1> QED BY <1>1, <1>2 DEF Leveled

\* find_page_table finds the entry filled.
LEMMA WalkDownLevels ==
    ASSUME TypeInv, NEW L, Leveled(L), NEW t \in Threads, op[t].pc = "walk",
           NEW e, e = tables[op[t].table][Index(op[t].addr, op[t].level)], e # Zero,
           op' = [op EXCEPT ![t] = Down(op[t], e.at)],
           UNCHANGED <<tables, used, maps, tlb, panicked>>
    PROVE  TypeInv' /\ Leveled(L)'
  <1> DEFINE c == op[t]
             d == Down(c, e.at)
  <1>1. /\ c \in Call /\ c.level \in 2 .. Levels /\ L[c.table] = c.level /\ c.new \in DOMAIN L
        /\ c.table \in DOMAIN tables /\ Index(c.addr, c.level) \in 0 .. (Radix - 1)
    BY OpFacts, SpaceFacts DEF CallLevels
  <1>2. e.at \in Nat /\ e.at \in DOMAIN tables /\ L[e.at] = c.level - 1 /\ DOMAIN tables = DOMAIN L
    BY <1>1, EntryFacts DEF Leveled
  <1>3. d \in Call /\ CallLevels(d, L)
    BY <1>1, <1>2, DownCall
  <1>4. op' = [op EXCEPT ![t] = d]
    OBVIOUS
  <1> HIDE DEF d
  <1>5. op' \in [Threads -> Call] /\ Leveled(L)' /\ TablesOK'
    BY <1>3, <1>4, LocalLevels
  <1> QED BY <1>5 DEF TypeInv

\* The levels when a thread in call c has got a new table.
WithNew(L, n, c) == [m \in 0 .. n |-> IF m = n THEN c.level - 1 ELSE L[m]]

\* find_page_table finds the entry empty: the new table is one level down.
LEMMA WalkNewLevels ==
    ASSUME TypeInv, NEW L, Leveled(L), NEW t \in Threads, op[t].pc = "walk",
           NEW c, c = op[t], NEW n, n = Cardinality(DOMAIN tables), n < MaxTables,
           tables' = [m \in 0 .. n |-> IF m = n THEN [i \in 0 .. (Radix - 1) |-> Zero]
                                                ELSE tables[m]],
           op' = [op EXCEPT ![t].pc = "link", ![t].new = n],
           UNCHANGED <<used, maps, tlb, panicked>>
    PROVE  /\ TypeInv' /\ Leveled(WithNew(L, n, c))'
           /\ n \in Nat \ {0} /\ DOMAIN tables = 0 .. (n - 1) /\ DOMAIN tables' = 0 .. n
           /\ \A m \in DOMAIN tables : m # n /\ tables'[m] = tables[m]
           /\ \A i \in 0 .. (Radix - 1) : tables'[n][i] = Zero
  <1> DEFINE K == WithNew(L, n, c)
             d == [c EXCEPT !.pc = "link", !.new = n]
  <1>1. /\ n \in 1 .. MaxTables /\ DOMAIN tables = 0 .. (n - 1)
        /\ tables \in [0 .. (n - 1) -> [0 .. (Radix - 1) -> Entries]]
    BY TableCount DEF TypeInv
  <1>2. /\ n \in Nat /\ n # 0 /\ n \notin DOMAIN tables /\ n + 1 \in 1 .. MaxTables
        /\ 0 .. ((n + 1) - 1) = 0 .. n /\ n \in 0 .. n
        /\ \A m \in 0 .. n : m # n => m \in 0 .. (n - 1)
        /\ 0 .. (n - 1) \subseteq 0 .. n
    BY <1>1, VmmAssumption
  <1>3. /\ \A m \in DOMAIN tables : m # n /\ tables'[m] = tables[m]
        /\ DOMAIN tables' = 0 .. n /\ tables'[n] = [i \in 0 .. (Radix - 1) |-> Zero]
    BY <1>1, <1>2
  <1>4. TablesOK'
    <2>1. tables' \in [0 .. n -> [0 .. (Radix - 1) -> Entries]]
      BY <1>1, <1>2, SpaceFacts
    <2> QED BY <2>1, <1>2 DEF TablesOK
  <1>5. /\ c \in Call /\ c.level \in 2 .. Levels /\ L[c.table] = c.level
        /\ c.table \in DOMAIN tables /\ c.level - 1 \in 1 .. Levels
    <2>1. /\ c \in Call /\ c.level \in 2 .. Levels /\ L[c.table] = c.level
          /\ c.table \in DOMAIN tables
      BY OpFacts DEF CallLevels
    <2>2. \A l \in 2 .. Levels : l - 1 \in 1 .. Levels
      BY VmmAssumption
    <2> QED BY <2>1, <2>2
  <1>6. d \in Call /\ op' = [op EXCEPT ![t] = d] /\ op' \in [Threads -> Call]
    <2>1. d \in Call
      BY <1>2, <1>5, Zenon DEF Call
    <2> QED BY <2>1 DEF TypeInv
  <1>7. TypeInv'
    BY <1>4, <1>6 DEF TypeInv
  <1>8. /\ K \in [0 .. n -> 1 .. Levels] /\ K[n] = c.level - 1
        /\ \A m \in DOMAIN tables : K[m] = L[m]
    BY <1>1, <1>2, <1>5 DEF Leveled, WithNew
  <1> HIDE DEF K
  <1>9. Leveled(K)'
    <2>1. K \in [DOMAIN tables' -> 1 .. Levels] /\ K[Root] = Levels
      BY <1>1, <1>2, <1>3, <1>8 DEF Leveled, Root
    <2>2. ASSUME NEW m \in DOMAIN tables', NEW i \in 0 .. (Radix - 1), K[m] > 1, tables'[m][i] # Zero
          PROVE  tables'[m][i].at \in DOMAIN tables' /\ K[tables'[m][i].at] = K[m] - 1
      <3>1. m \in DOMAIN tables /\ tables'[m][i] = tables[m][i] /\ K[m] = L[m]
        BY <2>2, <1>1, <1>2, <1>3, <1>8
      <3>2. tables[m][i].at \in DOMAIN tables /\ L[tables[m][i].at] = L[m] - 1
        BY <3>1, <2>2 DEF Leveled
      <3> QED BY <3>1, <3>2, <1>1, <1>2, <1>3, <1>8
    <2>3. ASSUME NEW s \in Threads PROVE CallLevels(op'[s], K)
      <3>1. CASE s = t
        <4>1. /\ op'[s].pc = "link" /\ op'[s].new = n /\ op'[s].table = c.table
              /\ op'[s].level = c.level
          BY <3>1, <1>5, <1>6 DEF Call, TypeInv
        <4>2. c.table \in 0 .. n /\ K[c.table] = L[c.table] /\ DOMAIN K = 0 .. n
          BY <1>1, <1>2, <1>5, <1>8
        <4> QED BY <4>1, <4>2, <1>2, <1>5, <1>8 DEF CallLevels
      <3>2. CASE s # t
        <4>1. op'[s] = op[s] /\ CallLevels(op[s], L) /\ DOMAIN L = DOMAIN tables
          BY <3>2 DEF TypeInv, Leveled
        <4> QED BY <4>1, <1>1, <1>2, <1>8 DEF CallLevels
      <3> QED BY <3>1, <3>2
    <2> QED BY <2>1, <2>2, <2>3 DEF Leveled
  <1> QED BY <1>1, <1>2, <1>3, <1>7, <1>9 DEF K

\* find_page_table reads an entry.
LEMMA WalkLevels ==
    ASSUME TypeInv, LevelInv, NEW t \in Threads, Walk(t)
    PROVE  TypeInv' /\ LevelInv'
  <1> DEFINE c == op[t]
             e == tables[c.table][Index(c.addr, c.level)]
             n == Cardinality(DOMAIN tables)
  <1>1. PICK L : Leveled(L)
    BY DEF LevelInv
  <1>2. CASE /\ e # Zero
             /\ op' = [op EXCEPT ![t] = Down(c, e.at)]
             /\ UNCHANGED <<tables, used, maps, tlb, panicked>>
    <2>1. op[t].pc = "walk"
      BY DEF Walk
    <2>2. TypeInv' /\ Leveled(L)'
      BY <1>1, <1>2, <2>1, WalkDownLevels
    <2> QED BY <2>2 DEF LevelInv
  <1>3. CASE /\ n < MaxTables
             /\ tables' = [m \in 0 .. n |-> IF m = n THEN [i \in 0 .. (Radix - 1) |-> Zero]
                                                     ELSE tables[m]]
             /\ op' = [op EXCEPT ![t].pc = "link", ![t].new = n]
             /\ UNCHANGED <<used, maps, tlb, panicked>>
    <2>1. op[t].pc = "walk"
      BY DEF Walk
    <2>2. PICK d, k : d = c /\ k = n
      OBVIOUS
    <2> HIDE DEF n
    <2>3. TypeInv' /\ Leveled(WithNew(L, k, d))'
      BY <1>1, <1>3, <2>1, <2>2, WalkNewLevels DEF n
    <2> QED BY <2>3 DEF LevelInv
  <1>4. CASE Panic("heap")
    <2>1. TypeInv' /\ Leveled(L)'
      BY <1>1, <1>4, PanicLevels
    <2> QED BY <2>1 DEF LevelInv
  <1> QED BY <1>2, <1>3, <1>4 DEF Walk

\* find_page_table stores the address of the new table.
LEMMA LinkLevels ==
    ASSUME TypeInv, NEW L, Leveled(L), NEW t \in Threads, Link(t)
    PROVE  TypeInv' /\ Leveled(L)'
  <1> DEFINE c == op[t]
             i == Index(c.addr, c.level)
             e == Entry(c.new, {"PRESENT", "WRITE"})
             d == Down(c, c.new)
  <1>1. /\ c \in Call /\ c.level \in 2 .. Levels /\ L[c.table] = c.level /\ L[c.new] = c.level - 1
        /\ c.table \in DOMAIN tables /\ c.new \in DOMAIN tables /\ c.new \in Nat
        /\ c.new \in DOMAIN L
    BY OpFacts DEF CallLevels, Link
  <1>2. i \in 0 .. (Radix - 1)
    <2>1. c.level \in 1 .. Levels
      BY <1>1, SpaceFacts
    <2> QED BY <2>1, OpFacts
  <1>3. e \in Entries /\ e.at = c.new
    <2>1. PICK k \in 1 .. MaxTables : DOMAIN tables = 0 .. (k - 1)
      BY TableCount DEF TypeInv
    <2>2. c.new \in 0 .. (MaxTables - 1)
      BY <2>1, <1>1, VmmAssumption
    <2>3. c.new \in Pages
      BY <2>2, SpaceFacts
    <2> QED BY <2>3 DEF Entries, Entry, Flags
  <1>4. d \in Call /\ CallLevels(d, L)
    BY <1>1, DownCall
  <1>5. /\ tables' = [tables EXCEPT ![c.table][i] = e]
        /\ op' = [op EXCEPT ![t] = d]
        /\ UNCHANGED <<used, maps, tlb, panicked>>
    BY DEF Link
  <1> HIDE DEF d, e, i
  <1>6. /\ TablesOK' /\ DOMAIN tables' = DOMAIN tables
        /\ \A m \in DOMAIN tables, j \in 0 .. (Radix - 1) :
              tables'[m][j] = IF m = c.table /\ j = i THEN e ELSE tables[m][j]
    <2>1. TablesOK /\ c.table \in DOMAIN tables /\ tables' = Stored(tables, c.table, i, e)
      BY <1>1, <1>5 DEF TypeInv, Stored
    <2> HIDE DEF c
    <2> QED BY <1>2, <1>3, <2>1, SetEntry
  <1>7. op' \in [Threads -> Call] /\ \A s \in Threads : CallLevels(op'[s], L)
    BY <1>4, <1>5 DEF TypeInv, Leveled
  <1>8. Leveled(L)'
    <2>1. ASSUME NEW m \in DOMAIN tables, NEW j \in 0 .. (Radix - 1), L[m] > 1, tables'[m][j] # Zero
          PROVE  tables'[m][j].at \in DOMAIN tables /\ L[tables'[m][j].at] = L[m] - 1
      BY <2>1, <1>1, <1>3, <1>6 DEF Leveled
    <2> QED BY <2>1, <1>6, <1>7 DEF Leveled
  <1>9. TypeInv'
    BY <1>5, <1>6, <1>7 DEF TypeInv
  <1> QED BY <1>8, <1>9

\* map_pages tests an entry.
LEMMA TestEntryLevels ==
    ASSUME TypeInv, NEW L, Leveled(L), NEW t \in Threads, TestEntry(t)
    PROVE  TypeInv' /\ Leveled(L)'
  <1> DEFINE c == op[t]
             d == [c EXCEPT !.pc = "store"]
  <1>1. c \in Call /\ CallLevels(c, L) /\ c.pc = "entry"
    BY OpFacts DEF TestEntry
  <1>2. CASE op' = [op EXCEPT ![t].pc = "store"] /\ UNCHANGED <<tables, used, maps, tlb, panicked>>
    <2>1. d \in Call
      BY <1>1, Zenon DEF Call
    <2>2. CallLevels(d, L)
      BY <1>1 DEF CallLevels, Call
    <2>3. op' = [op EXCEPT ![t] = d]
      BY <1>2 DEF TypeInv
    <2> HIDE DEF d
    <2>4. op' \in [Threads -> Call] /\ Leveled(L)' /\ TablesOK'
      BY <2>1, <2>2, <2>3, <1>2, LocalLevels
    <2> QED BY <2>4, <1>2 DEF TypeInv
  <1>3. CASE Panic("remap")
    BY <1>3, PanicLevels
  <1> QED BY <1>2, <1>3 DEF TestEntry

\* The call that the loop tests after a page.
Advanced(c) == [c EXCEPT !.addr = (c.addr + 1) % SpacePages, !.p_addr = (c.p_addr + 1) % SpacePages]

\* What advancing leaves alone.
LEMMA AdvancedCall ==
    ASSUME NEW c \in Call
    PROVE  /\ Advanced(c) \in Call
           /\ Advanced(c).addr = (c.addr + 1) % SpacePages
           /\ Advanced(c).p_addr = (c.p_addr + 1) % SpacePages
           /\ \A f \in {"pc", "fn", "first", "phys", "len", "perm", "backed", "limit", "level",
                        "table", "new"} : Advanced(c)[f] = c[f]
  <1>1. c.addr + 1 \in Int /\ c.p_addr + 1 \in Int
    <2>1. c.addr \in Pages /\ c.p_addr \in Pages
      BY DEF Call
    <2>2. c.addr \in Nat /\ c.p_addr \in Nat
      BY <2>1, SpaceFacts
    <2> QED BY <2>2
  <1> DEFINE a == (c.addr + 1) % SpacePages
             b == (c.p_addr + 1) % SpacePages
  <1>2. a \in Pages /\ b \in Pages
    BY <1>1, SpaceFacts
  <1>3. Advanced(c) = [c EXCEPT !.addr = a, !.p_addr = b]
    BY DEF Advanced
  <1> HIDE DEF a, b
  <1>4. Advanced(c) \in Call
    BY <1>2, <1>3, Zenon DEF Call
  <1>5. Advanced(c).addr = a /\ Advanced(c).p_addr = b
    BY <1>3 DEF Call
  <1>6. \A f \in {"pc", "fn", "first", "phys", "len", "perm", "backed", "limit", "level",
                  "table", "new"} : Advanced(c)[f] = c[f]
    BY <1>3 DEF Call
  <1> QED BY <1>4, <1>5, <1>6 DEF a, b

\* An entry of a last table is stored, and the loop goes on.
LEMMA StoreLevels ==
    ASSUME TypeInv, NEW L, Leveled(L), NEW t \in Threads, op[t].pc \in {"entry", "store"},
           NEW e \in Entries, Store(t, e)
    PROVE  TypeInv' /\ Leveled(L)'
  <1> DEFINE c == op[t]
             i == Index(c.addr, 1)
             d == Loop(Advanced(c))
  <1>1. /\ c \in Call /\ L[c.table] = 1 /\ c.table \in DOMAIN tables /\ c.new \in DOMAIN tables
        /\ DOMAIN L = DOMAIN tables /\ Root \in DOMAIN tables /\ L[Root] = Levels
    BY OpFacts DEF CallLevels, Leveled
  <1>2. i \in 0 .. (Radix - 1)
    <2>1. 1 \in 1 .. Levels
      BY SpaceFacts
    <2> QED BY <2>1, OpFacts
  <1>3. d \in Call /\ CallLevels(d, L)
    <2>1. Advanced(c) \in Call /\ Advanced(c).table = c.table /\ Advanced(c).new = c.new
      BY <1>1, AdvancedCall
    <2> QED BY <2>1, <1>1, LoopCall
  <1>4. tables' = Stored(tables, c.table, i, e) /\ UNCHANGED <<used, maps, tlb, panicked>>
    BY DEF Store, Stored
  <1>5. op' = [op EXCEPT ![t] = d]
    BY DEF Store, Advanced
  <1> HIDE DEF d, i
  <1>6. /\ TablesOK' /\ DOMAIN tables' = DOMAIN tables
        /\ \A m \in DOMAIN tables, j \in 0 .. (Radix - 1) :
              tables'[m][j] = IF m = c.table /\ j = i THEN e ELSE tables[m][j]
    <2>1. TablesOK /\ c.table \in DOMAIN tables /\ tables' = Stored(tables, c.table, i, e)
      BY <1>1, <1>4 DEF TypeInv
    <2> HIDE DEF c
    <2> QED BY <1>2, <2>1, SetEntry
  <1>7. op' \in [Threads -> Call] /\ \A s \in Threads : CallLevels(op'[s], L)
    BY <1>3, <1>5 DEF TypeInv, Leveled
  <1>8. Leveled(L)'
    <2>1. ASSUME NEW m \in DOMAIN tables, NEW j \in 0 .. (Radix - 1), L[m] > 1, tables'[m][j] # Zero
          PROVE  tables'[m][j].at \in DOMAIN tables /\ L[tables'[m][j].at] = L[m] - 1
      BY <2>1, <1>1, <1>6 DEF Leveled
    <2> QED BY <2>1, <1>6, <1>7 DEF Leveled
  <1>9. TypeInv'
    BY <1>4, <1>6, <1>7 DEF TypeInv
  <1> QED BY <1>8, <1>9

\* The entries that map_pages and unmap_pages store.
LEMMA StoredEntries ==
    /\ Entry(0, {"WRITE"}) \in Entries
    /\ \A c \in Call : Entry(c.p_addr, c.perm) \in Entries
  BY SpaceFacts DEF Entry, Entries, Flags, Call

\* A call returns.
LEMMA FlushLevels ==
    ASSUME TypeInv, NEW L, Leveled(L), NEW t \in Threads, Flush(t)
    PROVE  TypeInv' /\ Leveled(L)'
  <1> DEFINE c == op[t]
  <1>1. c \in Call /\ CallLevels(c, L) /\ Root \in DOMAIN L
    BY OpFacts DEF Leveled
  <1>2. NoCall \in Call /\ CallLevels(NoCall, L)
    <2>1. 0 \in Pages /\ 0 \in 0 .. Levels
      BY SpaceFacts
    <2> QED BY <2>1, <1>1 DEF Call, NoCall, CallLevels, Root
  <1>3. /\ op' = [op EXCEPT ![t] = NoCall]
        /\ UNCHANGED <<tables, used, panicked>>
        /\ \/ maps' = maps \union {[addr |-> c.first, phys |-> c.phys, len |-> c.len,
                                       perm |-> c.perm, backed |-> c.backed]}
           \/ maps' = maps
    BY DEF Flush
  <1>4. op' \in [Threads -> Call] /\ Leveled(L)' /\ TablesOK'
    BY <1>2, <1>3, LocalLevels
  <1>5. maps' \subseteq Memmaps
    <2>1. [addr |-> c.first, phys |-> c.phys, len |-> c.len, perm |-> c.perm, backed |-> c.backed]
             \in Memmaps
      BY <1>1 DEF Call, Memmaps
    <2> QED BY <1>3, <2>1 DEF TypeInv
  <1> QED BY <1>3, <1>4, <1>5 DEF TypeInv

\* Every step keeps the types and the levels, except that a new table needs one too.
LEMMA StepLevels ==
    ASSUME TypeInv, NEW L, Leveled(L), [Next]_vars,
           ~ \E t \in Threads : Walk(t)
    PROVE  TypeInv' /\ Leveled(L)'
  <1>1. CASE UNCHANGED vars
    BY <1>1 DEF vars, TypeInv, TablesOK, Leveled
  <1>2. ASSUME NEW t \in Threads, NEW r \in Requests, Map(t, r) PROVE TypeInv' /\ Leveled(L)'
    BY <1>2, MapLevels
  <1>3. ASSUME NEW t \in Threads, NEW r \in Requests, MapDirect(t, r) PROVE TypeInv' /\ Leveled(L)'
    BY <1>3, MapDirectLevels
  <1>4. ASSUME NEW t \in Threads, NEW m \in maps, Unmap(t, m) PROVE TypeInv' /\ Leveled(L)'
    BY <1>4, UnmapLevels
  <1>5. ASSUME NEW t \in Threads, Link(t) PROVE TypeInv' /\ Leveled(L)'
    BY <1>5, LinkLevels
  <1>6. ASSUME NEW t \in Threads, TestEntry(t) PROVE TypeInv' /\ Leveled(L)'
    BY <1>6, TestEntryLevels
  <1>7. ASSUME NEW t \in Threads, MapPage(t) PROVE TypeInv' /\ Leveled(L)'
    <2>1. op[t] \in Call
      BY OpFacts
    <2>2. Entry(op[t].p_addr, op[t].perm) \in Entries
      BY <2>1, StoredEntries
    <2> QED BY <1>7, <2>2, StoreLevels DEF MapPage
  <1>8. ASSUME NEW t \in Threads, UnmapPage(t) PROVE TypeInv' /\ Leveled(L)'
    BY <1>8, StoredEntries, StoreLevels DEF UnmapPage
  <1>9. ASSUME NEW t \in Threads, Flush(t) PROVE TypeInv' /\ Leveled(L)'
    BY <1>9, FlushLevels
  <1>10. ASSUME NEW v \in Pages, Access(v) PROVE TypeInv' /\ Leveled(L)'
    BY <1>10 DEF Access, TypeInv, TablesOK, Leveled
  <1> QED BY <1>1, <1>2, <1>3, <1>4, <1>5, <1>6, <1>7, <1>8, <1>9, <1>10 DEF Next, Step

\* The types and the levels of the tables are invariant, however calls overlap.
LEMMA LevelInvariance == Spec => [](TypeInv /\ LevelInv)
  <1>1. Init => TypeInv /\ LevelInv
    BY InitLevels
  <1>2. TypeInv /\ LevelInv /\ [Next]_vars => TypeInv' /\ LevelInv'
    <2> SUFFICES ASSUME TypeInv, LevelInv, [Next]_vars PROVE TypeInv' /\ LevelInv'
      OBVIOUS
    <2>1. CASE \E t \in Threads : Walk(t)
      BY <2>1, WalkLevels
    <2>2. CASE ~ \E t \in Threads : Walk(t)
      <3>1. PICK L : Leveled(L)
        BY DEF LevelInv
      <3>2. TypeInv' /\ Leveled(L)'
        BY <2>2, <3>1, StepLevels
      <3> QED BY <3>2 DEF LevelInv
    <2> QED BY <2>1, <2>2
  <1> QED BY <1>1, <1>2, PTL DEF Spec

\* The tables, the bitmap and the calls hold values of their types and a call refers only
\* to tables that exist, whatever is mapped and unmapped and however many threads do so
\* at once: no walk of find_page_table follows an entry to something that is no table.
THEOREM TypeCorrect == Spec => []TypeOK
  <1>1. TypeInv /\ LevelInv => TypeOK
    <2> SUFFICES ASSUME TypeInv, LevelInv PROVE TypeOK
      OBVIOUS
    <2>1. PICK L : Leveled(L)
      BY DEF LevelInv
    <2>2. PICK n \in 1 .. MaxTables : /\ Cardinality(DOMAIN tables) = n
                                      /\ DOMAIN tables = 0 .. (n - 1)
      BY TableCount DEF TypeInv
    <2>3. ASSUME NEW k \in DOMAIN tables, NEW i \in 0 .. (Radix - 1)
          PROVE  tables[k][i].at \in Pages /\ tables[k][i].flags \subseteq Flags
      <3>1. tables[k][i] \in Entries
        BY EntryFacts
      <3> QED BY <3>1 DEF Entries
    <2>4. ASSUME NEW t \in Threads
          PROVE  /\ op[t].pc \in {"out", "walk", "link", "entry", "store", "flush"}
                 /\ op[t].addr \in Pages /\ op[t].p_addr \in Pages
                 /\ op[t].level \in 0 .. Levels
                 /\ {op[t].table, op[t].new} \subseteq DOMAIN tables
      BY <2>1, OpFacts DEF Call
    <2> QED BY <2>2, <2>3, <2>4 DEF TypeOK, TypeInv
  <1> QED BY <1>1, LevelInvariance, PTL

-----------------------------------------------------------------------------
(* The cached translations, for any number of threads *)

\* The walk and the translation as functions of the tables.
LastOf(tbl, v) ==
    LET at[l \in 1 .. Levels] ==
            IF l = Levels THEN {Root}
            ELSE {tbl[n][Index(v, l + 1)].at :
                    n \in {m \in at[l + 1] : "PRESENT" \in tbl[m][Index(v, l + 1)].flags}}
    IN  at[1]

\* The entry through which page v is translated, Zero if there is none.
TranslationOf(tbl, v) ==
    LET e == {tbl[n][Index(v, 1)] : n \in LastOf(tbl, v)}
        p == {x \in e : "PRESENT" \in x.flags}
    IN  IF p = {} THEN Zero ELSE CHOOSE x \in p : TRUE

\* The walk depends on nothing but the tables.
LEMMA TranslationDef ==
    /\ \A v : LastTable(v) = LastOf(tables, v)
    /\ \A v : Translation(v) = TranslationOf(tables, v)
  <1>1. \A v : LastTable(v) = LastOf(tables, v)
    BY DEF LastTable, LastOf
  <1> QED BY <1>1 DEF Translation, TranslationOf

\* The same of the next state.
LEMMA TranslationDefPrimed ==
    /\ \A v : LastTable(v)' = LastOf(tables', v)
    /\ \A v : Translation(v)' = TranslationOf(tables', v)
  <1>1. \A v : LastTable(v)' = LastOf(tables', v)
    BY DEF LastTable, LastOf
  <1> QED BY <1>1 DEF Translation, TranslationOf

\* A call that has begun or goes on is not out.
LEMMA CallsInside ==
    /\ \A c \in Call : Loop(c).pc # "out"
    /\ \A fn, first, phys, len, perm, backed : Start(fn, first, phys, len, perm, backed).pc # "out"
    /\ \A c \in Call : \A n : Down(c, n).pc # "out"
  <1>1. \A c \in Call : Loop(c).pc # "out"
    BY DEF Loop, Call
  <1>2. ASSUME NEW fn, NEW first, NEW phys, NEW len, NEW perm, NEW backed
        PROVE  Start(fn, first, phys, len, perm, backed).pc # "out"
    BY DEF Start, Loop, NoCall
  <1>3. ASSUME NEW c \in Call, NEW n PROVE Down(c, n).pc # "out"
    BY DEF Down, Call
  <1> QED BY <1>1, <1>2, <1>3

\* Only flush ends a call; every other step of a thread leaves it in one or panics.
LEMMA ThreadInside ==
    ASSUME TypeInv, NEW t \in Threads,
           \/ \E r \in Requests : Map(t, r) \/ MapDirect(t, r)
           \/ \E m \in maps : Unmap(t, m)
           \/ Walk(t) \/ Link(t) \/ TestEntry(t) \/ MapPage(t) \/ UnmapPage(t)
    PROVE  op'[t].pc # "out" \/ panicked' # "no"
  <1> DEFINE Inside == op'[t].pc # "out" \/ panicked' # "no"
  <1>1. op \in [Threads -> Call] /\ op[t] \in Call
    BY DEF TypeInv
  <1>2. ASSUME NEW d, op' = [op EXCEPT ![t] = d], d.pc # "out" PROVE Inside
    BY <1>1, <1>2
  <1>3. \A why \in {"unimplemented", "oom", "assert", "remap", "heap"} : Panic(why) => Inside
    BY DEF Panic
  <1>4. ASSUME NEW fn, NEW first, NEW phys, NEW len, NEW perm, NEW backed,
               op' = [op EXCEPT ![t] = Start(fn, first, phys, len, perm, backed)]
        PROVE  Inside
    BY <1>2, <1>4, CallsInside
  <1>5. ASSUME NEW r \in Requests, Map(t, r) PROVE Inside
    <2>1. CASE MapAnywhere(t, r)
      <3> DEFINE f == Min(Fits(r.len \div PageBytes))
      <3>1. CASE op' = [op EXCEPT ![t] = Start("map", PhysToVirt(f), f, r.len, r.perm, TRUE)]
        <4> HIDE DEF f
        <4> QED BY <3>1, <1>4
      <3>2. CASE Panic("unimplemented")
        BY <3>2, <1>3
      <3>3. CASE Panic("oom")
        BY <3>3, <1>3
      <3> QED BY <2>1, <3>1, <3>2, <3>3 DEF MapAnywhere
    <2>2. CASE MapAt(t, r)
      <3>1. CASE op' = [op EXCEPT ![t] =
                            Start("map", r.addr, VirtToPhys(r.addr), r.len, r.perm, TRUE)]
        BY <3>1, <1>4
      <3>2. CASE Panic("unimplemented")
        BY <3>2, <1>3
      <3>3. CASE Panic("assert")
        BY <3>3, <1>3
      <3> QED BY <2>2, <3>1, <3>2, <3>3 DEF MapAt
    <2>3. CASE MapUnbacked(t, r)
      <3> DEFINE first == IF r.kernel THEN PhysToVirt(r.addr) ELSE r.addr
      <3>1. CASE op' = [op EXCEPT ![t] = Start("map", first, r.addr, r.len, r.perm, FALSE)]
        <4> HIDE DEF first
        <4> QED BY <3>1, <1>4
      <3>2. CASE Panic("unimplemented")
        BY <3>2, <1>3
      <3> QED BY <2>3, <3>1, <3>2 DEF MapUnbacked
    <2> QED BY <1>5, <2>1, <2>2, <2>3 DEF Map
  <1>6. ASSUME NEW r \in Requests, MapDirect(t, r) PROVE Inside
    BY <1>4, <1>6 DEF MapDirect
  <1>7. ASSUME NEW m \in maps, Unmap(t, m) PROVE Inside
    BY <1>4, <1>7 DEF Unmap
  <1>8. CASE Walk(t)
    <2>1. ASSUME NEW n, op' = [op EXCEPT ![t] = Down(op[t], n)] PROVE Inside
      BY <2>1, <1>1, <1>2, CallsInside
    <2>2. ASSUME NEW n, op' = [op EXCEPT ![t].pc = "link", ![t].new = n] PROVE Inside
      <3>1. op'[t].pc = "link"
        BY <2>2, <1>1 DEF Call
      <3> QED BY <3>1 DEF Inside
    <2> QED BY <1>8, <2>1, <2>2, <1>3 DEF Walk
  <1>9. CASE Link(t)
    BY <1>9, <1>1, <1>2, CallsInside DEF Link
  <1>10. CASE TestEntry(t)
    <2>1. ASSUME op' = [op EXCEPT ![t].pc = "store"] PROVE Inside
      <3>1. op'[t].pc = "store"
        BY <2>1, <1>1 DEF Call
      <3> QED BY <3>1 DEF Inside
    <2> QED BY <1>10, <2>1, <1>3 DEF TestEntry
  <1>11. CASE MapPage(t) \/ UnmapPage(t)
    <2>1. op' = [op EXCEPT ![t] = Loop(Advanced(op[t]))]
      BY <1>11 DEF MapPage, UnmapPage, Store, Advanced
    <2>2. Advanced(op[t]) \in Call
      BY <1>1, AdvancedCall
    <2> QED BY <2>1, <2>2, <1>2, CallsInside
  <1>12. Inside
    BY <1>5, <1>6, <1>7, <1>8, <1>9, <1>10, <1>11
  <1> QED BY <1>12 DEF Inside

\* However many threads map and unmap, a translation that the processor has cached and
\* that no longer stands in the tables is gone once every call has returned: each return
\* of map and unmap is a load of cr3 after the call's last store.
THEOREM TlbCoherent == Spec => []NoStaleTranslation
  <1>1. Init => NoStaleTranslation
    BY DEF Init, NoStaleTranslation
  <1>2. TypeInv /\ NoStaleTranslation /\ [Next]_vars => NoStaleTranslation'
    <2> SUFFICES ASSUME TypeInv, NoStaleTranslation, [Next]_vars, panicked' = "no", Quiet'
                 PROVE  \A c \in tlb' : TranslationOf(tables', c.page) = c.entry
      BY TranslationDefPrimed DEF NoStaleTranslation
    <2>0. \A t \in Threads : op'[t].pc = "out"
      BY DEF Quiet
    <2>1. ASSUME UNCHANGED <<tables, op, panicked>>
          PROVE  \A c \in tlb : TranslationOf(tables', c.page) = c.entry
      <3>1. Quiet /\ panicked = "no"
        BY <2>0, <2>1 DEF Quiet
      <3> QED BY <2>1, <3>1, TranslationDef DEF NoStaleTranslation
    <2>2. CASE UNCHANGED vars
      BY <2>1, <2>2 DEF vars
    <2>3. ASSUME NEW v \in Pages, Access(v)
          PROVE  \A c \in tlb' : TranslationOf(tables', c.page) = c.entry
      <3>1. /\ tlb' = tlb \union {[page |-> v, entry |-> TranslationOf(tables, v)]}
            /\ UNCHANGED <<tables, op, panicked>>
        BY <2>3, TranslationDef DEF Access
      <3>2. \A c \in tlb : TranslationOf(tables', c.page) = c.entry
        BY <3>1, <2>1
      <3> QED BY <3>1, <3>2
    <2>4. ASSUME NEW t \in Threads, Flush(t) PROVE tlb' = {}
      BY <2>4 DEF Flush
    <2>5. ASSUME NEW t \in Threads,
                 \/ \E r \in Requests : Map(t, r) \/ MapDirect(t, r)
                 \/ \E m \in maps : Unmap(t, m)
                 \/ Walk(t) \/ Link(t) \/ TestEntry(t) \/ MapPage(t) \/ UnmapPage(t)
          PROVE  FALSE
      BY <2>0, <2>5, ThreadInside
    <2> QED BY <2>2, <2>3, <2>4, <2>5 DEF Next, Step
  <1> QED BY <1>1, <1>2, LevelInvariance, PTL DEF Spec

-----------------------------------------------------------------------------
(* The shape of the tables *)

\* Some table that is not a last one has an entry for table n, or n is the root.
Named(tbl, L, n) ==
    n = Root \/ \E m \in DOMAIN tbl, i \in 0 .. (Radix - 1) :
                   L[m] > 1 /\ tbl[m][i] # Zero /\ tbl[m][i].at = n

\* Table n has no entry.
Blank(tbl, n) == \A i \in 0 .. (Radix - 1) : tbl[n][i] = Zero

\* Tables of levels L and prefixes P: an entry leads to the table of the next level whose
\* prefix has the entry's index as its next digit, no two tables stand for one range, and
\* a table that nothing leads to is empty.
Shape(tbl, L, P) ==
    /\ Root \in DOMAIN tbl
    /\ L \in [DOMAIN tbl -> 1 .. Levels] /\ P \in [DOMAIN tbl -> Nat]
    /\ L[Root] = Levels /\ P[Root] = 0
    /\ \A m \in DOMAIN tbl, i \in 0 .. (Radix - 1) :
          L[m] > 1 /\ tbl[m][i] # Zero =>
              /\ tbl[m][i].at \in DOMAIN tbl /\ "PRESENT" \in tbl[m][i].flags
              /\ L[tbl[m][i].at] = L[m] - 1 /\ P[tbl[m][i].at] = P[m] * Radix + i
    /\ \A m, n \in DOMAIN tbl : L[m] = L[n] /\ P[m] = P[n] => m = n
    /\ \A n \in DOMAIN tbl : P[n] * Power[L[n]] \in Pages
    /\ \A n \in DOMAIN tbl : Named(tbl, L, n) \/ Blank(tbl, n)

\* The tables that the walk for page v can be in at level l: there is at most one.
OnWalk(tbl, L, P, v, l) == {n \in DOMAIN tbl : L[n] = l /\ P[n] = Prefix(v, l) /\ Named(tbl, L, n)}

\* An entry that is present is not Zero.
LEMMA ZeroAbsent == "PRESENT" \notin Zero.flags
  BY DEF Zero, Entry

\* The processor goes from level to level along the prefixes of the page.
LEMMA OnWalkDown ==
    ASSUME NEW tbl, NEW L, NEW P, Shape(tbl, L, P), NEW v \in Pages, NEW l \in 1 .. (Levels - 1)
    PROVE  OnWalk(tbl, L, P, v, l) =
              {tbl[n][Index(v, l + 1)].at :
                  n \in {m \in OnWalk(tbl, L, P, v, l + 1) :
                            "PRESENT" \in tbl[m][Index(v, l + 1)].flags}}
  <1> DEFINE i == Index(v, l + 1)
             p == Prefix(v, l + 1)
  <1>1. l + 1 \in 1 .. Levels /\ l + 1 > 1 /\ (l + 1) - 1 = l /\ v \in Nat
    BY SpaceFacts
  <1>2. i \in 0 .. (Radix - 1) /\ p \in Nat /\ Prefix(v, l) = p * Radix + i
    <2>1. l + 1 \in 0 .. Levels
      BY <1>1
    <2> QED BY <1>1, <2>1, PrefixFacts
  <1> HIDE DEF i, p
  <1>3. ASSUME NEW m \in OnWalk(tbl, L, P, v, l + 1), "PRESENT" \in tbl[m][i].flags
        PROVE  tbl[m][i].at \in OnWalk(tbl, L, P, v, l)
    <2>1. m \in DOMAIN tbl /\ L[m] = l + 1 /\ P[m] = p
      BY DEF OnWalk, p
    <2>2. tbl[m][i] # Zero
      BY <1>3, ZeroAbsent
    <2>3. /\ tbl[m][i].at \in DOMAIN tbl /\ L[tbl[m][i].at] = L[m] - 1
          /\ P[tbl[m][i].at] = P[m] * Radix + i
      BY <2>1, <2>2, <1>1, <1>2 DEF Shape
    <2>4. Named(tbl, L, tbl[m][i].at)
      BY <2>1, <2>2, <1>1, <1>2 DEF Named
    <2> QED BY <2>1, <2>3, <2>4, <1>1, <1>2 DEF OnWalk
  <1>4. ASSUME NEW n \in OnWalk(tbl, L, P, v, l)
        PROVE  \E m \in OnWalk(tbl, L, P, v, l + 1) :
                  "PRESENT" \in tbl[m][i].flags /\ n = tbl[m][i].at
    <2>1. n \in DOMAIN tbl /\ L[n] = l /\ P[n] = p * Radix + i /\ Named(tbl, L, n)
      BY <1>2 DEF OnWalk
    <2>2. n # Root
      BY <2>1, SpaceFacts DEF Shape
    <2>3. PICK m \in DOMAIN tbl, j \in 0 .. (Radix - 1) :
                  L[m] > 1 /\ tbl[m][j] # Zero /\ tbl[m][j].at = n
      BY <2>1, <2>2 DEF Named
    <2>4. "PRESENT" \in tbl[m][j].flags /\ L[n] = L[m] - 1 /\ P[n] = P[m] * Radix + j
      BY <2>3 DEF Shape
    <2>5. P[m] \in Nat /\ L[m] \in 1 .. Levels
      BY <2>3 DEF Shape
    <2>6. L[m] = l + 1
      BY <2>1, <2>4, <2>5, SpaceFacts
    <2>7. P[m] = p /\ j = i
      <3>1. P[m] * Radix + j = p * Radix + i
        BY <2>1, <2>4
      <3>2. (P[m] * Radix + j) \div Radix = P[m] /\ (P[m] * Radix + j) % Radix = j
        BY <2>3, <2>5, DigitFacts
      <3>3. (p * Radix + i) \div Radix = p /\ (p * Radix + i) % Radix = i
        BY <1>2, DigitFacts
      <3> QED BY <3>1, <3>2, <3>3
    <2>8. Named(tbl, L, m)
      BY <2>3 DEF Shape, Blank
    <2>9. m \in OnWalk(tbl, L, P, v, l + 1)
      BY <2>3, <2>6, <2>7, <2>8 DEF OnWalk, p
    <2> QED BY <2>3, <2>4, <2>7, <2>9
  <1>5. OnWalk(tbl, L, P, v, l) =
           {tbl[n][i].at : n \in {m \in OnWalk(tbl, L, P, v, l + 1) : "PRESENT" \in tbl[m][i].flags}}
    BY <1>3, <1>4
  <1> QED BY <1>5 DEF i

\* The processor's walk ends in the table of level 1 that has the page's prefix.
LEMMA WalkEnds ==
    ASSUME NEW tbl, NEW L, NEW P, Shape(tbl, L, P), NEW v \in Pages
    PROVE  LastOf(tbl, v) = OnWalk(tbl, L, P, v, 1)
  <1> DEFINE Go(g) == [l \in 1 .. Levels |->
                          IF l = Levels THEN {Root}
                          ELSE {tbl[n][Index(v, l + 1)].at :
                                   n \in {m \in g[l + 1] : "PRESENT" \in tbl[m][Index(v, l + 1)].flags}}]
             at == CHOOSE g : g = Go(g)
             G == [l \in 1 .. Levels |-> OnWalk(tbl, L, P, v, l)]
             Bad == {k \in 0 .. (Levels - 1) : at[Levels - k] # G[Levels - k]}
  <1>0. Levels \in Nat /\ Levels >= 2 /\ v \in Nat
    BY SpaceFacts
  <1>1. LastOf(tbl, v) = at[1]
    BY DEF LastOf
  <1>2. OnWalk(tbl, L, P, v, Levels) = {Root}
    <2>1. Prefix(v, Levels) = 0
      BY <1>0, PrefixFacts
    <2> QED BY <2>1 DEF OnWalk, Shape, Named
  <1>3. \A l \in 1 .. Levels : G[l] = Go(G)[l]
    <2> SUFFICES ASSUME NEW l \in 1 .. Levels PROVE G[l] = Go(G)[l]
      OBVIOUS
    <2>1. CASE l = Levels
      BY <2>1, <1>2
    <2>2. CASE l # Levels
      <3>1. l \in 1 .. (Levels - 1) /\ l + 1 \in 1 .. Levels
        BY <2>2, <1>0
      <3>2. G[l + 1] = OnWalk(tbl, L, P, v, l + 1) /\ G[l] = OnWalk(tbl, L, P, v, l)
        BY <3>1
      <3> QED BY <3>1, <3>2, <2>2, OnWalkDown
    <2> QED BY <2>1, <2>2
  <1>4. G = Go(G)
    BY <1>3
  <1>5. at = Go(at)
    <2> HIDE DEF Go, G
    <2> QED BY <1>4
  <1> HIDE DEF at
  <1>6. Bad = {}
    <2>1. SUFFICES ASSUME Bad # {} PROVE FALSE
      OBVIOUS
    <2>2. PICK k \in Bad : \A j \in Bad : k <= j
      <3>1. Bad \in SUBSET Nat
        BY <1>0
      <3> HIDE DEF Bad
      <3> QED BY <2>1, <3>1, LeastExists
    <2> DEFINE l == Levels - k
    <2>3. l \in 1 .. Levels /\ at[l] # G[l] /\ k \in 0 .. (Levels - 1)
      BY <1>0
    <2>4. l # Levels
      <3>1. at[Levels] = {Root} /\ G[Levels] = {Root}
        BY <1>0, <1>2, <1>5
      <3> QED BY <2>3, <3>1
    <2>5. at[l + 1] = G[l + 1]
      <3>1. k - 1 \in 0 .. (Levels - 1) /\ Levels - (k - 1) = l + 1 /\ ~(k <= k - 1)
        BY <2>3, <2>4, <1>0
      <3>2. k - 1 \notin Bad
        BY <2>2, <3>1
      <3> QED BY <3>1, <3>2
    <2>6. at[l] = Go(at)[l] /\ G[l] = Go(G)[l]
      <3> HIDE DEF Go, G, l
      <3> QED BY <1>4, <1>5
    <2>7. Go(at)[l] = Go(G)[l]
      <3> HIDE DEF G, l
      <3> QED BY <2>3, <2>4, <2>5
    <2> QED BY <2>3, <2>6, <2>7
  <1>7. at[1] = G[1]
    <2>1. Levels - 1 \in 0 .. (Levels - 1) /\ Levels - (Levels - 1) = 1
      BY <1>0
    <2> HIDE DEF G
    <2> QED BY <1>6, <2>1
  <1> QED BY <1>0, <1>1, <1>7

\* What a page is translated to by entry e of its last table.
Seen(e) == IF "PRESENT" \in e.flags THEN e ELSE Zero

\* The translation of a page is read in the table of level 1 with the page's prefix.
LEMMA TranslationIs ==
    ASSUME NEW tbl, NEW L, NEW P, Shape(tbl, L, P), NEW v \in Pages
    PROVE  /\ \A n \in DOMAIN tbl : L[n] = 1 /\ P[n] = Prefix(v, 1) =>
                 TranslationOf(tbl, v) = Seen(tbl[n][Index(v, 1)])
           /\ ~(\E n \in DOMAIN tbl : L[n] = 1 /\ P[n] = Prefix(v, 1)) =>
                 TranslationOf(tbl, v) = Zero
  <1> DEFINE i == Index(v, 1)
             S == LastOf(tbl, v)
             e == {tbl[n][i] : n \in S}
             p == {x \in e : "PRESENT" \in x.flags}
  <1>1. S = OnWalk(tbl, L, P, v, 1)
    BY WalkEnds
  <1>2. TranslationOf(tbl, v) = IF p = {} THEN Zero ELSE CHOOSE x \in p : TRUE
    BY DEF TranslationOf
  <1>3. i \in 0 .. (Radix - 1)
    <2>1. v \in Nat /\ 1 \in 1 .. Levels
      BY SpaceFacts
    <2> QED BY <2>1, PrefixFacts
  <1> HIDE DEF i, S
  <1>4. ASSUME NEW n \in DOMAIN tbl, L[n] = 1, P[n] = Prefix(v, 1)
        PROVE  TranslationOf(tbl, v) = Seen(tbl[n][i])
    <2>1. S \subseteq {n}
      BY <1>1, <1>4 DEF OnWalk, Shape
    <2>2. CASE Named(tbl, L, n)
      <3>1. S = {n}
        BY <1>1, <1>4, <2>1, <2>2 DEF OnWalk
      <3>2. p = {x \in {tbl[n][i]} : "PRESENT" \in x.flags}
        BY <3>1
      <3> QED BY <3>2, <1>2 DEF Seen
    <2>3. CASE ~Named(tbl, L, n)
      <3>1. S = {}
        BY <1>1, <2>1, <2>3 DEF OnWalk
      <3>2. tbl[n][i] = Zero
        BY <2>3, <1>3 DEF Shape, Blank
      <3> QED BY <3>1, <3>2, <1>2, ZeroAbsent DEF Seen
    <2> QED BY <2>2, <2>3
  <1>5. ASSUME ~(\E n \in DOMAIN tbl : L[n] = 1 /\ P[n] = Prefix(v, 1))
        PROVE  TranslationOf(tbl, v) = Zero
    <2>1. S = {}
      BY <1>1, <1>5 DEF OnWalk
    <2> QED BY <2>1, <1>2
  <1> QED BY <1>4, <1>5 DEF i

\* A translation is an entry.
LEMMA TranslationType ==
    ASSUME NEW tbl, NEW L, NEW P, Shape(tbl, L, P), NEW v \in Pages,
           \A n \in DOMAIN tbl, i \in 0 .. (Radix - 1) : tbl[n][i] \in Entries
    PROVE  TranslationOf(tbl, v) \in Entries
  <1>1. Index(v, 1) \in 0 .. (Radix - 1)
    <2>1. v \in Nat /\ 1 \in 1 .. Levels
      BY SpaceFacts
    <2> QED BY <2>1, PrefixFacts
  <1>2. Zero \in Entries
    BY SpaceFacts
  <1>3. CASE \E n \in DOMAIN tbl : L[n] = 1 /\ P[n] = Prefix(v, 1)
    BY <1>1, <1>2, <1>3, TranslationIs DEF Seen
  <1>4. CASE ~ \E n \in DOMAIN tbl : L[n] = 1 /\ P[n] = Prefix(v, 1)
    BY <1>2, <1>4, TranslationIs
  <1> QED BY <1>3, <1>4

\* Tables that keep the entries of the last level, and add empty ones, translate alike.
LEMMA SameTranslation ==
    ASSUME NEW tbl, NEW L, NEW P, Shape(tbl, L, P),
           NEW tbl2, NEW L2, NEW P2, Shape(tbl2, L2, P2), DOMAIN tbl \subseteq DOMAIN tbl2,
           \A n \in DOMAIN tbl : L2[n] = L[n] /\ P2[n] = P[n],
           \A n \in DOMAIN tbl, i \in 0 .. (Radix - 1) : L[n] = 1 => tbl2[n][i] = tbl[n][i],
           \A n \in DOMAIN tbl2 \ DOMAIN tbl : Blank(tbl2, n),
           NEW v \in Pages
    PROVE  TranslationOf(tbl2, v) = TranslationOf(tbl, v)
  <1>1. Index(v, 1) \in 0 .. (Radix - 1)
    <2>1. v \in Nat /\ 1 \in 1 .. Levels
      BY SpaceFacts
    <2> QED BY <2>1, PrefixFacts
  <1>2. CASE \E n \in DOMAIN tbl : L[n] = 1 /\ P[n] = Prefix(v, 1)
    <2>1. PICK n \in DOMAIN tbl : L[n] = 1 /\ P[n] = Prefix(v, 1)
      BY <1>2
    <2>2. TranslationOf(tbl, v) = Seen(tbl[n][Index(v, 1)])
      BY <2>1, TranslationIs
    <2>3. TranslationOf(tbl2, v) = Seen(tbl2[n][Index(v, 1)])
      BY <2>1, TranslationIs
    <2> QED BY <1>1, <2>1, <2>2, <2>3
  <1>3. CASE ~ \E n \in DOMAIN tbl : L[n] = 1 /\ P[n] = Prefix(v, 1)
    <2>1. TranslationOf(tbl, v) = Zero
      BY <1>3, TranslationIs
    <2>2. CASE \E n \in DOMAIN tbl2 : L2[n] = 1 /\ P2[n] = Prefix(v, 1)
      <3>1. PICK n \in DOMAIN tbl2 : L2[n] = 1 /\ P2[n] = Prefix(v, 1)
        BY <2>2
      <3>2. n \notin DOMAIN tbl
        BY <3>1, <1>3
      <3>3. tbl2[n][Index(v, 1)] = Zero
        BY <1>1, <3>1, <3>2 DEF Blank
      <3>4. TranslationOf(tbl2, v) = Seen(Zero)
        BY <3>1, <3>3, TranslationIs
      <3> QED BY <2>1, <3>4 DEF Seen
    <2>3. CASE ~ \E n \in DOMAIN tbl2 : L2[n] = 1 /\ P2[n] = Prefix(v, 1)
      BY <2>1, <2>3, TranslationIs
    <2> QED BY <2>2, <2>3
  <1> QED BY <1>2, <1>3

\* Storing an entry of a last table changes the translation of one page.
LEMMA StoreTranslation ==
    ASSUME NEW tbl, NEW L, NEW P, Shape(tbl, L, P), NEW tbl2, Shape(tbl2, L, P),
           DOMAIN tbl2 = DOMAIN tbl, NEW a \in Pages, NEW n \in DOMAIN tbl, NEW e,
           L[n] = 1, P[n] = Prefix(a, 1),
           \A m \in DOMAIN tbl, j \in 0 .. (Radix - 1) :
               tbl2[m][j] = IF m = n /\ j = Index(a, 1) THEN e ELSE tbl[m][j]
    PROVE  /\ TranslationOf(tbl2, a) = Seen(e)
           /\ TranslationOf(tbl, a) = Seen(tbl[n][Index(a, 1)])
           /\ \A v \in Pages : v # a => TranslationOf(tbl2, v) = TranslationOf(tbl, v)
  <1>0. 1 \in 1 .. Levels /\ a \in Nat /\ 1 - 1 = 0
    BY SpaceFacts
  <1>1. Index(a, 1) \in 0 .. (Radix - 1) /\ a = Prefix(a, 1) * Radix + Index(a, 1)
    BY <1>0, PrefixFacts
  <1>2. TranslationOf(tbl2, a) = Seen(e)
    <2>1. TranslationOf(tbl2, a) = Seen(tbl2[n][Index(a, 1)])
      BY TranslationIs
    <2> QED BY <1>1, <2>1
  <1>3. TranslationOf(tbl, a) = Seen(tbl[n][Index(a, 1)])
    BY TranslationIs
  <1>4. ASSUME NEW v \in Pages, v # a PROVE TranslationOf(tbl2, v) = TranslationOf(tbl, v)
    <2>0. v \in Nat
      BY SpaceFacts
    <2>1. Index(v, 1) \in 0 .. (Radix - 1) /\ v = Prefix(v, 1) * Radix + Index(v, 1)
      BY <1>0, <2>0, PrefixFacts
    <2>2. CASE \E m \in DOMAIN tbl : L[m] = 1 /\ P[m] = Prefix(v, 1)
      <3>1. PICK m \in DOMAIN tbl : L[m] = 1 /\ P[m] = Prefix(v, 1)
        BY <2>2
      <3>2. /\ TranslationOf(tbl, v) = Seen(tbl[m][Index(v, 1)])
            /\ TranslationOf(tbl2, v) = Seen(tbl2[m][Index(v, 1)])
        BY <3>1, TranslationIs
      <3>3. ~(m = n /\ Index(v, 1) = Index(a, 1))
        BY <1>1, <1>4, <2>1, <3>1
      <3> QED BY <2>1, <3>2, <3>3
    <2>3. CASE ~ \E m \in DOMAIN tbl : L[m] = 1 /\ P[m] = Prefix(v, 1)
      BY <2>3, TranslationIs
    <2> QED BY <2>2, <2>3
  <1> QED BY <1>2, <1>3, <1>4

-----------------------------------------------------------------------------
(* The tables form a tree, when calls do not overlap *)

\* Memmaps are made and destroyed by one thread.
SingleThread == \A s, t \in Threads : s = t

\* Call c is where the digits of its address lead, and what it has read still holds.
CallPlaced(c, tbl, L, P) ==
    /\ c.pc \in {"walk", "link"} => P[c.table] = Prefix(c.addr, c.level) /\ Named(tbl, L, c.table)
    /\ c.pc = "link" => /\ P[c.new] = Prefix(c.addr, c.level - 1) /\ Blank(tbl, c.new)
                        /\ tbl[c.table][Index(c.addr, c.level)] = Zero
    /\ c.pc \in {"entry", "store"} => P[c.table] = Prefix(c.addr, 1) /\ Named(tbl, L, c.table)
    /\ c.pc = "store" => /\ c.fn = "map"
                         /\ "PRESENT" \notin tbl[c.table][Index(c.addr, 1)].flags

\* Nothing leads to table n, which a call has just been given.
Fresh(n) == \E t \in Threads : op[t].pc = "link" /\ op[t].new = n

\* The tables have their shape, calls are where they should be, and nothing but a fresh
\* table hangs loose.
Placed(L, P) ==
    /\ Leveled(L)
    /\ Shape(tables, L, P)
    /\ \A t \in Threads : CallPlaced(op[t], tables, L, P)
    /\ \A n \in DOMAIN tables : Named(tables, L, n) \/ Fresh(n)

\* The inductive invariant of the tables, when calls do not overlap.
TreeInv == \E L, P : Placed(L, P)

\* The root alone is a tree.
LEMMA InitTree ==
    ASSUME Init
    PROVE  TreeInv
  <1> DEFINE L == [n \in {Root} |-> Levels]
             P == [n \in {Root} |-> 0]
  <1>1. /\ DOMAIN tables = {Root} /\ \A t \in Threads : op[t] = NoCall
        /\ \A n \in DOMAIN tables, i \in 0 .. (Radix - 1) : tables[n][i] = Zero
    BY DEF Init
  <1>2. Leveled(L)
    <2>1. L \in [DOMAIN tables -> 1 .. Levels] /\ L[Root] = Levels
      BY <1>1, SpaceFacts
    <2>2. \A t \in Threads : CallLevels(op[t], L)
      BY <1>1 DEF NoCall, CallLevels, Root
    <2> QED BY <1>1, <2>1, <2>2 DEF Leveled
  <1>3. Shape(tables, L, P)
    <2>1. L[Root] \in 1 .. Levels /\ P[Root] * Power[L[Root]] \in Pages
      <3>1. Power[Levels] \in Nat
        BY PowerType, SpaceFacts
      <3>2. 0 * Power[Levels] = 0
        BY <3>1
      <3> QED BY <3>2, SpaceFacts
    <2>2. Named(tables, L, Root)
      BY DEF Named
    <2> QED BY <1>1, <2>1, <2>2 DEF Shape
  <1>4. Placed(L, P)
    BY <1>1, <1>2, <1>3 DEF Placed, CallPlaced, NoCall, Named
  <1> QED BY <1>4 DEF TreeInv

\* A step of the one thread that leaves the tables alone.
LEMMA LocalPlaced ==
    ASSUME SingleThread, NEW L, NEW P, Placed(L, P), NEW t \in Threads, NEW d,
           op \in [Threads -> Call], op[t].pc # "link", CallPlaced(d, tables, L, P),
           op' = [op EXCEPT ![t] = d], tables' = tables, Leveled(L)'
    PROVE  Placed(L, P)'
  <1>1. \A s \in Threads : s = t /\ op'[s] = d
    BY DEF SingleThread
  <1>2. Shape(tables', L, P) /\ \A s \in Threads : CallPlaced(op'[s], tables', L, P)
    BY <1>1 DEF Placed
  <1>3. \A n \in DOMAIN tables' : Named(tables', L, n)
    <2>1. \A n : ~Fresh(n)
      BY <1>1 DEF Fresh
    <2> QED BY <2>1 DEF Placed
  <1> QED BY <1>2, <1>3 DEF Placed

\* A step that changes neither the tables nor a call.
LEMMA IdlePlaced ==
    ASSUME NEW L, NEW P, Placed(L, P), UNCHANGED <<tables, op>>, Leveled(L)'
    PROVE  Placed(L, P)'
  <1>1. \A n : Fresh(n) => Fresh(n)'
    BY DEF Fresh
  <1> QED BY <1>1 DEF Placed

\* The walk for the next page begins at the root.
LEMMA LoopPlaced ==
    ASSUME NEW L, NEW P, NEW tbl, Shape(tbl, L, P), NEW c \in Call
    PROVE  CallPlaced(Loop(c), tbl, L, P)
  <1>1. CASE c.addr * PageBytes < c.limit
    <2>1. Loop(c) = [c EXCEPT !.pc = "walk", !.level = Levels, !.table = Root]
      BY <1>1 DEF Loop
    <2>2. /\ Loop(c).pc = "walk" /\ Loop(c).level = Levels /\ Loop(c).table = Root
          /\ Loop(c).addr = c.addr
      BY <2>1 DEF Call
    <2>3. Prefix(c.addr, Levels) = 0
      <3>1. c.addr \in Pages
        BY DEF Call
      <3>2. c.addr \in Nat
        BY <3>1, SpaceFacts
      <3> QED BY <3>1, <3>2, PrefixFacts
    <2> QED BY <2>2, <2>3 DEF CallPlaced, Shape, Named
  <1>2. CASE ~(c.addr * PageBytes < c.limit)
    <2>1. Loop(c).pc = "flush"
      BY <1>2 DEF Loop, Call
    <2> QED BY <2>1 DEF CallPlaced
  <1> QED BY <1>1, <1>2

\* A call begins at the root.
LEMMA StartPlaced ==
    ASSUME NEW L, NEW P, NEW tbl, Shape(tbl, L, P),
           NEW fn \in {"map", "unmap"}, NEW first \in Pages, NEW phys \in Pages, NEW len \in Nat,
           NEW perm \in SUBSET Flags, NEW backed \in BOOLEAN
    PROVE  CallPlaced(Start(fn, first, phys, len, perm, backed), tbl, L, P)
  <1>1. /\ Begun(fn, first, phys, len, perm, backed) \in Call
        /\ Start(fn, first, phys, len, perm, backed) =
              Loop(Begun(fn, first, phys, len, perm, backed))
    BY StartForm
  <1> QED BY <1>1, LoopPlaced

\* find_page_table goes down to the table that the entry names.
LEMMA WalkDownPlaced ==
    ASSUME SingleThread, TypeInv, NEW L, NEW P, Placed(L, P), NEW t \in Threads, op[t].pc = "walk",
           NEW e, e = tables[op[t].table][Index(op[t].addr, op[t].level)], e # Zero,
           op' = [op EXCEPT ![t] = Down(op[t], e.at)],
           UNCHANGED <<tables, used, maps, tlb, panicked>>
    PROVE  Placed(L, P)'
  <1> DEFINE c == op[t]
             d == Down(c, e.at)
             i == Index(c.addr, c.level)
  <1>1. /\ c \in Call /\ c.level \in 2 .. Levels /\ L[c.table] = c.level
        /\ c.table \in DOMAIN tables /\ i \in 0 .. (Radix - 1) /\ c.addr \in Nat
        /\ P[c.table] = Prefix(c.addr, c.level)
    BY OpFacts, SpaceFacts DEF CallLevels, Placed, CallPlaced
  <1>2. /\ e.at \in Nat /\ e.at \in DOMAIN tables /\ L[e.at] = L[c.table] - 1
        /\ P[e.at] = P[c.table] * Radix + i
    BY <1>1, EntryFacts DEF Placed, Shape
  <1>3. Prefix(c.addr, c.level - 1) = P[e.at]
    <2>1. c.level \in 1 .. Levels
      BY <1>1, SpaceFacts
    <2> QED BY <1>1, <1>2, <2>1, PrefixFacts
  <1>4. Named(tables, L, e.at)
    BY <1>1 DEF Named
  <1>5. /\ d.level = c.level - 1 /\ d.table = e.at /\ d.addr = c.addr
        /\ d.pc = IF c.level = 2 THEN "entry" ELSE "walk"
    BY <1>1, <1>2, DownCall
  <1>6. CallPlaced(d, tables, L, P)
    <2> HIDE DEF d
    <2>1. CASE c.level = 2
      BY <2>1, <1>3, <1>4, <1>5 DEF CallPlaced
    <2>2. CASE c.level # 2
      BY <2>2, <1>3, <1>4, <1>5 DEF CallPlaced
    <2> QED BY <2>1, <2>2
  <1>7. Leveled(L)'
    BY WalkDownLevels DEF Placed
  <1>8. op' = [op EXCEPT ![t] = d] /\ op \in [Threads -> Call] /\ op[t].pc # "link"
    BY DEF TypeInv
  <1> HIDE DEF d
  <1> QED BY <1>6, <1>7, <1>8, LocalPlaced

\* The prefixes when a thread in call c has got a new table.
WithPrefix(P, n, c) == [m \in 0 .. n |-> IF m = n THEN Prefix(c.addr, c.level - 1) ELSE P[m]]

\* A table for the range that call c walks through would be named by the entry it reads.
LEMMA NoTableYet ==
    ASSUME TypeInv, NEW L, NEW P, Placed(L, P), NEW c \in Call, c.level \in 2 .. Levels,
           c.table \in DOMAIN tables, L[c.table] = c.level, P[c.table] = Prefix(c.addr, c.level),
           tables[c.table][Index(c.addr, c.level)] = Zero,
           NEW m \in DOMAIN tables, Named(tables, L, m)
    PROVE  ~(L[m] = c.level - 1 /\ P[m] = Prefix(c.addr, c.level - 1))
  <1>1. SUFFICES ASSUME L[m] = c.level - 1, P[m] = Prefix(c.addr, c.level - 1) PROVE FALSE
    OBVIOUS
  <1> DEFINE i == Index(c.addr, c.level)
             p == Prefix(c.addr, c.level)
  <1>2. i \in 0 .. (Radix - 1) /\ p \in Nat /\ P[m] = p * Radix + i
    <2>1. c.level \in 1 .. Levels /\ c.level \in 0 .. Levels
      BY SpaceFacts
    <2>2. c.addr \in Pages
      BY DEF Call
    <2>3. c.addr \in Nat
      BY <2>2, SpaceFacts
    <2> QED BY <1>1, <2>1, <2>3, PrefixFacts
  <1>3. m # Root
    BY <1>1, SpaceFacts DEF Placed, Shape
  <1>4. PICK k \in DOMAIN tables, j \in 0 .. (Radix - 1) :
                  L[k] > 1 /\ tables[k][j] # Zero /\ tables[k][j].at = m
    BY <1>3 DEF Named
  <1>5. L[m] = L[k] - 1 /\ P[m] = P[k] * Radix + j /\ P[k] \in Nat /\ L[k] \in Nat
    BY <1>4, SpaceFacts DEF Placed, Shape
  <1> HIDE DEF i, p
  <1>6. P[k] = p /\ j = i
    <2>1. (P[k] * Radix + j) \div Radix = P[k] /\ (P[k] * Radix + j) % Radix = j
      BY <1>4, <1>5, DigitFacts
    <2>2. (p * Radix + i) \div Radix = p /\ (p * Radix + i) % Radix = i
      BY <1>2, DigitFacts
    <2> QED BY <1>2, <1>5, <2>1, <2>2
  <1>7. L[k] = L[c.table] /\ P[k] = P[c.table]
    BY <1>1, <1>5, <1>6, SpaceFacts DEF p
  <1>8. k = c.table
    BY <1>4, <1>7 DEF Placed, Shape
  <1> QED BY <1>4, <1>6, <1>8 DEF i

\* A range of pages begins at or before each page in it.
LEMMA PrefixInSpace ==
    ASSUME NEW a \in Pages, NEW l \in 0 .. Levels
    PROVE  Prefix(a, l) \in Nat /\ Prefix(a, l) * Power[l] \in Pages
  <1> DEFINE b == Power[l]
             q == a \div b
  <1>1. a \in Nat /\ b \in Nat \ {0} /\ SpacePages \in Nat /\ a < SpacePages
    BY PowerType, SpaceFacts DEF Pages
  <1>2. q \in Nat /\ a % b \in 0 .. (b - 1) /\ a = q * b + (a % b)
    BY <1>1, DivMod
  <1> DEFINE p == q * b
             r == a % b
  <1>3. p \in Nat /\ r \in Nat /\ a = p + r
    BY <1>1, <1>2
  <1> HIDE DEF p, r, q, b
  <1>4. p \in Pages
    BY <1>1, <1>3 DEF Pages
  <1> QED BY <1>2, <1>4 DEF p, q, b, Prefix

\* find_page_table makes a new table for the range, which had none.
LEMMA WalkNewPlaced ==
    ASSUME SingleThread, TypeInv, NEW L, NEW P, Placed(L, P), NEW t \in Threads, op[t].pc = "walk",
           NEW c, c = op[t], tables[c.table][Index(c.addr, c.level)] = Zero,
           NEW n, n = Cardinality(DOMAIN tables), n < MaxTables,
           tables' = [m \in 0 .. n |-> IF m = n THEN [i \in 0 .. (Radix - 1) |-> Zero]
                                                ELSE tables[m]],
           op' = [op EXCEPT ![t].pc = "link", ![t].new = n],
           UNCHANGED <<used, maps, tlb, panicked>>
    PROVE  Placed(WithNew(L, n, c), WithPrefix(P, n, c))'
  <1> DEFINE K == WithNew(L, n, c)
             Q == WithPrefix(P, n, c)
  <1>1. /\ Leveled(K)'
        /\ n \in Nat \ {0} /\ DOMAIN tables = 0 .. (n - 1) /\ DOMAIN tables' = 0 .. n
        /\ \A m \in DOMAIN tables : m # n /\ tables'[m] = tables[m]
        /\ \A i \in 0 .. (Radix - 1) : tables'[n][i] = Zero
    BY WalkNewLevels DEF Placed
  <1>2. /\ n \in 0 .. n /\ \A m \in 0 .. n : m # n => m \in 0 .. (n - 1)
        /\ 0 .. (n - 1) \subseteq 0 .. n
    BY <1>1
  <1>3. /\ c \in Call /\ c.level \in 2 .. Levels /\ L[c.table] = c.level /\ c.addr \in Pages
        /\ c.table \in DOMAIN tables /\ P[c.table] = Prefix(c.addr, c.level)
        /\ Named(tables, L, c.table)
    BY OpFacts DEF CallLevels, Placed, CallPlaced
  <1>4. /\ c.level - 1 \in 0 .. Levels /\ Prefix(c.addr, c.level - 1) \in Nat
        /\ Prefix(c.addr, c.level - 1) * Power[c.level - 1] \in Pages
    <2>1. \A l \in 2 .. Levels : l - 1 \in 0 .. Levels
      BY VmmAssumption
    <2> QED BY <1>3, <2>1, PrefixInSpace
  <1>5. K[n] = c.level - 1 /\ \A m \in DOMAIN tables : K[m] = L[m]
    BY <1>1, <1>2 DEF WithNew
  <1>6. Q[n] = Prefix(c.addr, c.level - 1) /\ \A m \in DOMAIN tables : Q[m] = P[m]
    BY <1>1, <1>2 DEF WithPrefix
  <1>7. Q \in [0 .. n -> Nat]
    BY <1>1, <1>2, <1>4 DEF WithPrefix, Placed, Shape
  <1> HIDE DEF K, Q
  <1>8. \A m \in DOMAIN tables : Named(tables, L, m)
    <2>1. \A m : ~Fresh(m)
      BY DEF Fresh, SingleThread
    <2> QED BY <2>1 DEF Placed
  <1>9. \A m \in DOMAIN tables : Named(tables', K, m)
    <2> SUFFICES ASSUME NEW m \in DOMAIN tables, m # Root PROVE Named(tables', K, m)
      BY DEF Named
    <2>1. PICK k \in DOMAIN tables, i \in 0 .. (Radix - 1) :
              L[k] > 1 /\ tables[k][i] # Zero /\ tables[k][i].at = m
      BY <1>8 DEF Named
    <2>2. k \in DOMAIN tables' /\ K[k] = L[k] /\ tables'[k][i] = tables[k][i]
      BY <1>1, <1>2, <1>5
    <2> QED BY <2>1, <2>2 DEF Named
  <1>10. Blank(tables', n)
    BY <1>1 DEF Blank
  <1>11. Shape(tables', K, Q)
    <2>1. Root \in DOMAIN tables' /\ K[Root] = Levels /\ Q[Root] = 0
      <3>1. Root \in DOMAIN tables
        BY DEF Placed, Shape
      <3> QED BY <3>1, <1>1, <1>2, <1>5, <1>6 DEF Placed, Shape
    <2>2. K \in [DOMAIN tables' -> 1 .. Levels] /\ Q \in [DOMAIN tables' -> Nat]
      BY <1>1, <1>7 DEF Leveled
    <2>3. ASSUME NEW m \in DOMAIN tables', NEW i \in 0 .. (Radix - 1), K[m] > 1, tables'[m][i] # Zero
          PROVE  /\ tables'[m][i].at \in DOMAIN tables' /\ "PRESENT" \in tables'[m][i].flags
                 /\ K[tables'[m][i].at] = K[m] - 1 /\ Q[tables'[m][i].at] = Q[m] * Radix + i
      <3>1. m \in DOMAIN tables /\ tables'[m][i] = tables[m][i] /\ K[m] = L[m] /\ Q[m] = P[m]
        BY <2>3, <1>1, <1>2, <1>5, <1>6
      <3>2. /\ tables[m][i].at \in DOMAIN tables /\ "PRESENT" \in tables[m][i].flags
            /\ L[tables[m][i].at] = L[m] - 1 /\ P[tables[m][i].at] = P[m] * Radix + i
        BY <2>3, <3>1 DEF Placed, Shape
      <3> QED BY <3>1, <3>2, <1>1, <1>2, <1>5, <1>6
    <2>4. ASSUME NEW m \in DOMAIN tables', NEW k \in DOMAIN tables', K[m] = K[k], Q[m] = Q[k]
          PROVE  m = k
      <3>0. \A x \in DOMAIN tables : ~(K[x] = K[n] /\ Q[x] = Q[n])
        <4>1. \A x \in DOMAIN tables : ~(L[x] = c.level - 1 /\ P[x] = Prefix(c.addr, c.level - 1))
          BY <1>3, <1>8, NoTableYet
        <4> QED BY <4>1, <1>5, <1>6
      <3>1. CASE m = n /\ k # n
        BY <2>4, <3>0, <3>1, <1>1, <1>2
      <3>2. CASE m # n /\ k = n
        BY <2>4, <3>0, <3>2, <1>1, <1>2
      <3>3. CASE m # n /\ k # n
        <4>1. m \in DOMAIN tables /\ k \in DOMAIN tables
          BY <3>3, <1>1, <1>2
        <4>2. L[m] = L[k] /\ P[m] = P[k]
          BY <4>1, <2>4, <1>5, <1>6
        <4> QED BY <4>1, <4>2 DEF Placed, Shape
      <3> QED BY <3>1, <3>2, <3>3
    <2>5. ASSUME NEW m \in DOMAIN tables' PROVE Q[m] * Power[K[m]] \in Pages
      <3>1. CASE m = n
        BY <3>1, <1>4, <1>5, <1>6
      <3>2. CASE m # n
        BY <3>2, <1>1, <1>2, <1>5, <1>6 DEF Placed, Shape
      <3> QED BY <3>1, <3>2
    <2>6. \A m \in DOMAIN tables' : Named(tables', K, m) \/ Blank(tables', m)
      BY <1>1, <1>2, <1>9, <1>10
    <2> QED BY <2>1, <2>2, <2>3, <2>4, <2>5, <2>6 DEF Shape
  <1>12. /\ op'[t].pc = "link" /\ op'[t].new = n /\ op'[t].table = c.table
         /\ op'[t].level = c.level /\ op'[t].addr = c.addr
    BY <1>3 DEF TypeInv, Call
  <1>13. \A s \in Threads : CallPlaced(op'[s], tables', K, Q)
    <2>1. tables'[c.table] = tables[c.table] /\ Q[c.table] = P[c.table]
      BY <1>1, <1>3, <1>6
    <2>2. CallPlaced(op'[t], tables', K, Q)
      BY <1>3, <1>6, <1>9, <1>10, <1>12, <2>1 DEF CallPlaced
    <2> QED BY <2>2 DEF SingleThread
  <1>14. \A m \in DOMAIN tables' : Named(tables', K, m) \/ Fresh(m)'
    <2>1. Fresh(n)'
      BY <1>12 DEF Fresh
    <2> QED BY <2>1, <1>1, <1>2, <1>9
  <1> QED BY <1>1, <1>11, <1>13, <1>14 DEF Placed, K, Q

\* An entry that names the new table keeps the shape.
LEMMA LinkPlaced ==
    ASSUME SingleThread, TypeInv, NEW L, NEW P, Placed(L, P), NEW t \in Threads, Link(t)
    PROVE  /\ Placed(L, P)' /\ DOMAIN tables' = DOMAIN tables
           /\ \A m \in DOMAIN tables, j \in 0 .. (Radix - 1) : L[m] = 1 => tables'[m][j] = tables[m][j]
  <1> DEFINE c == op[t]
             i == Index(c.addr, c.level)
             e == Entry(c.new, {"PRESENT", "WRITE"})
             d == Down(c, c.new)
  <1>1. /\ c \in Call /\ c.level \in 2 .. Levels /\ L[c.table] = c.level /\ L[c.new] = c.level - 1
        /\ c.table \in DOMAIN tables /\ c.new \in DOMAIN tables /\ c.new \in Nat /\ c.addr \in Nat
    BY OpFacts DEF CallLevels, Link, Placed
  <1>2. /\ P[c.table] = Prefix(c.addr, c.level) /\ Named(tables, L, c.table)
        /\ P[c.new] = Prefix(c.addr, c.level - 1) /\ Blank(tables, c.new)
        /\ tables[c.table][i] = Zero
    BY DEF Link, Placed, CallPlaced
  <1>3. i \in 0 .. (Radix - 1) /\ P[c.new] = P[c.table] * Radix + i
    <2>1. c.level \in 1 .. Levels
      BY <1>1, SpaceFacts
    <2> QED BY <1>1, <1>2, <2>1, PrefixFacts
  <1>4. e \in Entries /\ e.at = c.new /\ "PRESENT" \in e.flags /\ e # Zero
    <2>1. PICK k \in 1 .. MaxTables : DOMAIN tables = 0 .. (k - 1)
      BY TableCount DEF TypeInv
    <2>2. c.new \in 0 .. (MaxTables - 1)
      BY <2>1, <1>1, VmmAssumption
    <2>3. c.new \in Pages
      BY <2>2, SpaceFacts
    <2>4. e \in Entries /\ e.at = c.new /\ "PRESENT" \in e.flags
      BY <2>3 DEF Entries, Entry, Flags
    <2> QED BY <2>4, ZeroAbsent
  <1>5. /\ d.level = c.level - 1 /\ d.table = c.new /\ d.addr = c.addr
        /\ d.pc = IF c.level = 2 THEN "entry" ELSE "walk"
    BY <1>1, DownCall
  <1>6. tables' = Stored(tables, c.table, i, e) /\ op' = [op EXCEPT ![t] = d]
    BY DEF Link, Stored
  <1> HIDE DEF d, e, i
  <1>7. /\ DOMAIN tables' = DOMAIN tables
        /\ \A m \in DOMAIN tables, j \in 0 .. (Radix - 1) :
              tables'[m][j] = IF m = c.table /\ j = i THEN e ELSE tables[m][j]
    <2>1. TablesOK /\ c.table \in DOMAIN tables /\ tables' = Stored(tables, c.table, i, e)
      BY <1>1, <1>6 DEF TypeInv
    <2> HIDE DEF c
    <2> QED BY <1>3, <1>4, <2>1, SetEntry
  <1>8. Leveled(L)'
    BY LinkLevels DEF Placed
  <1>9. \A n : Named(tables, L, n) => Named(tables', L, n)
    <2> SUFFICES ASSUME NEW n, n # Root, Named(tables, L, n) PROVE Named(tables', L, n)
      BY DEF Named
    <2>1. PICK m \in DOMAIN tables, j \in 0 .. (Radix - 1) :
                   L[m] > 1 /\ tables[m][j] # Zero /\ tables[m][j].at = n
      BY DEF Named
    <2>2. tables'[m][j] = tables[m][j]
      BY <2>1, <1>2, <1>7
    <2> QED BY <2>1, <2>2, <1>7 DEF Named
  <1>10. Named(tables', L, c.new)
    <2>1. tables'[c.table][i] = e /\ L[c.table] > 1
      BY <1>1, <1>3, <1>7
    <2> QED BY <2>1, <1>1, <1>3, <1>4, <1>7 DEF Named
  <1>11. \A n \in DOMAIN tables : Named(tables', L, n)
    <2>1. \A n : Fresh(n) => n = c.new
      BY DEF Fresh, SingleThread
    <2> QED BY <2>1, <1>9, <1>10 DEF Placed
  <1>12. Shape(tables', L, P)
    <2>1. ASSUME NEW m \in DOMAIN tables, NEW j \in 0 .. (Radix - 1), L[m] > 1, tables'[m][j] # Zero
          PROVE  /\ tables'[m][j].at \in DOMAIN tables /\ "PRESENT" \in tables'[m][j].flags
                 /\ L[tables'[m][j].at] = L[m] - 1 /\ P[tables'[m][j].at] = P[m] * Radix + j
      <3>1. CASE m = c.table /\ j = i
        BY <3>1, <2>1, <1>1, <1>3, <1>4, <1>7
      <3>2. CASE ~(m = c.table /\ j = i)
        <4>1. tables'[m][j] = tables[m][j]
          BY <3>2, <1>7
        <4> QED BY <4>1, <2>1 DEF Placed, Shape
      <3> QED BY <3>1, <3>2
    <2> QED BY <2>1, <1>7, <1>11 DEF Placed, Shape
  <1>13. CallPlaced(d, tables', L, P)
    <2>1. CASE c.level = 2
      BY <2>1, <1>2, <1>5, <1>10 DEF CallPlaced
    <2>2. CASE c.level # 2
      BY <2>2, <1>2, <1>5, <1>10 DEF CallPlaced
    <2> QED BY <2>1, <2>2
  <1>14. \A s \in Threads : CallPlaced(op'[s], tables', L, P)
    BY <1>6, <1>13 DEF SingleThread, TypeInv
  <1>15. Placed(L, P)'
    BY <1>7, <1>8, <1>11, <1>12, <1>14 DEF Placed
  <1>16. \A m \in DOMAIN tables, j \in 0 .. (Radix - 1) : L[m] = 1 => tables'[m][j] = tables[m][j]
    BY <1>1, <1>7
  <1> QED BY <1>7, <1>15, <1>16

\* An entry of a last table keeps the shape.
LEMMA StorePlaced ==
    ASSUME SingleThread, TypeInv, NEW L, NEW P, Placed(L, P), NEW t \in Threads,
           op[t].pc \in {"entry", "store"}, NEW e \in Entries, Store(t, e)
    PROVE  /\ Placed(L, P)' /\ DOMAIN tables' = DOMAIN tables
           /\ op[t].table \in DOMAIN tables /\ L[op[t].table] = 1
           /\ P[op[t].table] = Prefix(op[t].addr, 1)
           /\ \A m \in DOMAIN tables, j \in 0 .. (Radix - 1) :
                 tables'[m][j] = IF m = op[t].table /\ j = Index(op[t].addr, 1) THEN e
                                                                               ELSE tables[m][j]
  <1> DEFINE c == op[t]
             i == Index(c.addr, 1)
             d == Loop(Advanced(c))
  <1>1. /\ c \in Call /\ L[c.table] = 1 /\ c.table \in DOMAIN tables
        /\ P[c.table] = Prefix(c.addr, 1) /\ Named(tables, L, c.table)
    BY OpFacts DEF CallLevels, Placed, CallPlaced
  <1>2. i \in 0 .. (Radix - 1)
    <2>1. 1 \in 1 .. Levels
      BY SpaceFacts
    <2> QED BY <2>1, OpFacts DEF Placed
  <1>3. tables' = Stored(tables, c.table, i, e) /\ op' = [op EXCEPT ![t] = d]
    BY DEF Store, Stored, Advanced
  <1>4. Advanced(c) \in Call
    BY <1>1, AdvancedCall
  <1> HIDE DEF i
  <1>5. /\ DOMAIN tables' = DOMAIN tables
        /\ \A m \in DOMAIN tables, j \in 0 .. (Radix - 1) :
              tables'[m][j] = IF m = c.table /\ j = i THEN e ELSE tables[m][j]
    <2>1. TablesOK /\ c.table \in DOMAIN tables /\ tables' = Stored(tables, c.table, i, e)
      BY <1>1, <1>3 DEF TypeInv
    <2> HIDE DEF c
    <2> QED BY <1>2, <2>1, SetEntry
  <1>6. Leveled(L)'
    BY StoreLevels DEF Placed
  <1>7. \A m \in DOMAIN tables, j \in 0 .. (Radix - 1) : L[m] > 1 => tables'[m][j] = tables[m][j]
    BY <1>1, <1>5
  <1>8. \A n : Named(tables, L, n) => Named(tables', L, n)
    BY <1>5, <1>7 DEF Named
  <1>9. \A n \in DOMAIN tables : Named(tables', L, n)
    <2>1. \A n : ~Fresh(n)
      BY DEF Fresh, SingleThread
    <2> QED BY <2>1, <1>8 DEF Placed
  <1>10. Shape(tables', L, P)
    BY <1>5, <1>7, <1>9 DEF Placed, Shape
  <1>11. CallPlaced(d, tables', L, P)
    BY <1>4, <1>10, LoopPlaced
  <1> HIDE DEF d
  <1>12. \A s \in Threads : CallPlaced(op'[s], tables', L, P)
    BY <1>3, <1>11 DEF SingleThread, TypeInv
  <1>13. Placed(L, P)'
    BY <1>5, <1>6, <1>9, <1>10, <1>12 DEF Placed
  <1> QED BY <1>1, <1>5, <1>13 DEF i

\* A range of pages and its frames end before the address space: with the last page,
\* addr_limit or the address after it would wrap to 0.
InSpace(first, phys, len) ==
    /\ first * PageBytes + len <= (SpacePages - 1) * PageBytes
    /\ phys * PageBytes + len <= SpacePages * PageBytes

\* The ranges that are asked for do, also where map picks their frames, and what is mapped
\* is mapped as present.
RangesInSpace ==
    /\ NumFrames + KernelBase + 1 < SpacePages
    /\ \A r \in Requests :
          /\ "PRESENT" \in r.perm
          /\ r.fn = "map_direct" => InSpace(r.addr, r.p_addr, r.len)
          /\ r.fn = "map" /\ r.unbacked /\ r.phys =>
                InSpace(IF r.kernel THEN PhysToVirt(r.addr) ELSE r.addr, r.addr, r.len)
          /\ r.fn = "map" /\ ~r.unbacked /\ r.kernel /\ r.addr > KernelBase =>
                InSpace(r.addr, VirtToPhys(r.addr), r.len)

\* The frames that map picks, rounded up to a page, end before the address space.
LEMMA PickedInSpace ==
    ASSUME RangesInSpace, NEW len \in Nat, Fits(len \div PageBytes) # {}
    PROVE  LET f == Min(Fits(len \div PageBytes)) IN InSpace(PhysToVirt(f), f, len)
  <1> DEFINE n == len \div PageBytes
             f == Min(Fits(n))
             k == Max({n, 1})
             b == PageBytes
  <1>1. b \in Nat \ {0} /\ KernelBase \in Nat /\ NumFrames \in Nat /\ SpacePages \in Nat \ {0}
    BY VmmAssumption, SpaceAssumption, SpaceFacts
  <1>2. n \in Nat /\ len = n * b + (len % b) /\ len % b \in 0 .. (b - 1)
    BY <1>1, DivMod
  <1>3. /\ f \in 0 .. (NumFrames - 1) /\ k \in Nat /\ k >= 1 /\ k >= n
        /\ \A g \in f .. (f + k - 1) : g \in 0 .. (NumFrames - 1)
    BY <1>2, FitsFacts
  <1> HIDE DEF f, k, n, b
  <1>4. f \in Nat /\ f + n <= NumFrames
    <2>1. f + k - 1 \in f .. (f + k - 1)
      BY <1>1, <1>3
    <2>2. f + k - 1 \in 0 .. (NumFrames - 1)
      BY <2>1, <1>3
    <2> QED BY <2>2, <1>1, <1>2, <1>3
  <1>5. len < (n + 1) * b
    <2> DEFINE p == n * b
               r == len % b
    <2>1. p \in Nat /\ r \in 0 .. (b - 1) /\ len = p + r /\ (n + 1) * b = p + b
      BY <1>1, <1>2
    <2> HIDE DEF p, r
    <2>2. len < p + b
      BY <2>1, <1>1
    <2> QED BY <2>1, <2>2
  <1>6. PhysToVirt(f) = f + KernelBase
    <2>1. f + KernelBase \in Nat /\ f + KernelBase < SpacePages
      BY <1>1, <1>2, <1>4 DEF RangesInSpace
    <2>2. \A x, y \in Nat : x < y => x % y = x
      OBVIOUS
    <2> QED BY <2>1, <2>2, <1>1 DEF PhysToVirt
  <1>7. \A x, y, z \in Nat : (x + y + 1) <= z => x * b + (y + 1) * b <= z * b
    BY <1>1
  <1>8. (f + KernelBase) * b + (n + 1) * b <= (SpacePages - 1) * b
    <2>1. (f + KernelBase) + n + 1 <= SpacePages - 1 /\ SpacePages - 1 \in Nat /\ f + KernelBase \in Nat
      BY <1>1, <1>2, <1>4 DEF RangesInSpace
    <2> QED BY <2>1, <1>2, <1>7
  <1>9. f * b + (n + 1) * b <= SpacePages * b
    <2>1. f + n + 1 <= SpacePages
      BY <1>1, <1>2, <1>4 DEF RangesInSpace
    <2> QED BY <2>1, <1>1, <1>2, <1>4, <1>7
  <1>10. InSpace(PhysToVirt(f), f, len)
    <2> DEFINE u == (f + KernelBase) * b
               w == f * b
               x == (n + 1) * b
               y == (SpacePages - 1) * b
               z == SpacePages * b
    <2>1. u \in Nat /\ w \in Nat /\ x \in Nat /\ y \in Int /\ z \in Nat
      BY <1>1, <1>2, <1>4
    <2>2. len < x /\ u + x <= y /\ w + x <= z
      BY <1>5, <1>8, <1>9
    <2> HIDE DEF u, w, x, y, z
    <2>3. u + len <= y /\ w + len <= z
      BY <2>1, <2>2
    <2> QED BY <2>3, <1>6 DEF InSpace, u, w, x, y, z, b
  <1> QED BY <1>10 DEF f, n

\* The call that a request begins, unless the kernel panics.
Begins(t, r) ==
    \E first \in Pages, phys \in Pages, backed \in BOOLEAN :
        /\ op' = [op EXCEPT ![t] = Start("map", first, phys, r.len, r.perm, backed)]
        /\ panicked' = panicked
        /\ RangesInSpace => InSpace(first, phys, r.len)

\* What map and map_direct do.
LEMMA MapForm ==
    ASSUME NEW t \in Threads, NEW r \in Requests, Map(t, r) \/ MapDirect(t, r)
    PROVE  /\ UNCHANGED <<tables, maps>>
           /\ r.len \in Nat /\ r.perm \in SUBSET Flags
           /\ Begins(t, r) \/ (op' = op /\ panicked' # "no")
  <1>1. /\ r.addr \in Pages /\ r.len \in Nat /\ r.perm \in SUBSET Flags /\ r.p_addr \in Pages
    BY SpaceAssumption
  <1>2. \A p \in Pages : PhysToVirt(p) \in Pages /\ VirtToPhys(p) \in Pages
    <2>1. \A p \in Pages : p + KernelBase \in Int /\ p - KernelBase \in Int
      BY SpaceFacts, SpaceAssumption
    <2> QED BY <2>1, SpaceFacts DEF PhysToVirt, VirtToPhys
  <1>3. \A why \in {"unimplemented", "oom", "assert", "remap", "heap"} :
            Panic(why) => UNCHANGED <<tables, maps>> /\ op' = op /\ panicked' # "no"
    BY DEF Panic
  <1>4. CASE Map(t, r) /\ ~r.unbacked /\ r.addr = 0 /\ MapAnywhere(t, r)
    <2> DEFINE n == r.len \div PageBytes
               f == Min(Fits(n))
    <2>1. CASE /\ Fits(n) # {}
               /\ op' = [op EXCEPT ![t] = Start("map", PhysToVirt(f), f, r.len, r.perm, TRUE)]
               /\ UNCHANGED <<tables, maps, tlb, panicked>>
      <3>1. n \in Nat
        BY <1>1, VmmAssumption, DivMod
      <3>2. f \in Pages
        BY <3>1, <2>1, FitsFacts, SpaceFacts
      <3>3. RangesInSpace => InSpace(PhysToVirt(f), f, r.len)
        BY <1>1, <2>1, PickedInSpace
      <3> HIDE DEF f, n
      <3>4. PhysToVirt(f) \in Pages
        BY <3>2, <1>2
      <3>5. Begins(t, r)
        BY <3>2, <3>3, <3>4, <2>1 DEF Begins
      <3> QED BY <3>5, <2>1, <1>1
    <2>2. CASE Panic("unimplemented") \/ Panic("oom")
      BY <2>2, <1>1, <1>3
    <2> QED BY <1>4, <2>1, <2>2 DEF MapAnywhere
  <1>5. CASE Map(t, r) /\ ~r.unbacked /\ r.addr # 0 /\ MapAt(t, r)
    <2>1. CASE /\ r.kernel /\ r.addr > KernelBase
               /\ op' = [op EXCEPT ![t] = Start("map", r.addr, VirtToPhys(r.addr), r.len, r.perm, TRUE)]
               /\ UNCHANGED <<tables, used, maps, tlb, panicked>>
      <3>1. RangesInSpace => InSpace(r.addr, VirtToPhys(r.addr), r.len)
        BY <1>5, <2>1 DEF RangesInSpace, Map
      <3>2. Begins(t, r)
        BY <3>1, <2>1, <1>1, <1>2 DEF Begins
      <3> QED BY <3>2, <2>1, <1>1
    <2>2. CASE Panic("assert") \/ Panic("unimplemented")
      BY <2>2, <1>1, <1>3
    <2> QED BY <1>5, <2>1, <2>2 DEF MapAt
  <1>6. CASE Map(t, r) /\ r.unbacked /\ MapUnbacked(t, r)
    <2> DEFINE first == IF r.kernel THEN PhysToVirt(r.addr) ELSE r.addr
    <2>1. CASE /\ r.phys
               /\ op' = [op EXCEPT ![t] = Start("map", first, r.addr, r.len, r.perm, FALSE)]
               /\ UNCHANGED <<tables, used, maps, tlb, panicked>>
      <3>1. RangesInSpace => InSpace(first, r.addr, r.len)
        BY <1>6, <2>1 DEF RangesInSpace, Map
      <3>2. first \in Pages
        BY <1>1, <1>2
      <3> HIDE DEF first
      <3>3. Begins(t, r)
        BY <3>1, <3>2, <2>1, <1>1 DEF Begins
      <3> QED BY <3>3, <2>1, <1>1
    <2>2. CASE Panic("unimplemented")
      BY <2>2, <1>1, <1>3
    <2> QED BY <1>6, <2>1, <2>2 DEF MapUnbacked
  <1>7. CASE MapDirect(t, r)
    <2>1. RangesInSpace => InSpace(r.addr, r.p_addr, r.len)
      BY <1>7 DEF RangesInSpace, MapDirect
    <2>2. /\ op' = [op EXCEPT ![t] = Start("map", r.addr, r.p_addr, r.len, r.perm, FALSE)]
          /\ UNCHANGED <<tables, maps, panicked>>
      BY <1>7 DEF MapDirect
    <2>3. Begins(t, r)
      BY <1>1, <2>1, <2>2 DEF Begins
    <2> QED BY <1>1, <2>2, <2>3
  <1> QED BY <1>4, <1>5, <1>6, <1>7 DEF Map

\* Every step but a store of a page's entry keeps the tree and every translation.
LEMMA TreeKeeps ==
    ASSUME SingleThread, TypeInv, TreeInv, [Next]_vars,
           ~ \E t \in Threads : MapPage(t) \/ UnmapPage(t)
    PROVE  TreeInv' /\ \A v \in Pages : TranslationOf(tables', v) = TranslationOf(tables, v)
  <1> DEFINE Keeps == TreeInv' /\ \A v \in Pages : TranslationOf(tables', v) = TranslationOf(tables, v)
  <1>1. PICK L, P : Placed(L, P)
    BY DEF TreeInv
  <1>2. Leveled(L) /\ Shape(tables, L, P) /\ op \in [Threads -> Call]
    BY <1>1 DEF Placed, TypeInv
  <1>3. ASSUME tables' = tables, Placed(L, P)' PROVE Keeps
    BY <1>3 DEF TreeInv
  <1>4. ASSUME tables' = tables, op' = op PROVE Keeps
    <2>1. Leveled(L)'
      BY <1>2, <1>4 DEF Leveled
    <2>2. Placed(L, P)'
      BY <1>1, <1>4, <2>1, IdlePlaced
    <2> QED BY <1>3, <1>4, <2>2
  <1>5. ASSUME NEW t \in Threads, op[t].pc # "link", NEW d, CallPlaced(d, tables, L, P),
               op' = [op EXCEPT ![t] = d], tables' = tables, Leveled(L)'
        PROVE  Keeps
    <2>1. Placed(L, P)'
      BY <1>1, <1>2, <1>5, LocalPlaced
    <2> QED BY <1>3, <1>5, <2>1
  <1> HIDE DEF Keeps
  <1>6. ASSUME NEW t \in Threads, NEW r \in Requests, Map(t, r) \/ MapDirect(t, r) PROVE Keeps
    <2>1. Leveled(L)'
      BY <1>2, <1>6, MapLevels, MapDirectLevels
    <2>2. op[t].pc # "link" /\ tables' = tables /\ r.len \in Nat /\ r.perm \in SUBSET Flags
      BY <1>6, MapForm DEF Map, MapDirect, Idle
    <2>3. CASE op' = op
      BY <1>4, <2>2, <2>3
    <2>4. CASE Begins(t, r)
      <3>1. PICK first \in Pages, phys \in Pages, backed \in BOOLEAN :
                op' = [op EXCEPT ![t] = Start("map", first, phys, r.len, r.perm, backed)]
        BY <2>4 DEF Begins
      <3>2. CallPlaced(Start("map", first, phys, r.len, r.perm, backed), tables, L, P)
        BY <1>2, <2>2, StartPlaced
      <3> QED BY <1>5, <2>1, <2>2, <3>1, <3>2
    <2> QED BY <1>6, <2>3, <2>4, MapForm
  <1>7. ASSUME NEW t \in Threads, NEW m \in maps, Unmap(t, m) PROVE Keeps
    <2>1. Leveled(L)'
      BY <1>2, <1>7, UnmapLevels
    <2>2. /\ op[t].pc # "link" /\ tables' = tables /\ m.addr \in Pages /\ m.len \in Nat
          /\ m.backed \in BOOLEAN
      BY <1>7 DEF Unmap, Idle, TypeInv, Memmaps
    <2>3. op' = [op EXCEPT ![t] = Start("unmap", m.addr, 0, m.len, {}, m.backed)]
      BY <1>7 DEF Unmap
    <2>4. CallPlaced(Start("unmap", m.addr, 0, m.len, {}, m.backed), tables, L, P)
      <3>1. 0 \in Pages /\ {} \in SUBSET Flags
        BY SpaceFacts
      <3> QED BY <1>2, <2>2, <3>1, StartPlaced
    <2> QED BY <1>5, <2>1, <2>2, <2>3, <2>4
  <1>8. ASSUME NEW t \in Threads, Walk(t) PROVE Keeps
    <2> DEFINE c == op[t]
               e == tables[c.table][Index(c.addr, c.level)]
               n == Cardinality(DOMAIN tables)
    <2>1. CASE /\ e # Zero
               /\ op' = [op EXCEPT ![t] = Down(c, e.at)]
               /\ UNCHANGED <<tables, used, maps, tlb, panicked>>
      <3>1. op[t].pc = "walk"
        BY <1>8 DEF Walk
      <3>2. Placed(L, P)'
        BY <1>1, <2>1, <3>1, WalkDownPlaced
      <3> QED BY <1>3, <2>1, <3>2
    <2>2. CASE /\ e = Zero /\ n < MaxTables
               /\ tables' = [m \in 0 .. n |-> IF m = n THEN [i \in 0 .. (Radix - 1) |-> Zero]
                                                       ELSE tables[m]]
               /\ op' = [op EXCEPT ![t].pc = "link", ![t].new = n]
               /\ UNCHANGED <<used, maps, tlb, panicked>>
      <3>1. op[t].pc = "walk"
        BY <1>8 DEF Walk
      <3>2. PICK d, k : d = c /\ k = n
        OBVIOUS
      <3> HIDE DEF n
      <3>3. tables[d.table][Index(d.addr, d.level)] = Zero
        BY <2>2, <3>2
      <3>4. Placed(WithNew(L, k, d), WithPrefix(P, k, d))'
        BY <1>1, <2>2, <3>1, <3>2, <3>3, WalkNewPlaced DEF n
      <3>5. /\ k \in Nat \ {0} /\ DOMAIN tables = 0 .. (k - 1) /\ DOMAIN tables' = 0 .. k
            /\ \A m \in DOMAIN tables : m # k /\ tables'[m] = tables[m]
            /\ \A i \in 0 .. (Radix - 1) : tables'[k][i] = Zero
        BY <1>2, <2>2, <3>1, <3>2, WalkNewLevels DEF n
      <3>6. DOMAIN tables \subseteq DOMAIN tables' /\ DOMAIN tables' \ DOMAIN tables = {k}
        BY <3>5
      <3> DEFINE K == WithNew(L, k, d)
                 Q == WithPrefix(P, k, d)
      <3>7. \A m \in DOMAIN tables : K[m] = L[m] /\ Q[m] = P[m]
        BY <3>5, <3>6 DEF WithNew, WithPrefix
      <3> HIDE DEF K, Q
      <3>8. Shape(tables', K, Q)
        BY <3>4 DEF Placed, K, Q
      <3>9. /\ \A m \in DOMAIN tables' \ DOMAIN tables : Blank(tables', m)
            /\ \A m \in DOMAIN tables, i \in 0 .. (Radix - 1) : L[m] = 1 => tables'[m][i] = tables[m][i]
        BY <3>5, <3>6 DEF Blank
      <3>10. \A v \in Pages : TranslationOf(tables', v) = TranslationOf(tables, v)
        BY <1>2, <3>6, <3>7, <3>8, <3>9, SameTranslation
      <3>11. TreeInv'
        BY <3>4 DEF TreeInv
      <3> QED BY <3>10, <3>11 DEF Keeps
    <2>3. CASE Panic("heap")
      BY <1>4, <2>3 DEF Panic
    <2> QED BY <1>8, <2>1, <2>2, <2>3 DEF Walk
  <1>9. ASSUME NEW t \in Threads, Link(t) PROVE Keeps
    <2>1. /\ Placed(L, P)' /\ DOMAIN tables' = DOMAIN tables
          /\ \A m \in DOMAIN tables, j \in 0 .. (Radix - 1) : L[m] = 1 => tables'[m][j] = tables[m][j]
      BY <1>1, <1>9, LinkPlaced
    <2>2. Shape(tables', L, P)
      BY <2>1 DEF Placed
    <2>3. \A v \in Pages : TranslationOf(tables', v) = TranslationOf(tables, v)
      BY <1>2, <2>1, <2>2, SameTranslation
    <2>4. TreeInv'
      BY <2>1 DEF TreeInv
    <2> QED BY <2>3, <2>4 DEF Keeps
  <1>10. ASSUME NEW t \in Threads, TestEntry(t) PROVE Keeps
    <2> DEFINE c == op[t]
               d == [c EXCEPT !.pc = "store"]
    <2>1. CASE Panic("remap")
      BY <1>4, <2>1 DEF Panic
    <2>2. CASE /\ "PRESENT" \notin tables[c.table][Index(c.addr, 1)].flags
               /\ op' = [op EXCEPT ![t].pc = "store"]
               /\ UNCHANGED <<tables, used, maps, tlb, panicked>>
      <3>1. Leveled(L)'
        BY <1>2, <1>10, TestEntryLevels
      <3>2. op' = [op EXCEPT ![t] = d] /\ op[t].pc = "entry" /\ c.fn = "map" /\ c \in Call
        BY <2>2, <1>2, <1>10 DEF TestEntry
      <3>3. d.pc = "store" /\ d.fn = "map" /\ d.table = c.table /\ d.addr = c.addr
        BY <3>2 DEF Call
      <3>4. CallPlaced(c, tables, L, P)
        BY <1>1 DEF Placed
      <3> HIDE DEF d
      <3>5. CallPlaced(d, tables, L, P)
        BY <2>2, <3>2, <3>3, <3>4 DEF CallPlaced
      <3> QED BY <1>5, <2>2, <3>1, <3>2, <3>5
    <2> QED BY <1>10, <2>1, <2>2 DEF TestEntry
  <1>11. ASSUME NEW t \in Threads, Flush(t) PROVE Keeps
    <2>1. Leveled(L)'
      BY <1>2, <1>11, FlushLevels
    <2>2. op' = [op EXCEPT ![t] = NoCall] /\ tables' = tables /\ op[t].pc = "flush"
      BY <1>11 DEF Flush
    <2>3. CallPlaced(NoCall, tables, L, P)
      BY DEF CallPlaced, NoCall
    <2> QED BY <1>5, <2>1, <2>2, <2>3
  <1>12. ASSUME UNCHANGED vars \/ \E v \in Pages : Access(v) PROVE Keeps
    <2>1. tables' = tables /\ op' = op
      BY <1>12 DEF vars, Access
    <2> QED BY <1>4, <2>1
  <1>13. Keeps
    <2>1. CASE Next
      <3>1. CASE \E t \in Threads, r \in Requests : Map(t, r) \/ MapDirect(t, r)
        BY <1>6, <3>1
      <3>2. CASE \E t \in Threads : \E m \in maps : Unmap(t, m)
        BY <1>7, <3>2
      <3>3. CASE \E t \in Threads : Walk(t) \/ Link(t) \/ TestEntry(t) \/ Flush(t)
        BY <1>8, <1>9, <1>10, <1>11, <3>3
      <3>4. CASE \E v \in Pages : Access(v)
        BY <1>12, <3>4
      <3> QED BY <2>1, <3>1, <3>2, <3>3, <3>4 DEF Next, Step
    <2> QED BY <1>12, <2>1
  <1> QED BY <1>13 DEF Keeps

\* Storing a page's entry keeps the tree, and changes the translation of that page only.
LEMMA TreeStores ==
    ASSUME SingleThread, TypeInv, TreeInv, NEW t \in Threads, op[t].pc \in {"entry", "store"},
           NEW e \in Entries, Store(t, e)
    PROVE  /\ TreeInv' /\ op[t].addr \in Pages
           /\ TranslationOf(tables', op[t].addr) = Seen(e)
           /\ op[t].pc = "store" => TranslationOf(tables, op[t].addr) = Zero
           /\ \A v \in Pages : v # op[t].addr => TranslationOf(tables', v) = TranslationOf(tables, v)
  <1>1. PICK L, P : Placed(L, P)
    BY DEF TreeInv
  <1>2. PICK a, n : a = op[t].addr /\ n = op[t].table
    OBVIOUS
  <1>3. /\ Placed(L, P)' /\ DOMAIN tables' = DOMAIN tables
        /\ n \in DOMAIN tables /\ L[n] = 1 /\ P[n] = Prefix(a, 1)
        /\ \A m \in DOMAIN tables, j \in 0 .. (Radix - 1) :
              tables'[m][j] = IF m = n /\ j = Index(a, 1) THEN e ELSE tables[m][j]
    BY <1>1, <1>2, StorePlaced
  <1>4. Shape(tables, L, P) /\ Shape(tables', L, P) /\ a \in Pages
    BY <1>1, <1>2, <1>3, OpFacts DEF Placed
  <1>5. /\ TranslationOf(tables', a) = Seen(e)
        /\ TranslationOf(tables, a) = Seen(tables[n][Index(a, 1)])
        /\ \A v \in Pages : v # a => TranslationOf(tables', v) = TranslationOf(tables, v)
    BY <1>3, <1>4, StoreTranslation
  <1>6. op[t].pc = "store" => TranslationOf(tables, a) = Zero
    BY <1>1, <1>2, <1>5 DEF Placed, CallPlaced, Seen
  <1>7. TreeInv'
    BY <1>3 DEF TreeInv
  <1> QED BY <1>2, <1>4, <1>5, <1>6, <1>7

\* With one thread the tables keep their shape.
LEMMA TreeInvariance == ASSUME SingleThread PROVE Spec => [](TypeInv /\ TreeInv)
  <1>1. Init => TreeInv
    BY InitTree
  <1>2. TypeInv /\ TreeInv /\ [Next]_vars => TreeInv'
    <2> SUFFICES ASSUME TypeInv, TreeInv, [Next]_vars PROVE TreeInv'
      OBVIOUS
    <2>1. ASSUME NEW t \in Threads, MapPage(t) PROVE TreeInv'
      <3>1. op[t] \in Call
        BY DEF TypeInv
      <3>2. Entry(op[t].p_addr, op[t].perm) \in Entries
        BY <3>1, StoredEntries
      <3> QED BY <2>1, <3>2, TreeStores DEF MapPage
    <2>2. ASSUME NEW t \in Threads, UnmapPage(t) PROVE TreeInv'
      BY <2>2, StoredEntries, TreeStores DEF UnmapPage
    <2> QED BY <2>1, <2>2, TreeKeeps
  <1> QED BY <1>1, <1>2, LevelInvariance, PTL DEF Spec

\* The tables in which some walk ends are those of level 1 that an entry names.
LEMMA LastTables ==
    ASSUME NEW L, NEW P, Shape(tables, L, P)
    PROVE  UNION {LastTable(v) : v \in Pages} =
              {n \in DOMAIN tables : L[n] = 1 /\ Named(tables, L, n)}
  <1>1. \A v \in Pages : LastTable(v) = OnWalk(tables, L, P, v, 1)
    BY TranslationDef, WalkEnds
  <1>2. ASSUME NEW n \in DOMAIN tables, L[n] = 1, Named(tables, L, n)
        PROVE  \E v \in Pages : n \in LastTable(v)
    <2> DEFINE v == P[n] * Power[1]
    <2>1. v \in Pages /\ P[n] \in Nat
      BY <1>2 DEF Shape
    <2>2. 1 \in 0 .. Levels /\ Power[1] \in Nat \ {0}
      BY SpaceFacts, PowerType
    <2>3. v \in Nat /\ v < (P[n] + 1) * Power[1]
      BY <2>1, <2>2
    <2>4. Prefix(v, 1) = P[n]
      BY <2>1, <2>2, <2>3, DivUnique DEF Prefix
    <2>5. n \in OnWalk(tables, L, P, v, 1)
      BY <1>2, <2>4 DEF OnWalk
    <2> HIDE DEF v
    <2> QED BY <1>1, <2>1, <2>5
  <1>3. \A v \in Pages : \A n \in LastTable(v) : n \in DOMAIN tables /\ L[n] = 1 /\ Named(tables, L, n)
    BY <1>1 DEF OnWalk
  <1> QED BY <1>2, <1>3

\* As long as one thread at a time maps and unmaps, the tables form a tree, for every
\* number of levels and entries: find_page_table never links a table twice, never makes
\* a second table for a range and loses none.
THEOREM TreeOfTables == ASSUME SingleThread PROVE Spec => []TablesFormTree
  <1>1. TypeInv /\ TreeInv => TablesFormTree
    <2> SUFFICES ASSUME TypeInv, TreeInv PROVE TablesFormTree
      OBVIOUS
    <2>1. PICK L, P : Placed(L, P)
      BY DEF TreeInv
    <2>2. Shape(tables, L, P)
      BY <2>1 DEF Placed
    <2> DEFINE last  == UNION {LastTable(v) : v \in Pages}
               names == {x \in (DOMAIN tables \ last) \X (0 .. (Radix - 1)) :
                             tables[x[1]][x[2]] # Zero}
               fresh == {op[t].new : t \in {u \in Threads : op[u].pc = "link"}}
    <2>3. last = {n \in DOMAIN tables : L[n] = 1 /\ Named(tables, L, n)}
      BY <2>2, LastTables
    <2> HIDE DEF last
    <2>4. ASSUME NEW n \in DOMAIN tables, n # Root, n \notin fresh
          PROVE  Cardinality({x \in names : tables[x[1]][x[2]].at = n}) = 1
      <3>1. Named(tables, L, n)
        <4>1. ~Fresh(n)
          BY <2>4 DEF Fresh
        <4> QED BY <2>1, <4>1 DEF Placed
      <3>2. PICK m \in DOMAIN tables, i \in 0 .. (Radix - 1) :
                   L[m] > 1 /\ tables[m][i] # Zero /\ tables[m][i].at = n
        BY <2>4, <3>1 DEF Named
      <3>3. L[n] = L[m] - 1 /\ P[n] = P[m] * Radix + i
        BY <2>2, <3>2 DEF Shape
      <3>4. <<m, i>> \in names
        BY <2>3, <3>2
      <3>5. ASSUME NEW k \in DOMAIN tables \ last, NEW j \in 0 .. (Radix - 1),
                   tables[k][j] # Zero, tables[k][j].at = n
            PROVE  k = m /\ j = i
        <4>1. L[k] \in 1 .. Levels /\ L[m] \in 1 .. Levels /\ P[k] \in Nat /\ P[m] \in Nat
          BY <2>2, <3>2 DEF Shape
        <4>2. L[k] > 1
          <5>1. L[k] # 1
            BY <2>2, <2>3, <3>5 DEF Shape, Blank
          <5> QED BY <4>1, <5>1
        <4>3. L[n] = L[k] - 1 /\ P[n] = P[k] * Radix + j
          BY <2>2, <3>5, <4>2 DEF Shape
        <4>4. L[k] = L[m]
          BY <3>3, <4>1, <4>3, SpaceFacts
        <4>5. P[k] = P[m] /\ j = i
          <5>1. (P[k] * Radix + j) \div Radix = P[k] /\ (P[k] * Radix + j) % Radix = j
            BY <4>1, DigitFacts
          <5>2. (P[m] * Radix + i) \div Radix = P[m] /\ (P[m] * Radix + i) % Radix = i
            BY <3>2, <4>1, DigitFacts
          <5>3. P[k] * Radix + j = P[m] * Radix + i
            BY <3>3, <4>3
          <5> QED BY <5>1, <5>2, <5>3
        <4>6. k = m
          BY <2>2, <3>2, <3>5, <4>4, <4>5 DEF Shape
        <4> QED BY <4>5, <4>6
      <3>6. {x \in names : tables[x[1]][x[2]].at = n} = {<<m, i>>}
        <4>1. ASSUME NEW x \in names, tables[x[1]][x[2]].at = n PROVE x = <<m, i>>
          <5>1. /\ x[1] \in DOMAIN tables \ last /\ x[2] \in 0 .. (Radix - 1) /\ x = <<x[1], x[2]>>
                /\ tables[x[1]][x[2]] # Zero
            OBVIOUS
          <5>2. x[1] = m /\ x[2] = i
            BY <3>5, <4>1, <5>1
          <5> QED BY <5>1, <5>2
        <4>2. <<m, i>>[1] = m /\ <<m, i>>[2] = i
          OBVIOUS
        <4> HIDE DEF names
        <4> QED BY <3>2, <3>4, <4>1, <4>2
      <3> QED BY <3>6, FS_Singleton
    <2> QED BY <2>4 DEF TablesFormTree, last
  <1> QED BY <1>1, TreeInvariance, PTL

\* Initially no page is translated.
LEMMA InitTranslations ==
    ASSUME Init
    PROVE  \A v \in Pages : Translation(v) = Zero
  <1>1. TreeInv
    BY InitTree
  <1>2. PICK L, P : Placed(L, P)
    BY <1>1 DEF TreeInv
  <1>3. \A n \in DOMAIN tables, i \in 0 .. (Radix - 1) : tables[n][i] = Zero
    BY DEF Init
  <1>4. ASSUME NEW v \in Pages PROVE Translation(v) = Zero
    <2>1. Shape(tables, L, P) /\ Index(v, 1) \in 0 .. (Radix - 1)
      <3>1. v \in Nat /\ 1 \in 1 .. Levels
        BY SpaceFacts
      <3> QED BY <1>2, <3>1, PrefixFacts DEF Placed
    <2>2. CASE \E n \in DOMAIN tables : L[n] = 1 /\ P[n] = Prefix(v, 1)
      BY <1>3, <2>1, <2>2, TranslationIs, TranslationDef DEF Seen
    <2>3. CASE ~ \E n \in DOMAIN tables : L[n] = 1 /\ P[n] = Prefix(v, 1)
      BY <2>1, <2>3, TranslationIs, TranslationDef
    <2> QED BY <2>2, <2>3
  <1> QED BY <1>4

\* The page tables implement the flat address space, for every number of levels and
\* entries and every sequence of calls: each step of map_pages or unmap_pages gives one
\* page its first translation or takes it away, walks and new tables change nothing.
THEOREM AddressSpaceImplemented == ASSUME SingleThread PROVE Spec => ImplementsAddressSpace
  <1> DEFINE space == [v \in Pages |-> Translation(v)]
  <1>1. Init => Flat!Init
    BY InitTranslations DEF Flat!Init
  <1>2. TypeInv /\ TreeInv /\ TypeInv' /\ TreeInv' /\ [Next]_vars => [Flat!Next]_space
    <2> SUFFICES ASSUME TypeInv, TreeInv, TypeInv', TreeInv', [Next]_vars PROVE [Flat!Next]_space
      OBVIOUS
    <2>1. /\ space = [v \in Pages |-> TranslationOf(tables, v)]
          /\ space' = [v \in Pages |-> TranslationOf(tables', v)]
      BY TranslationDef, TranslationDefPrimed
    <2>2. \A v \in Pages : TranslationOf(tables', v) \in Entries
      <3>1. PICK L, P : Placed(L, P)'
        BY DEF TreeInv
      <3>2. \A n \in DOMAIN tables', i \in 0 .. (Radix - 1) : tables'[n][i] \in Entries
        BY DEF TypeInv, TablesOK
      <3>3. Shape(tables', L, P)
        BY <3>1 DEF Placed
      <3> QED BY <3>2, <3>3, TranslationType
    <2> HIDE DEF space
    <2>3. ASSUME NEW a \in Pages, \A v \in Pages : v # a => TranslationOf(tables', v) = TranslationOf(tables, v),
                 TranslationOf(tables, a) = Zero \/ TranslationOf(tables', a) = Zero
          PROVE  [Flat!Next]_space
      <3>1. \A v \in Pages : space[v] = TranslationOf(tables, v) /\ space'[v] = TranslationOf(tables', v)
        BY <2>1
      <3>2. CASE TranslationOf(tables, a) = TranslationOf(tables', a)
        BY <2>1, <2>3, <3>2
      <3>3. CASE TranslationOf(tables, a) # TranslationOf(tables', a)
        <4>1. \A w \in Pages \ {a} : space'[w] = space[w]
          BY <2>3, <3>1
        <4>2. DOMAIN space' = Pages
          BY <2>1
        <4>3. \/ space[a] = Zero /\ space'[a] \in Entries \ {Zero}
              \/ space[a] # Zero /\ space'[a] = Zero
          BY <2>2, <2>3, <3>1, <3>3
        <4> QED BY <4>1, <4>2, <4>3 DEF Flat!Next, Flat!Map, Flat!Unmap, Entries, space
      <3> QED BY <3>2, <3>3
    <2>4. ASSUME NEW t \in Threads, MapPage(t) PROVE [Flat!Next]_space
      <3>1. op[t] \in Call
        BY DEF TypeInv
      <3>2. Entry(op[t].p_addr, op[t].perm) \in Entries
        BY <3>1, StoredEntries
      <3>3. /\ op[t].addr \in Pages /\ TranslationOf(tables, op[t].addr) = Zero
            /\ \A v \in Pages : v # op[t].addr => TranslationOf(tables', v) = TranslationOf(tables, v)
        BY <2>4, <3>2, TreeStores DEF MapPage
      <3> QED BY <2>3, <3>3
    <2>5. ASSUME NEW t \in Threads, UnmapPage(t) PROVE [Flat!Next]_space
      <3>1. Seen(Entry(0, {"WRITE"})) = Zero
        BY DEF Seen, Entry
      <3>2. /\ op[t].addr \in Pages /\ TranslationOf(tables', op[t].addr) = Zero
            /\ \A v \in Pages : v # op[t].addr => TranslationOf(tables', v) = TranslationOf(tables, v)
        BY <2>5, <3>1, StoredEntries, TreeStores DEF UnmapPage
      <3> QED BY <2>3, <3>2
    <2>6. CASE ~ \E t \in Threads : MapPage(t) \/ UnmapPage(t)
      <3>1. \A v \in Pages : TranslationOf(tables', v) = TranslationOf(tables, v)
        BY <2>6, TreeKeeps
      <3> QED BY <2>1, <3>1
    <2> QED BY <2>4, <2>5, <2>6
  <1> QED BY <1>1, <1>2, TreeInvariance, PTL DEF Spec, ImplementsAddressSpace, Flat!Spec

-----------------------------------------------------------------------------
(* What is mapped, when calls do not overlap and no range reaches the last page *)

\* The pages that call c has mapped so far, or has still to unmap.
Touched(c) ==
    {v \in PagesOf(c.first, c.len) : IF c.fn = "map" THEN v < c.addr ELSE v >= c.addr}

\* The range and the counters of a call.
CallRange(c) ==
    c.pc # "out" =>
        /\ c.first * PageBytes + c.len <= (SpacePages - 1) * PageBytes
        /\ c.limit = c.first * PageBytes + c.len /\ c.first <= c.addr
        /\ c.pc = "flush" <=> c.limit <= c.addr * PageBytes
        /\ c.fn = "map" =>
              /\ "PRESENT" \in c.perm /\ c.phys * PageBytes + c.len <= SpacePages * PageBytes
              /\ c.pc # "flush" => c.p_addr = c.phys + (c.addr - c.first)

\* Each page of S, of a range that begins with page addr, is mapped to its frame.
MappedTo(tbl, S, addr, phys, perm) ==
    \A v \in S : TranslationOf(tbl, v) = Entry(phys + (v - addr), perm)

\* What a call has mapped, it has mapped as asked; what it maps or unmaps is no memmap's.
CallMaps(c, tbl, ms) ==
    c.pc # "out" =>
        /\ c.fn = "map" => MappedTo(tbl, Touched(c), c.first, c.phys, c.perm)
        /\ \A m \in ms, v \in Touched(c) : v \notin PagesOf(m.addr, m.len)

\* Each memmap has its pages, and no two share one.
MapsIn(tbl, ms) ==
    /\ \A m \in ms : /\ InSpace(m.addr, m.phys, m.len) /\ "PRESENT" \in m.perm
                     /\ MappedTo(tbl, PagesOf(m.addr, m.len), m.addr, m.phys, m.perm)
    /\ \A m, k \in ms, v \in Pages :
          v \in PagesOf(m.addr, m.len) /\ v \in PagesOf(k.addr, k.len) => m = k

\* Every page that is mapped is a memmap's or one that a call is at.
OnlyThese ==
    panicked = "no" =>
        \A v \in Pages : TranslationOf(tables, v) # Zero =>
            \/ \E m \in maps : v \in PagesOf(m.addr, m.len)
            \/ \E t \in Threads : op[t].pc # "out" /\ v \in Touched(op[t])

\* The inductive invariant of what is mapped.
MapInv ==
    /\ \A t \in Threads : CallRange(op[t]) /\ CallMaps(op[t], tables, maps)
    /\ MapsIn(tables, maps)
    /\ OnlyThese

\* A page lies in a range of bytes when its first byte does, or the range begins with it.
LEMMA PagesOfIs ==
    ASSUME NEW a \in Nat, NEW len \in Nat
    PROVE  \A v : v \in PagesOf(a, len) <=>
                  v \in Nat /\ a <= v /\ v * PageBytes < a * PageBytes + len
  <1> DEFINE b == PageBytes
  <1>0. b \in Nat \ {0}
    BY VmmAssumption
  <1>1. \A x, y \in Nat : (x + y) * b = x * b + y * b /\ x * b \in Nat
    BY <1>0
  <1>2. \A x \in Nat : x <= x * b
    BY <1>0
  <1> HIDE DEF b
  <1>3. ASSUME NEW v \in PagesOf(a, len) PROVE v \in Nat /\ a <= v /\ v * b < a * b + len
    <2>1. PICK i \in 0 .. len : i * b < len /\ v = a + i
      BY DEF PagesOf, b
    <2>2. i \in Nat /\ v * b = a * b + i * b /\ a * b \in Nat /\ i * b \in Nat
      BY <2>1, <1>1
    <2> DEFINE x == a * b
               y == i * b
               z == v * b
    <2>3. x \in Nat /\ y \in Nat /\ z = x + y /\ y < len
      BY <2>1, <2>2
    <2> HIDE DEF x, y, z
    <2>4. z < x + len
      BY <2>3
    <2> QED BY <2>1, <2>2, <2>4 DEF x, z
  <1>4. ASSUME NEW v \in Nat, a <= v, v * b < a * b + len PROVE v \in PagesOf(a, len)
    <2> DEFINE i == v - a
    <2>1. i \in Nat /\ v = a + i
      BY <1>4
    <2> HIDE DEF i
    <2>2. v * b = a * b + i * b /\ i * b \in Nat /\ a * b \in Nat /\ i <= i * b
      BY <2>1, <1>1, <1>2
    <2> DEFINE x == a * b
               y == i * b
    <2>3. x \in Nat /\ y \in Nat /\ x + y < x + len /\ i <= y
      BY <1>4, <2>2
    <2> HIDE DEF x, y
    <2>4. y < len /\ i \in 0 .. len
      BY <2>1, <2>3
    <2> QED BY <2>1, <2>4 DEF PagesOf, y, b
  <1> QED BY <1>3, <1>4 DEF b

\* The pages of a range that ends before the last page are in the space, and so is the
\* page after each.
LEMMA RangeInPages ==
    ASSUME NEW a \in Nat, NEW len \in Nat, a * PageBytes + len <= (SpacePages - 1) * PageBytes,
           NEW v \in PagesOf(a, len)
    PROVE  v \in Pages /\ v + 1 \in Pages
  <1> DEFINE b == PageBytes
             y == a * b + len
             z == (SpacePages - 1) * b
             x == v * b
  <1>1. v \in Nat /\ x < y
    BY PagesOfIs
  <1>2. b \in Nat \ {0} /\ SpacePages \in Nat \ {0}
    BY VmmAssumption, SpaceFacts
  <1>3. x \in Nat /\ y \in Nat /\ z \in Nat /\ y <= z
    BY <1>1, <1>2
  <1>4. x < z
    <2> HIDE DEF x, y, z
    <2> QED BY <1>1, <1>3
  <1>5. \A i, j \in Nat : i * b < j * b => i < j
    BY <1>2
  <1>6. SpacePages - 1 \in Nat
    BY <1>2
  <1>7. v < SpacePages - 1
    BY <1>1, <1>4, <1>5, <1>6
  <1> QED BY <1>1, <1>2, <1>7 DEF Pages

\* Memmaps stay mapped when their pages' translations do.
LEMMA MapsKept ==
    ASSUME NEW tbl, NEW ms \in SUBSET Memmaps, MapsIn(tbl, ms), NEW tbl2, NEW ms2 \in SUBSET ms,
           \A m \in ms2, v \in Pages : v \in PagesOf(m.addr, m.len) =>
               TranslationOf(tbl2, v) = TranslationOf(tbl, v)
    PROVE  MapsIn(tbl2, ms2)
  <1>1. \A m \in ms2 : InSpace(m.addr, m.phys, m.len) /\ "PRESENT" \in m.perm
    BY DEF MapsIn
  <1>2. ASSUME NEW m \in ms2 PROVE MappedTo(tbl2, PagesOf(m.addr, m.len), m.addr, m.phys, m.perm)
    <2>1. m.addr \in Nat /\ m.len \in Nat
      BY SpaceFacts DEF Memmaps
    <2>2. m.addr * PageBytes + m.len <= (SpacePages - 1) * PageBytes
      BY <1>1 DEF InSpace
    <2>3. \A v \in PagesOf(m.addr, m.len) : v \in Pages
      BY <2>1, <2>2, RangeInPages
    <2> QED BY <2>3 DEF MapsIn, MappedTo
  <1> QED BY <1>1, <1>2 DEF MapsIn

\* A page of a memmap is mapped.
LEMMA MapsPresent ==
    ASSUME NEW tbl, NEW ms, MapsIn(tbl, ms), NEW m \in ms, NEW v \in PagesOf(m.addr, m.len)
    PROVE  TranslationOf(tbl, v) # Zero
  <1>1. TranslationOf(tbl, v) = Entry(m.phys + (v - m.addr), m.perm) /\ "PRESENT" \in m.perm
    BY DEF MapsIn, MappedTo
  <1> QED BY <1>1, ZeroAbsent DEF Entry

\* What the loop leaves alone.
LEMMA LoopFields ==
    ASSUME NEW c \in Call
    PROVE  /\ Loop(c).pc = IF c.addr * PageBytes < c.limit THEN "walk" ELSE "flush"
           /\ Loop(c).fn = c.fn /\ Loop(c).first = c.first /\ Loop(c).phys = c.phys
           /\ Loop(c).len = c.len /\ Loop(c).perm = c.perm /\ Loop(c).addr = c.addr
           /\ Loop(c).p_addr = c.p_addr /\ Loop(c).limit = c.limit
  <1>1. CASE c.addr * PageBytes < c.limit
    <2>1. Loop(c) = [c EXCEPT !.pc = "walk", !.level = Levels, !.table = Root]
      BY <1>1 DEF Loop
    <2> QED BY <1>1, <2>1 DEF Call
  <1>2. CASE ~(c.addr * PageBytes < c.limit)
    <2>1. Loop(c) = [c EXCEPT !.pc = "flush"]
      BY <1>2 DEF Loop
    <2> QED BY <1>2, <2>1 DEF Call
  <1> QED BY <1>1, <1>2

\* The arguments and counters of a call.
SameRange(c, d) ==
    /\ d.fn = c.fn /\ d.first = c.first /\ d.phys = c.phys /\ d.len = c.len /\ d.perm = c.perm
    /\ d.addr = c.addr /\ d.p_addr = c.p_addr /\ d.limit = c.limit

\* The numbers of a call.
LEMMA CallNumbers ==
    ASSUME NEW c \in Call
    PROVE  /\ c.first \in Nat /\ c.phys \in Nat /\ c.len \in Nat /\ c.addr \in Nat
           /\ c.p_addr \in Nat /\ c.limit \in Nat /\ c.addr < SpacePages
           /\ PageBytes \in Nat \ {0} /\ SpacePages \in Nat \ {0}
           /\ c.fn \in {"map", "unmap"}
  <1>1. /\ c.first \in Pages /\ c.phys \in Pages /\ c.len \in Nat /\ c.addr \in Pages
        /\ c.p_addr \in Pages /\ c.limit \in Nat /\ c.fn \in {"map", "unmap"}
    BY DEF Call
  <1>2. PageBytes \in Nat \ {0} /\ SpacePages \in Nat \ {0}
    BY VmmAssumption, SpaceFacts
  <1> QED BY <1>1, <1>2 DEF Pages

\* The pages that a call touches are in the space.
LEMMA TouchedInPages ==
    ASSUME NEW c \in Call, CallRange(c), c.pc # "out"
    PROVE  \A v \in PagesOf(c.first, c.len) : v \in Pages /\ v \in Nat /\ v + 1 \in Pages
  <1>1. c.first \in Nat /\ c.len \in Nat
    BY CallNumbers
  <1>2. c.first * PageBytes + c.len <= (SpacePages - 1) * PageBytes
    BY DEF CallRange
  <1> QED BY <1>1, <1>2, RangeInPages, SpaceFacts

\* A step inside find_page_entry changes nothing that is mapped.
LEMMA InsideMaps ==
    ASSUME SingleThread, TypeInv, MapInv, NEW t \in Threads, op'[t] \in Call,
           op[t].pc \notin {"out", "flush"}, op'[t].pc \notin {"out", "flush"},
           SameRange(op[t], op'[t]), maps' = maps, panicked' = panicked,
           \A v \in Pages : TranslationOf(tables', v) = TranslationOf(tables, v)
    PROVE  MapInv'
  <1>1. PICK c, d : c = op[t] /\ d = op'[t]
    OBVIOUS
  <1>2. c \in Call /\ CallRange(c) /\ CallMaps(c, tables, maps) /\ d \in Call
    BY <1>1 DEF MapInv, TypeInv
  <1>3. CallRange(d)
    BY <1>1, <1>2 DEF CallRange, SameRange
  <1>4. Touched(d) = Touched(c)
    BY <1>1 DEF Touched, SameRange
  <1>5. \A v \in Touched(c) : v \in Pages
    BY <1>1, <1>2, TouchedInPages DEF Touched
  <1>6. CallMaps(d, tables', maps)
    BY <1>1, <1>2, <1>4, <1>5 DEF CallMaps, SameRange, MappedTo
  <1>7. \A s \in Threads : CallRange(op'[s]) /\ CallMaps(op'[s], tables', maps')
    BY <1>1, <1>3, <1>6 DEF SingleThread
  <1>8. MapsIn(tables', maps')
    BY MapsKept DEF MapInv, TypeInv
  <1>9. OnlyThese'
    <2> SUFFICES ASSUME panicked' = "no", NEW v \in Pages, TranslationOf(tables', v) # Zero
                 PROVE  \/ \E m \in maps' : v \in PagesOf(m.addr, m.len)
                        \/ \E s \in Threads : op'[s].pc # "out" /\ v \in Touched(op'[s])
      BY DEF OnlyThese
    <2>1. \/ \E m \in maps : v \in PagesOf(m.addr, m.len)
          \/ \E s \in Threads : op[s].pc # "out" /\ v \in Touched(op[s])
      BY DEF MapInv, OnlyThese
    <2>2. ASSUME NEW s \in Threads, v \in Touched(op[s]) PROVE op'[t].pc # "out" /\ v \in Touched(op'[t])
      <3>1. s = t
        BY DEF SingleThread
      <3> QED BY <2>2, <3>1, <1>1, <1>4
    <2> QED BY <2>1, <2>2
  <1> QED BY <1>7, <1>8, <1>9 DEF MapInv

\* A step that leaves the tables, the calls and the memmaps alone.
LEMMA IdleMaps ==
    ASSUME MapInv, UNCHANGED <<tables, op, maps>>, panicked' = "no" => panicked = "no"
    PROVE  MapInv'
  <1>1. OnlyThese'
    BY DEF MapInv, OnlyThese
  <1> QED BY <1>1 DEF MapInv

\* A call begins on a range in the space.
LEMMA StartRange ==
    ASSUME NEW fn \in {"map", "unmap"}, NEW first \in Pages, NEW phys \in Pages, NEW len \in Nat,
           NEW perm \in SUBSET Flags, NEW backed \in BOOLEAN,
           first * PageBytes + len <= (SpacePages - 1) * PageBytes,
           fn = "map" => InSpace(first, phys, len) /\ "PRESENT" \in perm
    PROVE  LET d == Start(fn, first, phys, len, perm, backed)
           IN  /\ CallRange(d) /\ d.pc # "out" /\ d.fn = fn
               /\ Touched(d) = IF fn = "map" THEN {} ELSE PagesOf(first, len)
  <1> DEFINE x == Begun(fn, first, phys, len, perm, backed)
             d == Start(fn, first, phys, len, perm, backed)
  <1>1. x \in Call /\ d = Loop(x)
    BY StartForm
  <1>2. /\ x.fn = fn /\ x.first = first /\ x.phys = phys /\ x.len = len /\ x.perm = perm
        /\ x.addr = first /\ x.p_addr = phys
        /\ x.limit = (first * PageBytes + len) % (SpacePages * PageBytes)
    BY DEF Begun
  <1>3. x.limit = first * PageBytes + len
    <2> DEFINE u == first * PageBytes + len
               w == SpacePages * PageBytes
               y == (SpacePages - 1) * PageBytes
    <2>1. PageBytes \in Nat \ {0} /\ SpacePages \in Nat \ {0} /\ first \in Nat
      BY <1>1, <1>2, CallNumbers
    <2>2. u \in Nat /\ w \in Nat /\ y \in Nat /\ y < w
      BY <2>1
    <2>3. u < w
      <3> HIDE DEF u, w, y
      <3>1. u <= y
        BY DEF u, y
      <3> QED BY <2>2, <3>1
    <2>4. \A i, j \in Nat : i < j => i % j = i
      OBVIOUS
    <2> QED BY <1>2, <2>2, <2>3, <2>4
  <1> HIDE DEF x, d
  <1>4. /\ d.pc = IF x.addr * PageBytes < x.limit THEN "walk" ELSE "flush"
        /\ d.fn = fn /\ d.first = first /\ d.phys = phys /\ d.len = len /\ d.perm = perm
        /\ d.addr = first /\ d.p_addr = phys /\ d.limit = first * PageBytes + len
    BY <1>1, <1>2, <1>3, LoopFields
  <1>5. first \in Nat /\ phys \in Nat /\ PageBytes \in Nat /\ first * PageBytes \in Nat
    BY SpaceFacts, VmmAssumption
  <1>6. d.pc = "flush" <=> d.limit <= d.addr * PageBytes
    <2> DEFINE u == first * PageBytes
    <2>1. u \in Nat
      BY <1>5
    <2>2. d.pc = (IF u < u + len THEN "walk" ELSE "flush") /\ d.limit = u + len /\ d.addr * PageBytes = u
      BY <1>2, <1>3, <1>4
    <2> HIDE DEF u
    <2> QED BY <2>1, <2>2
  <1>7. CallRange(d)
    <2>1. phys = phys + (first - first) /\ first <= first
      BY <1>5
    <2> QED BY <1>4, <1>6, <2>1 DEF CallRange, InSpace
  <1>8. Touched(d) = IF fn = "map" THEN {} ELSE PagesOf(first, len)
    <2>1. \A v \in PagesOf(first, len) : v \in Nat /\ first <= v
      BY <1>5, PagesOfIs
    <2>2. CASE fn = "map"
      <3>1. \A v \in PagesOf(first, len) : ~(v < first)
        BY <1>5, <2>1
      <3> QED BY <1>4, <2>2, <3>1 DEF Touched
    <2>3. CASE fn # "map"
      <3>1. \A v \in PagesOf(first, len) : v >= first
        BY <1>5, <2>1
      <3> QED BY <1>4, <2>3, <3>1 DEF Touched
    <2> QED BY <2>2, <2>3
  <1>9. d.pc # "out"
    BY <1>4
  <1> QED BY <1>4, <1>7, <1>8, <1>9 DEF d

\* map or map_direct begins, with nothing mapped yet.
LEMMA BeginMaps ==
    ASSUME SingleThread, RangesInSpace, TypeInv, MapInv, NEW t \in Threads, NEW r \in Requests,
           Map(t, r) \/ MapDirect(t, r)
    PROVE  MapInv'
  <1>1. /\ UNCHANGED <<tables, maps>> /\ r.len \in Nat /\ r.perm \in SUBSET Flags
        /\ Begins(t, r) \/ (op' = op /\ panicked' # "no")
    BY MapForm
  <1>2. CASE op' = op /\ panicked' # "no"
    BY <1>1, <1>2, IdleMaps
  <1>3. CASE Begins(t, r)
    <2>1. PICK first \in Pages, phys \in Pages, backed \in BOOLEAN :
              /\ op' = [op EXCEPT ![t] = Start("map", first, phys, r.len, r.perm, backed)]
              /\ panicked' = panicked
              /\ InSpace(first, phys, r.len)
      BY <1>3 DEF Begins
    <2> DEFINE d == Start("map", first, phys, r.len, r.perm, backed)
    <2>2. CallRange(d) /\ d.pc # "out" /\ d.fn = "map" /\ Touched(d) = {}
      <3>1. "PRESENT" \in r.perm /\ first * PageBytes + r.len <= (SpacePages - 1) * PageBytes
        BY <2>1 DEF RangesInSpace, InSpace
      <3> QED BY <1>1, <2>1, <3>1, StartRange
    <2> HIDE DEF d
    <2>3. op[t].pc = "out" /\ \A s \in Threads : s = t /\ op'[s] = d
      BY <2>1 DEF SingleThread, TypeInv, Map, MapDirect, Idle, d
    <2>4. \A s \in Threads : CallRange(op'[s]) /\ CallMaps(op'[s], tables', maps')
      BY <2>2, <2>3 DEF CallMaps, MappedTo
    <2>5. OnlyThese'
      <3>1. \A v \in Pages : TranslationOf(tables, v) # Zero /\ panicked = "no" =>
                \E m \in maps : v \in PagesOf(m.addr, m.len)
        BY <2>3 DEF MapInv, OnlyThese
      <3> QED BY <1>1, <2>1, <3>1 DEF OnlyThese
    <2>6. MapsIn(tables', maps')
      BY <1>1 DEF MapInv
    <2> QED BY <2>4, <2>5, <2>6 DEF MapInv
  <1> QED BY <1>1, <1>2, <1>3

\* unmap begins, with all of the memmap still mapped.
LEMMA BeginUnmaps ==
    ASSUME SingleThread, TypeInv, MapInv, NEW t \in Threads, NEW m \in maps, Unmap(t, m)
    PROVE  MapInv'
  <1> DEFINE d == Start("unmap", m.addr, 0, m.len, {}, m.backed)
  <1>1. /\ m.addr \in Pages /\ m.len \in Nat /\ m.backed \in BOOLEAN /\ m.addr \in Nat
        /\ 0 \in Pages /\ {} \in SUBSET Flags /\ maps \subseteq Memmaps
    BY SpaceFacts DEF TypeInv, Memmaps
  <1>2. m.addr * PageBytes + m.len <= (SpacePages - 1) * PageBytes
    BY DEF MapInv, MapsIn, InSpace
  <1>3. /\ CallRange(d) /\ d.pc # "out" /\ d.fn = "unmap"
        /\ Touched(d) = PagesOf(m.addr, m.len)
    BY <1>1, <1>2, StartRange
  <1> HIDE DEF d
  <1>4. /\ op' = [op EXCEPT ![t] = d] /\ maps' = maps \ {m} /\ op[t].pc = "out"
        /\ UNCHANGED <<tables, panicked>>
    BY DEF Unmap, Idle, d
  <1>5. \A s \in Threads : s = t /\ op'[s] = d
    BY <1>4 DEF SingleThread, TypeInv
  <1>6. \A v \in PagesOf(m.addr, m.len) : v \in Pages
    BY <1>1, <1>2, RangeInPages
  <1>7. \A k \in maps', v \in Touched(d) : v \notin PagesOf(k.addr, k.len)
    BY <1>3, <1>4, <1>6 DEF MapInv, MapsIn
  <1>8. \A s \in Threads : CallRange(op'[s]) /\ CallMaps(op'[s], tables', maps')
    BY <1>3, <1>5, <1>7 DEF CallMaps
  <1>9. MapsIn(tables', maps')
    <2>1. maps' \in SUBSET maps
      BY <1>4
    <2> QED BY <1>1, <1>4, <2>1, MapsKept DEF MapInv
  <1>10. OnlyThese'
    <2> SUFFICES ASSUME panicked' = "no", NEW v \in Pages, TranslationOf(tables', v) # Zero
                 PROVE  \/ \E k \in maps' : v \in PagesOf(k.addr, k.len)
                        \/ \E s \in Threads : op'[s].pc # "out" /\ v \in Touched(op'[s])
      BY DEF OnlyThese
    <2>1. PICK k \in maps : v \in PagesOf(k.addr, k.len)
      <3>1. \A s \in Threads : op[s].pc = "out"
        BY <1>4, <1>5
      <3> QED BY <1>4, <3>1 DEF MapInv, OnlyThese
    <2>2. CASE k = m
      BY <1>3, <1>5, <2>1, <2>2
    <2>3. CASE k # m
      BY <1>4, <2>1, <2>3
    <2> QED BY <2>2, <2>3
  <1> QED BY <1>8, <1>9, <1>10 DEF MapInv

\* The call has gone through all of its range when it loads cr3.
LEMMA FlushMaps ==
    ASSUME SingleThread, TypeInv, MapInv, NEW t \in Threads, Flush(t)
    PROVE  MapInv'
  <1>1. PICK c : c = op[t]
    OBVIOUS
  <1>2. c \in Call /\ CallRange(c) /\ CallMaps(c, tables, maps) /\ c.pc = "flush"
    BY <1>1 DEF MapInv, TypeInv, Flush
  <1>3. /\ c.first \in Nat /\ c.len \in Nat /\ c.addr \in Nat /\ c.limit \in Nat
        /\ PageBytes \in Nat \ {0} /\ c.fn \in {"map", "unmap"}
    BY <1>2, CallNumbers
  <1>4. c.limit = c.first * PageBytes + c.len /\ c.limit <= c.addr * PageBytes
    BY <1>2 DEF CallRange
  <1>5. \A v \in PagesOf(c.first, c.len) : v \in Nat /\ v < c.addr
    <2> TAKE v \in PagesOf(c.first, c.len)
    <2>1. v \in Nat /\ v * PageBytes < c.limit
      BY <1>3, <1>4, PagesOfIs
    <2> DEFINE x == v * PageBytes
               y == c.addr * PageBytes
    <2>2. x \in Nat /\ y \in Nat /\ x < c.limit /\ c.limit <= y
      BY <1>3, <1>4, <2>1
    <2>3. x < y
      <3> HIDE DEF x, y
      <3> QED BY <1>3, <2>2
    <2>4. \A i, j \in Nat : i * PageBytes < j * PageBytes => i < j
      BY <1>3
    <2> QED BY <1>3, <2>1, <2>3, <2>4
  <1>6. Touched(c) = IF c.fn = "map" THEN PagesOf(c.first, c.len) ELSE {}
    <2>1. \A v \in PagesOf(c.first, c.len) : ~(v >= c.addr)
      BY <1>3, <1>5
    <2> QED BY <1>5, <2>1 DEF Touched
  <1>7. /\ op' = [op EXCEPT ![t] = NoCall] /\ UNCHANGED <<tables, panicked>>
        /\ \A s \in Threads : s = t /\ op'[s] = NoCall
    BY DEF Flush, SingleThread, TypeInv
  <1>8. \A s \in Threads : CallRange(op'[s]) /\ CallMaps(op'[s], tables', maps')
    BY <1>7 DEF CallRange, CallMaps, NoCall
  <1>9. ASSUME NEW v \in Pages, TranslationOf(tables, v) # Zero, panicked = "no"
        PROVE  (\E m \in maps : v \in PagesOf(m.addr, m.len)) \/ v \in Touched(c)
    BY <1>1, <1>7, <1>9 DEF MapInv, OnlyThese
  <1>10. CASE c.fn = "map"
    <2> DEFINE m == [addr |-> c.first, phys |-> c.phys, len |-> c.len,
                     perm |-> c.perm, backed |-> c.backed]
    <2>1. /\ maps' = maps \union {m}
          /\ m.addr = c.first /\ m.phys = c.phys /\ m.len = c.len /\ m.perm = c.perm
      BY <1>1, <1>10 DEF Flush
    <2> HIDE DEF m
    <2>2. /\ InSpace(m.addr, m.phys, m.len) /\ "PRESENT" \in m.perm
          /\ MappedTo(tables, PagesOf(m.addr, m.len), m.addr, m.phys, m.perm)
      BY <1>2, <1>6, <1>10, <2>1 DEF CallRange, CallMaps, InSpace
    <2>3. \A k \in maps, v \in PagesOf(m.addr, m.len) : v \notin PagesOf(k.addr, k.len)
      BY <1>2, <1>6, <1>10, <2>1 DEF CallMaps
    <2>4. MapsIn(tables', maps')
      BY <1>7, <2>1, <2>2, <2>3 DEF MapInv, MapsIn
    <2>5. OnlyThese'
      BY <1>6, <1>7, <1>9, <1>10, <2>1 DEF OnlyThese
    <2> QED BY <1>8, <2>4, <2>5 DEF MapInv
  <1>11. CASE c.fn = "unmap"
    <2>1. maps' = maps
      BY <1>1, <1>11 DEF Flush
    <2>2. MapsIn(tables', maps')
      BY <1>7, <2>1 DEF MapInv
    <2>3. OnlyThese'
      BY <1>6, <1>7, <1>9, <1>11, <2>1 DEF OnlyThese
    <2> QED BY <1>8, <2>2, <2>3 DEF MapInv
  <1> QED BY <1>3, <1>10, <1>11

\* The loop goes on with the next page, which exists because the range ends before the
\* last one.
LEMMA AdvanceRange ==
    ASSUME NEW c \in Call, CallRange(c), c.pc \notin {"out", "flush"},
           NEW d, d = Loop(Advanced(c))
    PROVE  /\ CallRange(d) /\ d.pc # "out" /\ d.fn = c.fn /\ d.first = c.first
           /\ d.phys = c.phys /\ d.perm = c.perm
           /\ c.addr \in PagesOf(c.first, c.len)
           /\ Touched(d) = IF c.fn = "map" THEN Touched(c) \union {c.addr}
                                           ELSE Touched(c) \ {c.addr}
           /\ c.fn = "unmap" => c.addr \in Touched(c)
  <1> DEFINE b == PageBytes
  <1>1. /\ c.first \in Nat /\ c.phys \in Nat /\ c.len \in Nat /\ c.addr \in Nat
        /\ c.p_addr \in Nat /\ c.limit \in Nat /\ c.addr < SpacePages
        /\ b \in Nat \ {0} /\ SpacePages \in Nat \ {0} /\ c.fn \in {"map", "unmap"}
    BY CallNumbers
  <1>2. /\ c.first * b + c.len <= (SpacePages - 1) * b
        /\ c.limit = c.first * b + c.len /\ c.first <= c.addr
        /\ ~(c.limit <= c.addr * b)
    BY DEF CallRange
  <1>3. c.addr \in PagesOf(c.first, c.len)
    <2>1. c.addr * b < c.limit
      <3>1. c.addr * b \in Nat
        BY <1>1
      <3> QED BY <1>1, <1>2, <3>1
    <2> QED BY <1>1, <1>2, <2>1, PagesOfIs
  <1>4. c.addr + 1 \in Pages /\ c.addr + 1 \in Nat /\ c.addr + 1 < SpacePages
    <2>1. c.addr + 1 \in Pages
      BY <1>3, TouchedInPages
    <2> QED BY <1>1, <2>1, SpaceFacts DEF Pages
  <1>5. (c.addr + 1) % SpacePages = c.addr + 1
    <2>1. \A i, j \in Nat : i < j => i % j = i
      OBVIOUS
    <2> QED BY <1>1, <1>4, <2>1
  <1> DEFINE x == Advanced(c)
  <1>6. /\ x \in Call /\ x.addr = c.addr + 1 /\ x.p_addr = (c.p_addr + 1) % SpacePages
        /\ x.fn = c.fn /\ x.first = c.first /\ x.phys = c.phys /\ x.len = c.len
        /\ x.perm = c.perm /\ x.limit = c.limit
    BY <1>5, AdvancedCall
  <1> HIDE DEF x
  <1>7. /\ d.pc = IF x.addr * b < x.limit THEN "walk" ELSE "flush"
        /\ d.fn = c.fn /\ d.first = c.first /\ d.phys = c.phys
        /\ d.len = c.len /\ d.perm = c.perm /\ d.addr = c.addr + 1
        /\ d.p_addr = (c.p_addr + 1) % SpacePages /\ d.limit = c.limit
    BY <1>6, LoopFields DEF x
  <1>8. d.pc # "out"
    BY <1>7
  <1>9. d.pc = "flush" <=> d.limit <= d.addr * b
    <2> DEFINE u == (c.addr + 1) * b
    <2>1. u \in Nat /\ d.addr * b = u /\ d.pc = IF u < c.limit THEN "walk" ELSE "flush"
      BY <1>1, <1>4, <1>6, <1>7
    <2> HIDE DEF u
    <2> QED BY <1>1, <1>7, <2>1
  <1>10. ASSUME c.fn = "map", d.pc # "flush" PROVE d.p_addr = c.phys + ((c.addr + 1) - c.first)
    <2>1. c.phys * b + c.len <= SpacePages * b /\ c.p_addr = c.phys + (c.addr - c.first)
      BY <1>10 DEF CallRange
    <2>2. (c.addr + 1) * b < c.first * b + c.len
      <3>1. ~(d.limit <= d.addr * b) /\ (c.addr + 1) * b \in Nat
        BY <1>1, <1>4, <1>9, <1>10
      <3> QED BY <1>1, <1>2, <1>7, <3>1
    <2> DEFINE k == (c.addr + 1) - c.first
    <2>3. k \in Nat /\ c.addr + 1 = c.first + k /\ c.p_addr + 1 = c.phys + k
      <3>1. c.first <= c.addr /\ c.p_addr = c.phys + (c.addr - c.first)
        BY <1>2, <2>1
      <3>2. c.first \in Nat /\ c.addr \in Nat /\ c.phys \in Nat
        BY <1>1
      <3> QED BY <3>1, <3>2
    <2> HIDE DEF k
    <2>4. \A i, j \in Nat : (i + j) * b = i * b + j * b /\ i * b \in Nat
      BY <1>1
    <2>5. (c.first + k) * b = c.first * b + k * b /\ (c.phys + k) * b = c.phys * b + k * b
      BY <1>1, <2>3, <2>4
    <2>6. (c.phys + k) * b < SpacePages * b
      <3> DEFINE fb == c.first * b
                 pb == c.phys * b
                 kb == k * b
                 sb == SpacePages * b
      <3>1. fb \in Nat /\ pb \in Nat /\ kb \in Nat /\ sb \in Nat
        BY <1>1, <2>3, <2>4
      <3>2. fb + kb < fb + c.len /\ pb + c.len <= sb
        BY <2>1, <2>2, <2>3, <2>5
      <3>3. (c.phys + k) * b = pb + kb
        BY <2>5
      <3> HIDE DEF fb, pb, kb, sb
      <3>4. pb + kb < sb
        BY <1>1, <3>1, <3>2
      <3> QED BY <3>3, <3>4 DEF sb
    <2>7. \A i, j \in Nat : i * b < j * b => i < j
      BY <1>1
    <2>8. c.phys + k \in Nat /\ c.phys + k < SpacePages
      BY <1>1, <2>3, <2>6, <2>7
    <2>9. \A i, j \in Nat : i < j => i % j = i
      OBVIOUS
    <2> QED BY <1>1, <1>7, <2>3, <2>8, <2>9 DEF k
  <1>11. CallRange(d)
    <2>1. d.first <= d.addr
      BY <1>1, <1>2, <1>7
    <2>2. c.fn = "map" => "PRESENT" \in c.perm /\ c.phys * b + c.len <= SpacePages * b
      BY DEF CallRange
    <2> QED BY <1>2, <1>7, <1>9, <1>10, <2>1, <2>2 DEF CallRange
  <1>12. \A v \in PagesOf(c.first, c.len) : v \in Nat
    BY <1>1, PagesOfIs
  <1>13. Touched(d) = IF c.fn = "map" THEN Touched(c) \union {c.addr} ELSE Touched(c) \ {c.addr}
    <2>1. \A v \in Nat : /\ v < c.addr + 1 <=> (v < c.addr \/ v = c.addr)
                         /\ v >= c.addr + 1 <=> (v >= c.addr /\ v # c.addr)
      BY <1>1
    <2>2. CASE c.fn = "map"
      BY <1>3, <1>7, <1>12, <2>1, <2>2 DEF Touched
    <2>3. CASE c.fn # "map"
      BY <1>3, <1>7, <1>12, <2>1, <2>3 DEF Touched
    <2> QED BY <2>2, <2>3
  <1>14. c.fn = "unmap" => c.addr \in Touched(c)
    BY <1>1, <1>3 DEF Touched
  <1> QED BY <1>3, <1>7, <1>8, <1>11, <1>13, <1>14

\* What a store of an entry does to the mappings, given what the stored page becomes.
LEMMA StoreMaps ==
    ASSUME SingleThread, TypeInv, TreeInv, MapInv, NEW t \in Threads,
           op[t].pc \in {"entry", "store"}, NEW e \in Entries, Store(t, e),
           op[t].fn = "map" => /\ op[t].pc = "store" /\ "PRESENT" \in e.flags
                               /\ e = Entry(op[t].p_addr, op[t].perm),
           op[t].fn = "unmap" => "PRESENT" \notin e.flags
    PROVE  MapInv'
  <1>1. PICK c, d : c = op[t] /\ d = Loop(Advanced(c))
    OBVIOUS
  <1>2. c \in Call /\ CallRange(c) /\ CallMaps(c, tables, maps) /\ c.pc \notin {"out", "flush"}
    BY <1>1 DEF MapInv, TypeInv
  <1>3. /\ CallRange(d) /\ d.pc # "out" /\ d.fn = c.fn /\ d.first = c.first
        /\ d.phys = c.phys /\ d.perm = c.perm
        /\ c.addr \in PagesOf(c.first, c.len)
        /\ Touched(d) = IF c.fn = "map" THEN Touched(c) \union {c.addr}
                                        ELSE Touched(c) \ {c.addr}
        /\ c.fn = "unmap" => c.addr \in Touched(c)
    BY <1>1, <1>2, AdvanceRange
  <1>4. /\ c.addr \in Pages /\ TranslationOf(tables', c.addr) = Seen(e)
        /\ c.pc = "store" => TranslationOf(tables, c.addr) = Zero
        /\ \A v \in Pages : v # c.addr => TranslationOf(tables', v) = TranslationOf(tables, v)
    BY <1>1, TreeStores
  <1>5. maps' = maps /\ panicked' = panicked /\ op' = [op EXCEPT ![t] = d] /\ maps \subseteq Memmaps
    BY <1>1 DEF Store, Advanced, TypeInv
  <1>6. \A s \in Threads : s = t /\ op[s] = c /\ op'[s] = d
    BY <1>1, <1>5 DEF SingleThread, TypeInv
  <1>7. c.fn \in {"map", "unmap"}
    BY <1>2, CallNumbers
  <1>8. \A m \in maps : c.addr \notin PagesOf(m.addr, m.len)
    <2>1. CASE c.fn = "map"
      <3>1. TranslationOf(tables, c.addr) = Zero
        BY <1>1, <1>4, <2>1
      <3> QED BY <3>1, MapsPresent DEF MapInv
    <2>2. CASE c.fn = "unmap"
      BY <1>2, <1>3, <2>2 DEF CallMaps
    <2> QED BY <1>7, <2>1, <2>2
  <1>9. \A v \in Touched(c) : v \in Pages
    BY <1>2, TouchedInPages DEF Touched
  <1>10. MapsIn(tables', maps')
    <2>1. MapsIn(tables, maps) /\ maps' \in SUBSET maps
      BY <1>5 DEF MapInv
    <2> QED BY <1>4, <1>5, <1>8, <2>1, MapsKept
  <1>11. CallMaps(d, tables', maps)
    <2>1. \A m \in maps, v \in Touched(d) : v \notin PagesOf(m.addr, m.len)
      BY <1>2, <1>3, <1>8 DEF CallMaps
    <2>2. ASSUME c.fn = "map" PROVE MappedTo(tables', Touched(d), c.first, c.phys, c.perm)
      <3>1. TranslationOf(tables', c.addr) = Entry(c.phys + (c.addr - c.first), c.perm)
        <4>1. c.p_addr = c.phys + (c.addr - c.first)
          BY <1>2, <2>2 DEF CallRange
        <4> QED BY <1>1, <1>4, <2>2, <4>1 DEF Seen
      <3>2. \A v \in Touched(c) : TranslationOf(tables, v) = Entry(c.phys + (v - c.first), c.perm)
        BY <1>2, <2>2 DEF CallMaps, MappedTo
      <3> QED BY <1>3, <1>4, <1>9, <2>2, <3>1, <3>2 DEF MappedTo
    <2> QED BY <1>3, <2>1, <2>2 DEF CallMaps
  <1>12. OnlyThese'
    <2> SUFFICES ASSUME panicked' = "no", NEW v \in Pages, TranslationOf(tables', v) # Zero
                 PROVE  \/ \E m \in maps' : v \in PagesOf(m.addr, m.len)
                        \/ \E s \in Threads : op'[s].pc # "out" /\ v \in Touched(op'[s])
      BY DEF OnlyThese
    <2>1. CASE v = c.addr
      <3>1. c.fn = "map"
        BY <1>1, <1>4, <1>7, <2>1 DEF Seen
      <3>2. v \in Touched(d)
        BY <1>3, <2>1, <3>1
      <3> QED BY <1>3, <1>6, <3>2
    <2>2. CASE v # c.addr
      <3>1. (\E m \in maps : v \in PagesOf(m.addr, m.len)) \/ v \in Touched(c)
        BY <1>4, <1>5, <1>6, <2>2 DEF MapInv, OnlyThese
      <3>2. v \in Touched(c) => v \in Touched(d)
        BY <1>3, <2>2
      <3> QED BY <1>3, <1>5, <1>6, <3>1, <3>2
    <2> QED BY <2>1, <2>2
  <1> QED BY <1>3, <1>5, <1>6, <1>10, <1>11, <1>12 DEF MapInv

\* A step down keeps the range.
LEMMA DownRange ==
    ASSUME NEW c \in Call, NEW n PROVE SameRange(c, Down(c, n))
  BY DEF SameRange, Down, Call

\* With one thread, every step keeps what is mapped.
LEMMA NextMaps ==
    ASSUME SingleThread, RangesInSpace, TypeInv, TreeInv, MapInv, TypeInv', [Next]_vars
    PROVE  MapInv'
  <1>1. ASSUME NEW t \in Threads, MapPage(t) PROVE MapInv'
    <2>1. PICK L, P : Placed(L, P)
      BY DEF TreeInv
    <2>2. op[t] \in Call /\ op[t].pc = "store" /\ op[t].fn = "map" /\ CallRange(op[t])
      BY <1>1, <2>1 DEF TypeInv, MapPage, Placed, CallPlaced, MapInv
    <2> DEFINE e == Entry(op[t].p_addr, op[t].perm)
    <2>3. e \in Entries /\ Store(t, e) /\ e.flags = op[t].perm /\ "PRESENT" \in op[t].perm
      BY <1>1, <2>2, StoredEntries DEF MapPage, Entry, CallRange
    <2> HIDE DEF e
    <2>4. e = Entry(op[t].p_addr, op[t].perm)
      BY DEF e
    <2> QED BY <2>2, <2>3, <2>4, StoreMaps
  <1>2. ASSUME NEW t \in Threads, UnmapPage(t) PROVE MapInv'
    <2> DEFINE e == Entry(0, {"WRITE"})
    <2>1. e \in Entries /\ Store(t, e) /\ op[t].pc = "entry" /\ op[t].fn = "unmap"
      BY <1>2, StoredEntries DEF UnmapPage
    <2>2. "PRESENT" \notin e.flags
      BY DEF Entry
    <2> HIDE DEF e
    <2> QED BY <2>1, <2>2, StoreMaps
  <1>3. CASE \E t \in Threads : MapPage(t) \/ UnmapPage(t)
    BY <1>1, <1>2, <1>3
  <1>4. ASSUME NEW t \in Threads, op[t].pc \notin {"out", "flush"}, op'[t].pc \notin {"out", "flush"},
               SameRange(op[t], op'[t]), maps' = maps, panicked' = panicked,
               ~ \E s \in Threads : MapPage(s) \/ UnmapPage(s)
        PROVE  MapInv'
    <2>1. \A v \in Pages : TranslationOf(tables', v) = TranslationOf(tables, v)
      BY <1>4, TreeKeeps
    <2>2. op'[t] \in Call
      BY DEF TypeInv
    <2> QED BY <1>4, <2>1, <2>2, InsideMaps
  <1>5. ASSUME UNCHANGED <<tables, op, maps>>, panicked' = panicked \/ panicked = "no" PROVE MapInv'
    BY <1>5, IdleMaps
  <1>6. CASE ~ \E t \in Threads : MapPage(t) \/ UnmapPage(t)
    <2>1. ASSUME NEW t \in Threads, Walk(t) PROVE MapInv'
      <3>1. PICK c, n : c = op[t] /\ n = tables[c.table][Index(c.addr, c.level)].at
        OBVIOUS
      <3>2. c \in Call /\ c.pc = "walk" /\ op \in [Threads -> Call]
        BY <2>1, <3>1 DEF Walk, TypeInv
      <3>3. CASE op' = [op EXCEPT ![t] = Down(c, n)] /\ maps' = maps /\ panicked' = panicked
        <4>1. op'[t] = Down(c, n) /\ SameRange(c, op'[t]) /\ op'[t].pc \notin {"out", "flush"}
          BY <3>2, <3>3, DownRange DEF Down, Call
        <4> QED BY <1>4, <1>6, <3>1, <3>2, <3>3, <4>1
      <3>4. ASSUME NEW m, op' = [op EXCEPT ![t].pc = "link", ![t].new = m], maps' = maps, panicked' = panicked
            PROVE  MapInv'
        <4>1. op'[t] = [c EXCEPT !.pc = "link", !.new = m]
          BY <3>1, <3>2, <3>4
        <4>2. SameRange(c, op'[t]) /\ op'[t].pc \notin {"out", "flush"}
          BY <3>2, <4>1 DEF SameRange, Call
        <4> QED BY <1>4, <1>6, <3>1, <3>2, <3>4, <4>2
      <3>5. CASE UNCHANGED <<tables, op, maps>> /\ panicked = "no"
        BY <1>5, <3>5
      <3>6. \/ op' = [op EXCEPT ![t] = Down(c, n)] /\ maps' = maps /\ panicked' = panicked
            \/ \E m : op' = [op EXCEPT ![t].pc = "link", ![t].new = m] /\ maps' = maps /\ panicked' = panicked
            \/ UNCHANGED <<tables, op, maps>> /\ panicked = "no"
        BY <2>1, <3>1 DEF Walk, Panic
      <3> QED BY <3>3, <3>4, <3>5, <3>6
    <2>2. ASSUME NEW t \in Threads, Link(t) PROVE MapInv'
      <3>1. PICK c, n : c = op[t] /\ n = c.new
        OBVIOUS
      <3>2. /\ c \in Call /\ c.pc = "link" /\ op \in [Threads -> Call] /\ maps' = maps
            /\ panicked' = panicked /\ op' = [op EXCEPT ![t] = Down(c, n)]
        BY <2>2, <3>1 DEF Link, TypeInv
      <3>3. op'[t] = Down(c, n) /\ SameRange(c, op'[t]) /\ op'[t].pc \notin {"out", "flush"}
        BY <3>2, DownRange DEF Down, Call
      <3> QED BY <1>4, <1>6, <3>1, <3>2, <3>3
    <2>3. ASSUME NEW t \in Threads, TestEntry(t) PROVE MapInv'
      <3>1. PICK c : c = op[t]
        OBVIOUS
      <3>2. /\ c \in Call /\ c.pc = "entry" /\ op \in [Threads -> Call]
            /\ \/ op' = [op EXCEPT ![t].pc = "store"] /\ maps' = maps /\ panicked' = panicked
               \/ UNCHANGED <<tables, op, maps>> /\ panicked = "no"
        BY <2>3, <3>1 DEF TestEntry, TypeInv, Panic
      <3>3. CASE op' = [op EXCEPT ![t].pc = "store"] /\ maps' = maps /\ panicked' = panicked
        <4>1. op'[t] = [c EXCEPT !.pc = "store"]
          BY <3>1, <3>2, <3>3
        <4>2. SameRange(c, op'[t]) /\ op'[t].pc \notin {"out", "flush"}
          BY <3>2, <4>1 DEF SameRange, Call
        <4> QED BY <1>4, <1>6, <3>1, <3>2, <3>3, <4>2
      <3> QED BY <1>5, <3>2, <3>3
    <2>4. CASE \E t \in Threads, r \in Requests : Map(t, r) \/ MapDirect(t, r)
      BY <2>4, BeginMaps
    <2>5. CASE \E t \in Threads : \E m \in maps : Unmap(t, m)
      BY <2>5, BeginUnmaps
    <2>6. CASE \E t \in Threads : Flush(t)
      BY <2>6, FlushMaps
    <2>7. CASE UNCHANGED vars \/ \E v \in Pages : Access(v)
      BY <1>5, <2>7 DEF vars, Access
    <2> QED BY <1>6, <2>1, <2>2, <2>3, <2>4, <2>5, <2>6, <2>7 DEF Next, Step
  <1> QED BY <1>3, <1>6

\* Initially nothing is mapped.
LEMMA InitMaps ==
    ASSUME Init PROVE MapInv
  <1>1. \A t \in Threads : op[t].pc = "out"
    BY DEF Init, NoCall
  <1>2. maps = {}
    BY DEF Init
  <1>3. \A v \in Pages : TranslationOf(tables, v) = Zero
    BY InitTranslations, TranslationDef
  <1>4. \A t \in Threads : CallRange(op[t]) /\ CallMaps(op[t], tables, maps)
    BY <1>1 DEF CallRange, CallMaps
  <1>5. MapsIn(tables, maps)
    BY <1>2 DEF MapsIn
  <1>6. OnlyThese
    BY <1>3 DEF OnlyThese
  <1> QED BY <1>4, <1>5, <1>6 DEF MapInv

\* When one thread at a time maps and unmaps ranges that end before the last page, every
\* memmap is translated as asked for from the moment map returns until it is destroyed,
\* and what map_pages mapped, unmap_pages removes, all of it and nothing else: for every
\* number of levels, size of the tables and sequence of calls.
THEOREM MappingsKept == ASSUME SingleThread, RangesInSpace PROVE Spec => []MappingsHold
  <1>1. Init => MapInv
    BY InitMaps
  <1>2. TypeInv /\ TreeInv /\ MapInv /\ TypeInv' /\ [Next]_vars => MapInv'
    BY NextMaps
  <1>3. TypeInv /\ MapInv => MappingsHold
    <2> SUFFICES ASSUME TypeInv, MapInv PROVE MappingsHold
      OBVIOUS
    <2>1. ASSUME NEW m \in maps, NEW v \in PagesOf(m.addr, m.len)
          PROVE  v \in Pages /\ Translation(v) = Entry(m.phys + (v - m.addr), m.perm)
      <3>1. /\ m.addr \in Nat /\ m.len \in Nat
            /\ m.addr * PageBytes + m.len <= (SpacePages - 1) * PageBytes
        <4>1. m \in Memmaps /\ InSpace(m.addr, m.phys, m.len)
          BY DEF TypeInv, MapInv, MapsIn
        <4> QED BY <4>1, SpaceFacts DEF Memmaps, InSpace
      <3>2. v \in Pages
        BY <3>1, RangeInPages
      <3>3. TranslationOf(tables, v) = Entry(m.phys + (v - m.addr), m.perm)
        BY DEF MapInv, MapsIn, MappedTo
      <3> QED BY <3>2, <3>3, TranslationDef
    <2>2. ASSUME panicked = "no", Quiet, NEW v \in Pages, Translation(v) # Zero
          PROVE  \E m \in maps : v \in PagesOf(m.addr, m.len)
      BY <2>2, TranslationDef DEF MapInv, OnlyThese, Quiet
    <2> QED BY <2>1, <2>2 DEF MappingsHold
  <1> QED BY <1>1, <1>2, <1>3, TreeInvariance, PTL DEF Spec
=============================================================================
