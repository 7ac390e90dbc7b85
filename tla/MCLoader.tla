------------------------------ MODULE MCLoader ------------------------------
(* What GRUB may hand over, for TLC: pages of eight words, low memory in     *)
(* page 0, AWD in pages 1 and 2, modules from page 3 on.                     *)
EXTENDS Loader

VMA == (VMB + WindowPages) * Radix

Load(offset, at, filesz, memsz) ==
    [load |-> TRUE, offset |-> offset, vaddr |-> VMA + at, filesz |-> filesz, memsz |-> memsz]
Stack == [load |-> FALSE, offset |-> 0, vaddr |-> 0, filesz |-> 0, memsz |-> 0]

\* Program headers as Lobo's linker script lays sections out: each section
\* begins with the page after the previous one.
Images ==
    { << Load(2, 0, 5, 5) >>,
      << Load(2, 0, 8, 8), Stack, Load(10, 8, 3, 13) >>,
      << Load(2, 0, 6, 6), Load(8, 8, 2, 3), Load(10, 16, 0, 9) >>,
      << Load(2, 0, 4, 20), Load(6, 24, 6, 20) >>,
      << Load(2, 0, 4, 140) >> }

ModuleAt(tag, elf, page, words, headers) ==
    [kernel |-> tag, elf |-> elf, mod_start |-> page * Radix,
     mod_end |-> page * Radix + words, headers |-> headers]

Data(page) == ModuleAt(FALSE, FALSE, page, 6, <<>>)

Machine(mods) == [magic |-> TRUE, longmode |-> TRUE, mods |-> mods]

AllBoots ==
    LET kernelAt(p, w, hs) == ModuleAt(TRUE, TRUE, p, w, hs)
    IN  {Machine(<<kernelAt(3, w, hs)>>) : w \in {13, 16}, hs \in Images}
        \union {Machine(<<Data(3), kernelAt(4, 14, hs)>>) : hs \in Images}
        \union { Machine(<<>>), Machine(<<Data(3)>>),
                 Machine(<<ModuleAt(TRUE, FALSE, 3, 9, <<>>)>>),
                 [magic |-> FALSE, longmode |-> TRUE, mods |-> <<>>],
                 [magic |-> TRUE, longmode |-> FALSE, mods |-> <<Data(3)>>] }

OneBoot == {Machine(<<ModuleAt(TRUE, TRUE, 3, 13, << Load(2, 0, 8, 8), Stack, Load(10, 8, 3, 13) >>)>>)}
NoPages == {}
FirstTable == {8}
=============================================================================
