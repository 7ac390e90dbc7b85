--------------------------- MODULE AddressSpace ---------------------------
(***************************************************************************)
(* What the page tables promise: an address space is a function from pages *)
(* to translations.  One page at a time gains or loses its translation; a  *)
(* page that has one never gets another without losing the first.          *)
(***************************************************************************)
CONSTANTS Pages,         \* virtual pages
          Translations,  \* what a page can be translated to
          None           \* a page that has no translation

VARIABLE space

Init == space = [v \in Pages |-> None]

Map(v) == space[v] = None /\ space'[v] \in Translations \ {None}

Unmap(v) == space[v] # None /\ space'[v] = None

Next ==
    /\ DOMAIN space' = Pages
    /\ \E v \in Pages : /\ Map(v) \/ Unmap(v)
                       /\ \A w \in Pages \ {v} : space'[w] = space[w]

Spec == Init /\ [][Next]_space
=============================================================================
