------------------------------ MODULE MCPrintf ------------------------------
(* The formats of a small kernel: every specifier, justified both ways.    *)
EXTENDS Printf

D(left, width, spec, arg) == [left |-> left, width |-> width, spec |-> spec, arg |-> arg]
Plain(c) == D(FALSE, << >>, c, "none")

Widths == {<< >>, <<"3">>, <<"0", "3">>}
SomeDirectives ==
    {Plain("a"), Plain("%"), D(FALSE, << >>, "c", "d")}
    \cup {D(left, width, "s", s) : left \in BOOLEAN, width \in Widths, s \in {<< >>, <<"%", "d">>}}
    \cup {D(left, width, "d", n) : left \in BOOLEAN, width \in Widths, n \in {0, 10, -1}}
    \cup {D(left, width, "x", n) : left \in BOOLEAN, width \in Widths, n \in {15, 16, 256}}
    \cup {D(FALSE, width, "p", n) : width \in {<< >>, <<"1", "0">>}, n \in {256, 65535}}
    \cup {D(FALSE, << >>, "i", 9)}

Pairs ==
    {D(TRUE, <<"0", "3">>, "x", 15), D(FALSE, <<"0", "3">>, "x", 16), D(FALSE, <<"3">>, "d", -1),
     D(TRUE, <<"3">>, "s", << >>), D(FALSE, << >>, "p", 256), Plain("a"), Plain("%")}

SomeCalls == {<<d>> : d \in SomeDirectives} \cup {<<d, e>> : d, e \in Pairs}
Received == {<<Plain("q"), D(FALSE, << >>, "d", n)>> : n \in {4, 15}}
=============================================================================
