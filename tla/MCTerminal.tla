----------------------------- MODULE MCTerminal -----------------------------
(* A small screen, k/idle and k/keyboard, for TLC.                          *)
EXTENDS Terminal

TwoThreads == {"idle", "keyboard"}
SomeMessages == { <<"ch">>, <<"ch", "nl", "ch">> }
TwoLetters == {"e", "x"}
Exit == <<"e">>
=============================================================================
