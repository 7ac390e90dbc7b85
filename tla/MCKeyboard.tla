----------------------------- MODULE MCKeyboard -----------------------------
(* Instances of Keyboard for TLC: one key with a character, the shift key. *)
EXTENDS Keyboard, TLC

CONSTANT k

TwoKeys == {k, LShift}
=============================================================================
