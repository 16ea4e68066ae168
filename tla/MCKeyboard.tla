------------------------------ MODULE MCKeyboard ----------------------------
(* A letter, the Shift key, CapsLock and the right Ctrl key, whose bytes   *)
(* begin with e0.                                                          *)
EXTENDS Keyboard

Keys == {<<"1c">>, <<"12">>, <<"58">>, <<"e0", "14">>}
=============================================================================
