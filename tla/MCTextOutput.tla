---------------------------- MODULE MCTextOutput ----------------------------
(* A screen of three lines of three columns. The main program prints a      *)
(* character, a line and more than a line, a handler its message. Nothing    *)
(* is claimed once a handler has cut into a character, so Whole stops there; *)
(* a handler inside move_vga_cursor is not stopped.                          *)
EXTENDS TextOutput

Texts == {<<"a">>, <<"a", NewLine>>, <<"a", "b", "a", "b">>}
Whole == ~torn
Message == {<<"i", NewLine>>, <<"i">>}
=============================================================================
