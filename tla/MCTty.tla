------------------------------- MODULE MCTty -------------------------------
(* Terminals with buffers of a few cells, and the keys each run presses.    *)
EXTENDS Tty

Editing  == {"x", "y", NL, BS}
Escaping == {"[", NL, ESC}

CursorKeys    == Arrows \ {<<"3", "~">>}
NoSpecial     == {}
OnlyDelete    == {<<"3", "~">>}
=============================================================================
