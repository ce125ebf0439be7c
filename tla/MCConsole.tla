------------------------------ MODULE MCConsole ------------------------------
(* Console on a screen of two rows with two or three columns; messages as     *)
(* log() builds them: a stamp, a tag in its colour, a text.                   *)
EXTENDS Console

MCMessages ==
    {<<"grey", "a", "space", "green", "b", "grey", "space", "c", "newline">>,
     <<"a", "newline", "space", "tab", "b">>,
     <<"green", "a", "b", "c", "space", "a", "reset", "b", "newline", "tab">>}

\* A colour after a reset, which no message of the kernel has.
MCResets == {<<"grey", "a", "reset", "b", "green", "c">>}
=============================================================================
