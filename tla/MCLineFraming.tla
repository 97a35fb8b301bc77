--------------------------- MODULE MCLineFraming ---------------------------
(* Instance of LineFraming for TLC: lines of one to five characters, buffers *)
(* smaller than a line.                                                     *)
EXTENDS LineFraming

Letters == {"s", "r", "p", "a", "t", "d", "K", "B", "1", "2", "3", "4"}
CommandLines == {<<"s">>, <<"r", "p", "a", "t", "d">>}
StatusLines == {<<"K">>, <<"B", "1", "2", "3", "4">>}
=============================================================================
