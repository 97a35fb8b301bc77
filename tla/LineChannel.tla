---------------------------- MODULE LineChannel ----------------------------
(***************************************************************************)
(* What both ends of the TCP connection take it for: a channel of lines.     *)
(* Lines are handled one or more at a time, each once, whole and in the     *)
(* order they were sent.                                                    *)
(***************************************************************************)
EXTENDS Sequences, Naturals

CONSTANT Line
VARIABLES queue, handled

Send == \E l \in Line : queue' = Append(queue, l) /\ UNCHANGED handled

Handle ==
  \E n \in 1..Len(queue) :
    /\ handled' = handled \o SubSeq(queue, 1, n)
    /\ queue' = SubSeq(queue, n + 1, Len(queue))

Init == queue = << >> /\ handled = << >>

Spec == Init /\ [][Send \/ Handle]_<<queue, handled>>
=============================================================================
