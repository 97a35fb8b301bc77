---------------------------- MODULE LineFraming ----------------------------
(***************************************************************************)
(* The connection between panel and engine as TCP has it: two streams of     *)
(* characters that arrive in pieces of any size up to the reader's buffer.   *)
(* Both ends send lines that end with a newline.  The panel keeps what        *)
(* follows the last newline of a piece for the next one                     *)
(* (hft_frontend.py:201-216); the engine takes it for a command              *)
(* (hft_engine_linux.cpp:564-584, win/hft_engine.cpp alike).                 *)
(***************************************************************************)
EXTENDS Integers, SequencesExt

CONSTANTS
  Letter,        \* the characters of lines
  Commands,      \* lines the panel sends
  Statuses,      \* lines the engine sends
  EngineBuffer,  \* 1023
  PanelBuffer,   \* 1024
  MaxLines       \* bound on the lines sent

Newline == "\n"
\* No line is empty and none contains a newline.
ASSUME FramingAssumption ==
  /\ Newline \notin Letter
  /\ Commands \cup Statuses \subseteq Seq(Letter) \ {<< >>}
  /\ {EngineBuffer, PanelBuffer} \subseteq Nat \ {0} /\ MaxLines \in Nat

VARIABLES
  down,      \* characters under way to the engine
  executed,  \* the engine: arguments of process_command
  up,        \* characters under way to the panel
  buffer,    \* the panel: buffer of tcp_listener
  handled,   \* the panel: arguments of handle_engine_message
  commanded, reported,  \* history: the lines sent
  whole      \* history: no piece the engine received ended within a line

toEngine == <<down, executed, commanded, whole>>
toPanel == <<up, buffer, handled, reported>>
vars == <<toEngine, toPanel>>

-----------------------------------------------------------------------------
Smaller(m, n) == IF m < n THEN m ELSE n

Terminated(l) == Append(l, Newline)

\* What follows the last newline among the first n characters, and the lines that
\* end before it, of which the empty ones are skipped.
WithLine(lines, l) == IF l = << >> THEN lines ELSE Append(lines, l)
Rests(chars) ==
  LET rest[n \in 0..Len(chars)] ==
        IF n = 0 THEN << >>
        ELSE IF chars[n] = Newline THEN << >> ELSE Append(rest[n - 1], chars[n])
  IN rest
Lines(chars) ==
  LET lines[n \in 0..Len(chars)] ==
        IF n = 0 THEN << >>
        ELSE IF chars[n] = Newline THEN WithLine(lines[n - 1], Rests(chars)[n - 1])
             ELSE lines[n - 1]
  IN lines
LinesOf(chars) == Lines(chars)[Len(chars)]
RestOf(chars) == Rests(chars)[Len(chars)]

-----------------------------------------------------------------------------
\* send_command.
SendCommand ==
  /\ Len(commanded) + Len(reported) < MaxLines
  /\ \E l \in Commands :
       /\ down' = down \o Terminated(l)
       /\ commanded' = Append(commanded, l)
  /\ UNCHANGED <<executed, whole, toPanel>>

\* Fault: getline is given up at the first line.
FirstOnly(piece) == SelectSeq(<<Head(LinesOf(piece) \o <<RestOf(piece)>>)>>,
                              LAMBDA l : l # << >>)
\* getline on one piece: the rest is a line too.
Getlines(piece) == WithLine(LinesOf(piece), RestOf(piece))

EngineReceives ==
  \E n \in 1..Smaller(Len(down), EngineBuffer) :
    LET piece == SubSeq(down, 1, n) IN
    /\ executed' = executed \o Getlines(piece)
    /\ down' = SubSeq(down, n + 1, Len(down))
    /\ whole' = (whole /\ RestOf(piece) = << >>)
    /\ UNCHANGED <<commanded, toPanel>>

\* send_tcp_message.
SendStatus ==
  /\ Len(commanded) + Len(reported) < MaxLines
  /\ \E l \in Statuses :
       /\ up' = up \o Terminated(l)
       /\ reported' = Append(reported, l)
  /\ UNCHANGED <<buffer, handled, toEngine>>

\* Fault: every piece begins a new buffer.
Forgotten(chars) == << >>
\* buffer after the loop.
KeptRest(chars) == RestOf(chars)

PanelReceives ==
  \E n \in 1..Smaller(Len(up), PanelBuffer) :
    LET chars == buffer \o SubSeq(up, 1, n) IN
    /\ handled' = handled \o LinesOf(chars)
    /\ buffer' = KeptRest(chars)
    /\ up' = SubSeq(up, n + 1, Len(up))
    /\ UNCHANGED <<reported, toEngine>>

Init ==
  /\ down = << >> /\ executed = << >> /\ commanded = << >> /\ whole = TRUE
  /\ up = << >> /\ buffer = << >> /\ handled = << >> /\ reported = << >>

Next == SendCommand \/ EngineReceives \/ SendStatus \/ PanelReceives

\* Both readers go on reading, and TCP delivers.
Spec == Init /\ [][Next]_vars /\ WF_vars(EngineReceives) /\ WF_vars(PanelReceives)

-----------------------------------------------------------------------------
(* Properties.                                                              *)

\* To the panel the connection is a channel of lines, however TCP cuts the
\* characters and however long a status is (hft_frontend.py:205-214).
ToPanel == INSTANCE LineChannel
  WITH Line <- Statuses, queue <- LinesOf(buffer \o up), handled <- handled
PanelHearsLines == ToPanel!Spec

\* Every status that was sent is handled in the end.
PanelHearsAll == \A n \in 1..MaxLines : (Len(reported) >= n) ~> (Len(handled) >= n)

\* The engine obeys: as long as no piece ends within a line, however many lines
\* it holds, the commands executed and those under way are the commands sent.
\* Whatever TCP does, no character of a command is lost: at worst the parts of one
\* are executed as commands of their own (hft_engine_linux.cpp:573-583).
EngineObeys ==
  LET obeyed == executed \o LinesOf(down) IN
  /\ whole => obeyed = commanded
  /\ FlattenSeq(obeyed) = FlattenSeq(commanded)
=============================================================================
