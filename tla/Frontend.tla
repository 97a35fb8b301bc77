------------------------------ MODULE Frontend ------------------------------
(***************************************************************************)
(* The operator's panel, pc_test/hft_frontend.py, and its conversation with *)
(* the engine.  Three kinds of threads use the same attributes without a    *)
(* lock: the Tk thread (button handlers, and the callbacks queued with      *)
(* after), one listener per connection, and one thread per conversion of a  *)
(* Parquet file.  The engine is reduced to what the panel hears of it: one  *)
(* client at a time, its commands in order, and a stream that may end by    *)
(* itself (HostEngine has the engine in detail).                            *)
(*                                                                          *)
(* Atomicity.  Tk and conversions share send_command and connect_to_engine, *)
(* and each test, assignment and call on the socket in them is a step; so   *)
(* are a listener's loop test, its recv, the handling of one line, and the  *)
(* two assignments at its end, and every callback.  What a button handler   *)
(* does before it sends concerns is_streaming and widgets only, and is one  *)
(* step: what a listener does to the flag in the middle of it, it can do    *)
(* just before or after.  A thread that writes to a widget waits for the Tk *)
(* loop; the waits are left out, they take behaviours away.                 *)
(***************************************************************************)
EXTENDS Integers, Sequences, FiniteSets

CONSTANTS
  Profiles,        \* users
  Converters,      \* bound on the conversions at a time: one thread each
  MaxConnections   \* bound on the sockets

\* What there is to stream: "twin" is a Parquet file with the base name of
\* "parquet" in another directory, "upper" one that ends in capital letters.
File == {"csv", "parquet", "twin", "upper"}
Convertible == {"parquet", "twin"}

ASSUME PanelAssumption ==
  /\ Profiles \subseteq [patient : BOOLEAN, files : SUBSET File, model : BOOLEAN,
                      clicks : Nat, starts : Nat \ {0}, rows : Nat]
  /\ IsFiniteSet(Converters) /\ "tk" \notin Converters
  /\ MaxConnections \in Nat \ {0}

\* A patient user waits until nothing is under way; files are what there is to
\* stream, model tells whether there is one to send.  The bounds of a session: the clicks that send a command, the starts of
\* the engine process, the row messages.

VARIABLES
  profile,    \* the user of the instance; does not change
  selected,   \* csv_filepath
  isConnected, isStreaming, sock,  \* attributes of the app; sock 0 is not connected
  streamButton, testButton,        \* text and state of the two buttons
  modelOn, reconnectOn,            \* state of the other two
  after,      \* the callbacks queued for the Tk thread
  thread,     \* the Tk thread and the conversions
  listener,   \* per listener: where it is, its socket, the lines it received
  chan,       \* per socket: lines under way, and which ends are open
  opened,     \* sockets connected so far
  cached,     \* the file under the name of the converted one
  up, serving, stream,       \* engine: process, client, stream
  clicks, starts, rows,      \* bounded counters
  intent,     \* history: the user's last click on a stream button, or a conversion after it
  crossed     \* history: a listener noticed a loss while a click was carried out

chosen  == <<profile, selected>>
app     == <<isConnected, isStreaming, sock>>
buttons == <<streamButton, testButton, modelOn>>
widgets == <<buttons, reconnectOn>>
engine  == <<up, serving, stream, starts, rows>>
user    == <<clicks, intent, crossed>>
vars == <<chosen, app, widgets, after, thread, listener, chan, opened, cached, engine, user>>

Sockets == 1..MaxConnections
Threads == {"tk"} \cup Converters

Button == [text : {"start", "stop"}, on : BOOLEAN]
StartButton == [text |-> "start", on |-> TRUE]

Command == {"MODEL", "STREAM", "TEST_STREAM", "STOP"}
Message == {"MODEL_OK", "TIMEOUT", "ERROR", "STREAM_FINISHED", "STOPPED", "ROW"}
\* A complete conversion is named for its source, "mixed" has two of them; "torn" is
\* what a conversion left that failed or was ended in the middle.
CachedFile == Convertible \cup {"none", "partial", "mixed", "torn"}
Callback == {"modelNormal", "streamNormal", "testNormal", "disconnect", "reset"}

\* at: idle; the steps of a conversion, of send_command and of connect_to_engine.
\* conn: the connection made last.
Place == {"idle", "reading", "writing", "check", "connect", "dial", "flag", "listen",
          "refused", "test", "send", "broken"}
Thread == [at : Place, cmd : Command \cup {"none"}, file : File \cup {"none"},
           conn : {0} \cup Sockets]
Idle == [at |-> "idle", cmd |-> "none", file |-> "none", conn |-> 0]

\* cmds: to the engine; msgs: to the panel; open: the engine's end; closed: the
\* panel has closed its end.
Channel == [cmds : Seq(Command), msgs : Seq(Message), open : BOOLEAN, closed : BOOLEAN]
NoChannel == [cmds |-> << >>, msgs |-> << >>, open |-> FALSE, closed |-> TRUE]
Fresh == [cmds |-> << >>, msgs |-> << >>, open |-> TRUE, closed |-> FALSE]

NoListener == [at |-> "none", on |-> 0, buffer |-> << >>]

-----------------------------------------------------------------------------
(* connect_to_engine and send_command, of the Tk thread and of a conversion. *)

Goes(t, place) == thread' = [thread EXCEPT ![t].at = place]
Ends(t) == thread' = [thread EXCEPT ![t] = Idle]

\* if not self.is_connected, before.
Check(t) ==
  /\ thread[t].at = "check"
  /\ Goes(t, IF isConnected THEN "test" ELSE "connect")
  /\ UNCHANGED <<chosen, app, widgets, after, listener, chan, opened, cached, engine, user>>

Closed == IF sock = 0 THEN chan ELSE [chan EXCEPT ![sock].closed = TRUE]

\* The old socket is closed and a new one made.
Connect(t) ==
  /\ thread[t].at = "connect"
  /\ chan' = Closed /\ sock' = 0
  /\ Goes(t, "dial")
  /\ UNCHANGED <<chosen, isConnected, isStreaming, widgets, after, listener, opened, cached,
                 engine, user>>

\* self.sock is connected, unless no engine listens, or another thread has done so.
Dial(t) ==
  /\ thread[t].at = "dial"
  /\ \/ /\ up /\ sock = 0 /\ opened < MaxConnections
        /\ opened' = opened + 1 /\ sock' = opened + 1
        /\ chan' = [chan EXCEPT ![opened + 1] = Fresh]
        /\ thread' = [thread EXCEPT ![t].at = "flag", ![t].conn = opened + 1]
     \/ /\ ~up \/ sock # 0
        /\ Goes(t, "refused")
        /\ UNCHANGED <<sock, chan, opened>>
  /\ UNCHANGED <<chosen, isConnected, isStreaming, widgets, after, listener, cached,
                 engine, user>>

Flag(t) ==
  /\ thread[t].at = "flag"
  /\ isConnected' = TRUE
  /\ Goes(t, "listen")
  /\ UNCHANGED <<chosen, isStreaming, sock, widgets, after, listener, chan, opened, cached,
                 engine, user>>

\* Fault: a connection sends, whoever asked for it.
AlwaysSends(t) == Goes(t, "test")
\* connect_to_engine returns, to send_command if that called it.
Returns(t) == IF thread[t].cmd = "none" THEN Ends(t) ELSE Goes(t, "test")

Listen(t) ==
  /\ thread[t].at = "listen"
  /\ reconnectOn' = FALSE
  /\ listener' = [listener EXCEPT ![thread[t].conn].at = "loop"]
  /\ Returns(t)
  /\ UNCHANGED <<chosen, app, buttons, after, chan, opened, cached, engine, user>>

Refused(t) ==
  /\ thread[t].at = "refused"
  /\ isConnected' = FALSE
  /\ reconnectOn' = TRUE
  /\ Returns(t)
  /\ UNCHANGED <<chosen, isStreaming, sock, buttons, after, listener, chan, opened, cached,
                 engine, user>>

\* if self.is_connected, after.
Test(t) ==
  /\ thread[t].at = "test"
  /\ IF isConnected THEN Goes(t, "send") ELSE Ends(t)
  /\ UNCHANGED <<chosen, app, widgets, after, listener, chan, opened, cached, engine, user>>

\* sendall: on a connection the engine has dropped it may succeed or raise.
Send(t) ==
  /\ thread[t].at = "send"
  /\ \/ /\ sock # 0 /\ chan[sock].open
        /\ chan' = [chan EXCEPT ![sock].cmds = Append(@, thread[t].cmd)]
        /\ Ends(t)
        /\ intent' = IF t # "tk" /\ intent = "stop" THEN "overtaken" ELSE intent
     \/ /\ sock # 0 /\ ~chan[sock].open
        /\ Ends(t)
        /\ UNCHANGED <<chan, intent>>
     \/ /\ sock \in Sockets => ~chan[sock].open
        /\ Goes(t, "broken")
        /\ UNCHANGED <<chan, intent>>
  /\ UNCHANGED <<chosen, app, widgets, after, listener, opened, cached, engine, clicks,
                 crossed>>

Broken(t) ==
  /\ thread[t].at = "broken"
  /\ isConnected' = FALSE
  /\ Ends(t)
  /\ UNCHANGED <<chosen, isStreaming, sock, widgets, after, listener, chan, opened, cached,
                 engine, user>>

Sending(t) ==
  \/ Check(t) \/ Connect(t) \/ Dial(t) \/ Flag(t) \/ Listen(t) \/ Refused(t)
  \/ Test(t) \/ Send(t) \/ Broken(t)

-----------------------------------------------------------------------------
(* The Tk thread: buttons.                                                  *)

TkIdle == thread["tk"].at = "idle"
Busy == {t \in Threads : thread[t].at # "idle"}

\* Nothing is under way.
Quiet ==
  /\ after = << >> /\ Busy = {}
  /\ \A l \in Sockets :
       \/ listener[l].at \in {"none", "gone"}
       \/ listener[l].at = "recv" /\ chan[listener[l].on].open
  /\ \A g \in Sockets : chan[g].open => chan[g].cmds = << >> /\ chan[g].msgs = << >>

\* The user clicks.  Every thread may need a connection.
Click ==
  /\ TkIdle
  /\ clicks < profile.clicks /\ opened + Cardinality(Busy) < MaxConnections
  /\ profile.patient => Quiet
  /\ clicks' = clicks + 1

\* The handler goes on to send_command.
Commands(c) ==
  thread' = [thread EXCEPT !["tk"] = [Idle EXCEPT !.at = "check", !.cmd = c,
               !.file = IF c = "STREAM" THEN selected ELSE "none"]]

\* Fault: the flag is left as it is.
ButtonOnly == UNCHANGED isStreaming
\* The user stops: toggle_stream and toggle_test_stream.
FlagCleared == isStreaming' = FALSE

\* Fault: only the button is reset.
NothingSent(c) == UNCHANGED thread
\* The stop goes to the engine whatever the panel knows of the stream.
StopSent(c) == Commands(c)

\* toggle_stream returns at once, also from a Stop, if no file was selected.
FileChosen == selected # "none"

StopStream ==
  /\ Click /\ streamButton.on /\ isStreaming /\ FileChosen
  /\ FlagCleared
  /\ streamButton' = [streamButton EXCEPT !.text = "start"]
  /\ testButton' = [testButton EXCEPT !.on = TRUE]
  /\ StopSent("STOP")
  /\ intent' = "stop"
  /\ UNCHANGED <<chosen, isConnected, sock, modelOn, reconnectOn, after, listener, chan,
                 opened, cached, engine, crossed>>

\* Fault: the conversion is started and the stream as well.
NoConversion == FALSE
\* A Parquet file is converted first, unless a file has the name of the result.
NeedsConversion == selected \in Convertible /\ cached = "none"

\* The stream is sent for at once, or by a thread that converts the file.
StartStream ==
  /\ Click /\ streamButton.on /\ ~isStreaming /\ FileChosen
  /\ isStreaming' = TRUE
  /\ streamButton' = [streamButton EXCEPT !.text = "stop"]
  /\ testButton' = [testButton EXCEPT !.on = FALSE]
  /\ \/ ~NeedsConversion /\ Commands("STREAM")
     \/ /\ NeedsConversion
        /\ \E t \in Converters \ Busy :
             thread' = [thread EXCEPT ![t] =
               [Idle EXCEPT !.at = "reading", !.cmd = "STREAM", !.file = selected]]
  /\ intent' = "start"
  /\ UNCHANGED <<chosen, isConnected, sock, modelOn, reconnectOn, after, listener, chan,
                 opened, cached, engine, crossed>>

StopTest ==
  /\ Click /\ testButton.on /\ isStreaming
  /\ FlagCleared
  /\ testButton' = [testButton EXCEPT !.text = "start"]
  /\ streamButton' = [streamButton EXCEPT !.on = TRUE]
  /\ StopSent("STOP")
  /\ intent' = "stop"
  /\ UNCHANGED <<chosen, isConnected, sock, modelOn, reconnectOn, after, listener, chan,
                 opened, cached, engine, crossed>>

StartTest ==
  /\ Click /\ testButton.on /\ ~isStreaming
  /\ isStreaming' = TRUE
  /\ testButton' = [testButton EXCEPT !.text = "stop"]
  /\ streamButton' = [streamButton EXCEPT !.on = FALSE]
  /\ Commands("TEST_STREAM")
  /\ intent' = "start"
  /\ UNCHANGED <<chosen, isConnected, sock, modelOn, reconnectOn, after, listener, chan,
                 opened, cached, engine, crossed>>

\* The user selects a file; a stream or a conversion keeps its own.
FileSelected ==
  /\ TkIdle /\ profile.patient => Quiet
  /\ selected' \in profile.files
  /\ UNCHANGED <<profile, app, widgets, after, thread, listener, chan, opened, cached,
                 engine, user>>

\* A model enables the button that send_model disables.
ModelSelected ==
  /\ TkIdle /\ profile.patient => Quiet
  /\ profile.model /\ ~modelOn /\ modelOn' = TRUE
  /\ UNCHANGED <<chosen, app, streamButton, testButton, reconnectOn, after, thread, listener,
                 chan, opened, cached, engine, user>>

SelectFile == FileSelected
SelectModel == ModelSelected

\* handle_drop: either kind of file, by its ending; others are refused.
Drop == FileSelected \/ ModelSelected

\* A .pth file that cannot be processed changes nothing.
SendModel ==
  /\ Click /\ modelOn
  /\ modelOn' = FALSE
  /\ Commands("MODEL")
  /\ UNCHANGED <<chosen, app, streamButton, testButton, reconnectOn, after, listener, chan,
                 opened, cached, engine, intent, crossed>>

Connecting == [Idle EXCEPT !.at = "connect"]

Reconnect ==
  /\ Click /\ reconnectOn
  /\ thread' = [thread EXCEPT !["tk"] = Connecting]
  /\ UNCHANGED <<chosen, app, widgets, after, listener, chan, opened, cached, engine, intent,
                 crossed>>

\* The user closes the window, which takes all threads and sockets with it, and
\* starts the panel again.
Restart ==
  /\ Click
  /\ selected' = "none" /\ UNCHANGED profile
  /\ isConnected' = FALSE /\ isStreaming' = FALSE /\ sock' = 0
  /\ streamButton' = StartButton /\ testButton' = StartButton
  /\ modelOn' = FALSE /\ reconnectOn' = TRUE
  /\ after' = << >>
  /\ thread' = [t \in Threads |-> IF t = "tk" THEN Connecting ELSE Idle]
  /\ listener' = [l \in Sockets |-> IF listener[l].at = "none" THEN NoListener
                                   ELSE [NoListener EXCEPT !.at = "gone"]]
  /\ chan' = [g \in Sockets |-> [chan[g] EXCEPT !.closed = TRUE]]
  /\ cached' = (IF \E t \in Converters : thread[t].at = "writing" THEN "torn" ELSE cached)
  /\ intent' = "none" /\ crossed' = FALSE
  /\ UNCHANGED <<opened, engine>>

-----------------------------------------------------------------------------
(* The Tk thread: callbacks.                                                *)

\* handle_disconnect.
Disconnected ==
  /\ reconnectOn' = TRUE
  /\ streamButton' = StartButton /\ testButton' = StartButton
  /\ UNCHANGED <<isStreaming, modelOn>>

\* reset_ui_on_error.
Reset ==
  /\ isStreaming' = FALSE
  /\ streamButton' = [streamButton EXCEPT !.text = "start"]
  /\ testButton' = [testButton EXCEPT !.on = TRUE]
  /\ UNCHANGED <<modelOn, reconnectOn>>

RunCallback ==
  /\ TkIdle /\ after # << >>
  /\ after' = Tail(after)
  /\ \/ /\ Head(after) = "modelNormal"
        /\ modelOn' = TRUE
        /\ UNCHANGED <<isStreaming, streamButton, testButton, reconnectOn>>
     \/ /\ Head(after) = "streamNormal"
        /\ streamButton' = StartButton
        /\ UNCHANGED <<isStreaming, testButton, modelOn, reconnectOn>>
     \/ /\ Head(after) = "testNormal"
        /\ testButton' = StartButton
        /\ UNCHANGED <<isStreaming, streamButton, modelOn, reconnectOn>>
     \/ Head(after) = "disconnect" /\ Disconnected
     \/ Head(after) = "reset" /\ Reset
  /\ UNCHANGED <<chosen, isConnected, sock, thread, listener, chan, opened, cached, engine,
                 user>>

-----------------------------------------------------------------------------
(* convert_and_start: the file exists from the moment it is written to.     *)

\* The others that write it.
Writing(t) == {u \in Converters \ {t} : thread[u].at = "writing"}

BeginWriting(t) ==
  /\ thread[t].at = "reading"
  /\ Goes(t, "writing")
  /\ cached' = IF \E u \in Writing(t) : thread[u].file # thread[t].file
               THEN "mixed" ELSE "partial"
  /\ UNCHANGED <<chosen, app, widgets, after, listener, chan, opened, engine, user>>

Converted(t) ==
  /\ thread[t].at = "writing"
  /\ Goes(t, "check")
  /\ cached' = IF Writing(t) # {} \/ cached = "mixed" THEN cached ELSE thread[t].file
  /\ UNCHANGED <<chosen, app, widgets, after, listener, chan, opened, engine, user>>

ConversionFails(t) ==
  /\ \/ thread[t].at = "reading" /\ UNCHANGED cached
     \/ /\ thread[t].at = "writing"
        /\ cached' = IF Writing(t) # {} THEN cached ELSE "torn"
  /\ Ends(t)
  /\ after' = Append(after, "reset")
  /\ UNCHANGED <<chosen, app, widgets, listener, chan, opened, engine, user>>

Conversion(t) == BeginWriting(t) \/ Converted(t) \/ ConversionFails(t)

-----------------------------------------------------------------------------
(* tcp_listener and handle_engine_message.                                  *)

\* while self.is_connected.
LoopTest(l) ==
  /\ listener[l].at = "loop"
  /\ listener' = [listener EXCEPT ![l] =
       IF isConnected THEN [@ EXCEPT !.at = "call", !.on = sock]
                      ELSE [@ EXCEPT !.at = "ending"]]
  /\ UNCHANGED <<chosen, app, widgets, after, thread, chan, opened, cached, engine, user>>

\* self.sock is read anew in each round, just after the test or now: recv raises on a
\* socket that was closed meanwhile or is not connected.  Once it waits, it keeps
\* the socket.
Call(l) ==
  /\ listener[l].at = "call"
  /\ \E g \in {listener[l].on, sock} :
       listener' = [listener EXCEPT ![l].on = g,
         ![l].at = IF g = 0 THEN "ending" ELSE IF chan[g].closed THEN "ending" ELSE "recv"]
  /\ UNCHANGED <<chosen, app, widgets, after, thread, chan, opened, cached, engine, user>>

\* Any number of the lines that have arrived.
Receive(l) ==
  LET g == listener[l].on IN
  /\ listener[l].at = "recv"
  /\ \E n \in 1..Len(chan[g].msgs) :
       /\ listener' = [listener EXCEPT ![l].at = "handle",
                                      ![l].buffer = SubSeq(chan[g].msgs, 1, n)]
       /\ chan' = [chan EXCEPT ![g].msgs = SubSeq(@, n + 1, Len(@))]
  /\ UNCHANGED <<chosen, app, widgets, after, thread, opened, cached, engine, user>>

\* Fault: only the end of the file is taken for the end of a stream.
OnlyFinished(m) == m = "STREAM_FINISHED"
\* A stream is over, as far as the panel knows.
EndsStream(m) == m \in {"STREAM_FINISHED", "STOPPED"}

\* Fault: only a success gives the button back.
OnlyOk(m) == m = "MODEL_OK"
\* The answers that give the model button back.
EnablesModel(m) == m \in {"MODEL_OK", "TIMEOUT", "ERROR"}

\* One line.
Handle(l) ==
  LET m == Head(listener[l].buffer) IN
  /\ listener[l].at = "handle"
  /\ listener' = [listener EXCEPT ![l].buffer = Tail(@),
                    ![l].at = IF Len(listener[l].buffer) = 1 THEN "loop" ELSE "handle"]
  /\ isStreaming' = (isStreaming /\ ~EndsStream(m))
  /\ after' = after \o
       CASE EnablesModel(m) -> <<"modelNormal">>
         [] EndsStream(m) -> <<"streamNormal", "testNormal">>
         [] OTHER -> << >>
  /\ UNCHANGED <<chosen, isConnected, sock, widgets, thread, chan, opened, cached, engine,
                 user>>

\* Fault: an empty recv is taken for no data yet.
NeverEof(g) == FALSE
\* recv returns no bytes or raises once the engine's end is gone.
AtEof(g) == chan[g].msgs = << >> /\ ~chan[g].open

Eof(l) ==
  /\ listener[l].at = "recv" /\ AtEof(listener[l].on)
  /\ listener' = [listener EXCEPT ![l].at = "ending"]
  /\ UNCHANGED <<chosen, app, widgets, after, thread, chan, opened, cached, engine, user>>

MarkDisconnected(l) ==
  /\ listener[l].at = "ending"
  /\ isConnected' = FALSE
  /\ listener' = [listener EXCEPT ![l].at = "ended"]
  /\ crossed' = (crossed \/ ~TkIdle)
  /\ UNCHANGED <<chosen, isStreaming, sock, widgets, after, thread, chan, opened, cached,
                 engine, clicks, intent>>

ListenerEnds(l) ==
  /\ listener[l].at = "ended"
  /\ isStreaming' = FALSE
  /\ after' = Append(after, "disconnect")
  /\ listener' = [listener EXCEPT ![l].at = "gone"]
  /\ UNCHANGED <<chosen, isConnected, sock, widgets, thread, chan, opened, cached, engine,
                 user>>

Listener(l) ==
  \/ LoopTest(l) \/ Call(l) \/ Receive(l) \/ Handle(l) \/ Eof(l)
  \/ MarkDisconnected(l) \/ ListenerEnds(l)

-----------------------------------------------------------------------------
(* The engine, as the panel meets it.                                       *)

panel == <<chosen, app, widgets, after, thread, listener, opened, cached, user>>

\* Fault: recv returning 0 is not taken for the end.
NeverHungUp(g) == FALSE
\* The kernel closes the panel's end when no recv holds the socket any more.
HungUp(g) ==
  chan[g].closed /\ \A l \in Sockets : ~(listener[l].at = "recv" /\ listener[l].on = g)

\* The engine's is_streaming; "ended" is a worker that ended and was not joined.
Streaming == {"file", "test", "finishing"}

EngineAccept ==
  /\ up /\ serving = 0
  /\ \E g \in Sockets :
       /\ chan[g].open /\ \A h \in Sockets : chan[h].open => g <= h
       /\ serving' = g
  /\ UNCHANGED <<panel, chan, up, stream, starts, rows>>

\* What the panel can read of a message to it.
Told(ms) == [chan EXCEPT ![serving].msgs = @ \o ms]

Answered(ms) == [Told(ms) EXCEPT ![serving].cmds = Tail(@)]

\* A process that ends takes all its connections with it; lines under way to
\* the panel arrive or not.
Gone == \E keep \in BOOLEAN :
  chan' = [g \in Sockets |->
             [chan[g] EXCEPT !.open = FALSE, !.cmds = << >>,
                             !.msgs = IF keep THEN @ ELSE << >>]]
Dies == up' = FALSE /\ serving' = 0 /\ stream' = "none" /\ Gone

EngineCommand ==
  /\ up /\ serving # 0 /\ chan[serving].cmds # << >>
  /\ LET c == Head(chan[serving].cmds) IN
     \/ /\ c = "MODEL"
        /\ \E m \in {"MODEL_OK", "TIMEOUT", "ERROR"} : chan' = Answered(<<m>>)
        /\ UNCHANGED <<up, serving, stream>>
     \/ /\ c = "STOP"
        /\ IF stream \in Streaming
           THEN stream' = "none" /\ chan' = Answered(<<"STOPPED">>)
           ELSE UNCHANGED stream /\ chan' = Answered(<< >>)
        /\ UNCHANGED <<up, serving>>
     \/ /\ c \in {"STREAM", "TEST_STREAM"} /\ stream # "ended"
        /\ stream' = (IF c = "STREAM" THEN "file" ELSE "test")
        /\ chan' = Answered(<< >>)
        /\ UNCHANGED <<up, serving>>
     \/ /\ c \in {"STREAM", "TEST_STREAM"} /\ stream = "ended"  \* std::terminate
        /\ Dies
  /\ UNCHANGED <<panel, starts, rows>>

EngineRow ==
  /\ up /\ stream \in {"file", "test"} /\ rows < profile.rows
  /\ \E m \in {"ROW", "TIMEOUT"} : chan' = Told(<<m>>)
  /\ rows' = rows + 1
  /\ UNCHANGED <<panel, up, serving, stream, starts>>

\* A file ends or cannot be opened; random data never ends.
EngineFinish ==
  /\ up /\ stream = "file"
  /\ \E m \in {"STREAM_FINISHED", "ERROR"} : chan' = Told(<<m>>)
  /\ stream' = "finishing"
  /\ UNCHANGED <<panel, up, serving, starts, rows>>

\* The worker clears the engine's own is_streaming after its last message.
EngineEnded ==
  /\ up /\ stream = "finishing"
  /\ stream' = "ended"
  /\ UNCHANGED <<panel, chan, up, serving, starts, rows>>

\* Fault: the worker outlives its connection.
WorkerKept == UNCHANGED stream
\* is_streaming is cleared and the worker joined.
WorkerJoined == stream' = "none"

\* recv returns 0: the worker is joined, the connection closed.
EngineHangup ==
  /\ up /\ serving # 0 /\ chan[serving].cmds = << >> /\ HungUp(serving)
  /\ serving' = 0 /\ WorkerJoined
  /\ chan' = [chan EXCEPT ![serving].open = FALSE, ![serving].msgs = << >>]
  /\ UNCHANGED <<panel, up, starts, rows>>

EngineDies ==
  /\ up
  /\ Dies
  /\ UNCHANGED <<panel, starts, rows>>

EngineStarts ==
  /\ ~up /\ starts < profile.starts
  /\ up' = TRUE /\ starts' = starts + 1
  /\ UNCHANGED <<panel, chan, serving, stream, rows>>

EngineWorks == EngineAccept \/ EngineCommand \/ EngineFinish \/ EngineEnded \/ EngineHangup
Engine == EngineWorks \/ EngineRow \/ EngineDies \/ EngineStarts

-----------------------------------------------------------------------------
\* __init__ goes on to connect_to_engine before the window opens.
Init ==
  /\ profile \in Profiles /\ selected = "none"
  /\ up \in BOOLEAN /\ starts = (IF up THEN 1 ELSE 0)
  /\ sock = 0 /\ opened = 0 /\ isConnected = FALSE /\ isStreaming = FALSE
  /\ reconnectOn = TRUE /\ modelOn = FALSE
  /\ streamButton = StartButton /\ testButton = StartButton
  /\ after = << >>
  /\ thread = [t \in Threads |-> IF t = "tk" THEN Connecting ELSE Idle]
  /\ chan = [g \in Sockets |-> NoChannel]
  /\ listener = [l \in Sockets |-> NoListener]
  /\ cached = "none"
  /\ serving = 0 /\ stream = "none" /\ rows = 0
  /\ clicks = 0 /\ intent = "none" /\ crossed = FALSE

Buttons ==
  \/ StartStream \/ StopStream \/ StartTest \/ StopTest
  \/ SelectFile \/ SelectModel \/ Drop \/ SendModel \/ Reconnect \/ Restart

Next ==
  \/ Buttons \/ RunCallback \/ Engine
  \/ \E t \in Threads : Sending(t)
  \/ \E t \in Converters : Conversion(t)
  \/ \E l \in Sockets : Listener(l)

Spec == Init /\ [][Next]_vars

\* The Tk loop, the threads and the engine run; nobody has to click, and a
\* process need not end or start.
FairSpec ==
  /\ Spec
  /\ WF_vars(RunCallback \/ Sending("tk"))
  /\ \A t \in Converters : WF_vars(Conversion(t) \/ Sending(t))
  /\ \A l \in Sockets : WF_vars(Listener(l))
  /\ WF_vars(EngineAccept \/ EngineCommand \/ EngineHangup)

-----------------------------------------------------------------------------
(* Properties.                                                              *)

TypeOK ==
  /\ {isConnected, isStreaming, modelOn, reconnectOn, up} \subseteq BOOLEAN
  /\ sock \in 0..opened /\ opened \in 0..MaxConnections /\ serving \in 0..opened
  /\ streamButton \in Button /\ testButton \in Button
  /\ after \in Seq(Callback)
  /\ listener \in [Sockets ->
       [at : {"none", "loop", "call", "recv", "handle", "ending", "ended", "gone"},
        on : 0..opened, buffer : Seq(Message)]]
  /\ chan \in [Sockets -> Channel]
  /\ thread \in [Threads -> Thread] /\ cached \in CachedFile
  /\ profile \in Profiles /\ selected \in File \cup {"none"}
  /\ stream \in Streaming \union {"none", "ended"}
  /\ starts \in 0..profile.starts /\ rows \in 0..profile.rows /\ clicks \in 0..profile.clicks
  /\ intent \in {"none", "start", "stop", "overtaken"} /\ crossed \in BOOLEAN

\* Nothing is under way between the panel and the engine.
AtRest == Quiet /\ up /\ isConnected /\ serving = sock /\ stream # "finishing"

\* When everything has been said, a panel that shows no stream has an engine
\* that runs none: "Data stream finished or stopped." (hft_frontend.py:239) is true.
IdlePanelIdleEngine == AtRest /\ ~isStreaming => stream \notin {"file", "test"}

\* A user who waits for every answer and converts nothing, and met no loss in the
\* middle of a click: one that the listener notices then resets the flag (218-220)
\* beside a handler that reconnects and starts a stream all the same (260-265).
Careful ==
  /\ profile.patient /\ profile.files \cap Convertible = {}
  /\ ~crossed

\* For a careful user it is, whatever else happens: a stream that ends by itself,
\* an engine that dies and comes back, a closed window (hft_frontend.py:218-241,
\* 429-505).
CarefulIdleIsIdle == Careful => IdlePanelIdleEngine

\* For the same user a button offers Stop exactly if a click on it will stop: the
\* text is derived from messages, the action from the flag.
TextMatchesAction ==
  Careful /\ AtRest => (isStreaming <=> "stop" \in {streamButton.text, testButton.text})

\* Thread t sends for the stream of a Parquet file.
ConvertedSent(t) ==
  /\ thread[t].at = "send" /\ thread'[t] # thread[t]
  /\ thread[t].cmd = "STREAM" /\ thread[t].file \in Convertible
  /\ \E g \in Sockets : Len(chan'[g].cmds) > Len(chan[g].cmds)

\* A file that is streamed is not being written: with one conversion at a time the
\* panel never streams a converted file that is still incomplete, except for what
\* is left of a conversion that failed (hft_frontend.py:453-485).
StreamsWholeFile ==
  [][profile.patient => \A t \in Threads :
       ConvertedSent(t) => cached \in Convertible \cup {"torn"}]_vars

\* Stop prevails: if the user's last word was Stop and everything has been said,
\* no stream runs, however the clicks overlapped with messages, callbacks and
\* reconnections.  Only a conversion that ends after the Stop overtakes it.
StopPrevails == AtRest /\ intent = "stop" => stream \notin {"file", "test"}

\* The panel has a connection, whatever it believes.
Connected == sock # 0 /\ chan[sock].open

\* A lost connection is noticed: the panel offers to reconnect, or has done so.
LossNoticed == (sock # 0 /\ ~Connected) ~> (reconnectOn \/ Connected)

\* A listener waits on a connection that the panel has closed: close() does not end
\* its recv, and the engine goes on with that client.
Held == \E l \in Sockets : listener[l].at = "recv" /\ chan[listener[l].on].closed

\* A panel that shows "Connected" talks to the engine: its connection is served,
\* replaced or lost, or an old listener keeps the engine from it.
ConnectionServed ==
  Connected ~> (serving = sock \/ ~Connected \/ Held)

\* A patient user's model gets an answer and its button back, or the connection is
\* lost on the way.
ModelAnswered ==
  (profile.patient /\ Connected /\ \E i \in DOMAIN chan[sock].cmds : chan[sock].cmds[i] = "MODEL")
    ~> (modelOn \/ ~Connected)
=============================================================================
