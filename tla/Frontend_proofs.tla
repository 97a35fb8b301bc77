--------------------------- MODULE Frontend_proofs ---------------------------
(***************************************************************************)
(* What holds of the panel for every set of users, every set of conversions  *)
(* and every bound on the connections: its variables keep their types, a     *)
(* Stop prevails, a converted file is streamed whole, and a careful user's   *)
(* panel is true to the engine.                                              *)
(*                                                                          *)
(* Why a Stop prevails.  It is sent on the newest connection, and the engine *)
(* serves connections one at a time and joins its worker before the next:    *)
(* Served.  So only the commands on the newest connection matter: either the *)
(* last of them that concerns a stream is the Stop, or the Stop is still to  *)
(* be sent, or it was dropped because the panel was not connected, and then  *)
(* only a conversion can connect to what still streams: Overruled.           *)
(*                                                                          *)
(* Why a file is whole.  A patient user has one thread busy at a time, and   *)
(* the file is "partial" only while it writes: OneAtATime.                   *)
(*                                                                          *)
(* Why a careful user's panel is true.  Such a user clicks only when nothing *)
(* is under way, so there is never more than one listener and never more     *)
(* than one command: OneListener, OneClick.  Buttons and engine may each lag *)
(* behind the flag, but only by what is queued or under way: ButtonsFollow,  *)
(* EngineFollows.  The news of an end cannot meet the next start, because    *)
(* the flag is still set until it has been heard.                            *)
(***************************************************************************)
EXTENDS Frontend, TLAPS

ListenerPlace == {"none", "loop", "call", "recv", "handle", "ending", "ended", "gone"}
ListenerState(top) == [at : ListenerPlace, on : 0..top, buffer : Seq(Message)]

\* The part of TypeOK that the threads change.
Wiring ==
  /\ isConnected \in BOOLEAN /\ reconnectOn \in BOOLEAN
  /\ opened \in 0..MaxConnections /\ sock \in 0..opened /\ serving \in 0..opened
  /\ listener \in [Sockets -> ListenerState(opened)]
  /\ chan \in [Sockets -> Channel]

\* The rest of it, but for the threads themselves.
Display ==
  /\ isStreaming \in BOOLEAN /\ modelOn \in BOOLEAN /\ up \in BOOLEAN
  /\ streamButton \in Button /\ testButton \in Button
  /\ after \in Seq(Callback) /\ cached \in CachedFile
  /\ profile \in Profiles /\ selected \in File \cup {"none"}
  /\ stream \in Streaming \union {"none", "ended"}
  /\ starts \in 0..profile.starts /\ rows \in 0..profile.rows /\ clicks \in 0..profile.clicks
  /\ intent \in {"none", "start", "stop", "overtaken"} /\ crossed \in BOOLEAN

\* A served connection is open, the panel's own is not closed by it, a dropped one holds
\* no commands and one not yet made is not open; a listener that waits has a socket, and
\* one that handles lines has some.
Linked ==
  /\ serving # 0 => chan[serving].open
  /\ sock # 0 => ~chan[sock].closed
  /\ \A g \in Sockets : ~chan[g].open => chan[g].cmds = << >>
  /\ \A g \in Sockets : chan[g].open => g <= opened
  /\ \A l \in Sockets :
       /\ listener[l].at = "recv" => listener[l].on # 0
       /\ listener[l].at = "handle" => listener[l].buffer # << >>

\* A thread that is about to send has a command, a conversion that of a Parquet file;
\* the Tk thread converts nothing.
Carries(t, state) ==
  /\ state.at \in {"check", "test", "send", "broken"} => state.cmd \in Command
  /\ t # "tk" /\ state.at # "idle" => state.cmd = "STREAM"
  /\ state.at \in {"reading", "writing"} => t # "tk" /\ state.file \in Convertible
Threaded ==
  /\ thread \in [Threads -> Thread]
  /\ \A t \in Threads : Carries(t, thread[t])

\* Between two connections the engine runs no worker.
Served == serving = 0 => stream = "none"

StartCommands == {"STREAM", "TEST_STREAM"}

\* Every start among the commands is followed by a STOP.
HasStop(cmds) == \E k \in 1..Len(cmds) : cmds[k] = "STOP"
StopsAll(cmds) ==
  \A k \in 1..Len(cmds) : cmds[k] \in StartCommands => \E j \in k..Len(cmds) : cmds[j] = "STOP"

\* What the newest connection holds ends without a stream.
Stopped ==
  sock # 0 =>
    /\ StopsAll(chan[sock].cmds)
    /\ serving = sock /\ stream \in {"file", "test"} => HasStop(chan[sock].cmds)

\* The Tk thread has one of cmds to send.
Waiting(cmds) == thread["tk"].at # "idle" /\ thread["tk"].cmd \in cmds

\* A conversion that will overtake the Stop, or leave the panel disconnected.
ConversionSends == \E t \in Converters : thread[t].at \in {"listen", "test", "send"}

\* After a Stop the newest connection is stopped, or the Stop is still to be sent, or it
\* was dropped and only a conversion can connect to what is left.
Overruled ==
  intent = "stop" =>
    /\ ~Waiting(StartCommands)
    /\ thread["tk"].at \in {"dial", "flag"} => Stopped
    /\ Stopped \/ ~isConnected \/ Waiting({"STOP"}) \/ ConversionSends

PanelInv == Wiring /\ Display /\ Linked /\ Threaded /\ Served /\ Overruled

-----------------------------------------------------------------------------
\* The type invariant.
LEMMA TypeParts == Wiring /\ Display /\ Threaded => TypeOK
<1> SUFFICES ASSUME Wiring, Display, Threaded PROVE TypeOK  OBVIOUS
<1>1. {isConnected, isStreaming, modelOn, reconnectOn, up} \subseteq BOOLEAN
  <2>1. /\ isConnected \in BOOLEAN /\ isStreaming \in BOOLEAN /\ modelOn \in BOOLEAN
        /\ reconnectOn \in BOOLEAN /\ up \in BOOLEAN
    BY DEF Wiring, Display
  <2> QED  BY <2>1, Zenon
<1> QED  BY <1>1 DEF TypeOK, Wiring, Display, Threaded, ListenerState, ListenerPlace

\* The bounds are naturals and the files are those there are (hft_frontend.py:421-427).
LEMMA ProfileBounds ==
  ASSUME NEW p \in Profiles
  PROVE  /\ p.clicks \in Nat /\ p.starts \in Nat \ {0} /\ p.rows \in Nat
         /\ p.files \subseteq File /\ p.patient \in BOOLEAN
BY PanelAssumption

\* Sockets are numbered from one.
LEMMA SocketNumbers ==
  /\ MaxConnections \in Nat \ {0}
  /\ \A n \in Nat : n # 0 /\ n <= MaxConnections => n \in Sockets
  /\ Sockets \subseteq Nat \ {0}
BY PanelAssumption DEF Sockets

\* A command is added at the end.
LEMMA Appended ==
  ASSUME NEW cmds \in Seq(Command), NEW c \in Command
  PROVE  LET more == Append(cmds, c) IN
         /\ more \in Seq(Command)
         /\ StopsAll(cmds) /\ c \notin StartCommands => StopsAll(more)
         /\ HasStop(cmds) => HasStop(more)
         /\ c = "STOP" => StopsAll(more) /\ HasStop(more)
<1> DEFINE more == Append(cmds, c)
           n == Len(cmds)
<1>1. /\ more \in Seq(Command) /\ n \in Nat /\ Len(more) = n + 1
      /\ more[n + 1] = c /\ \A k \in 1..n : more[k] = cmds[k]
  OBVIOUS
<1> HIDE DEF more
<1>2. HasStop(cmds) => HasStop(more)  BY <1>1 DEF HasStop
<1>3. ASSUME c = "STOP" PROVE StopsAll(more) /\ HasStop(more)
  <2>1. n + 1 \in 1..Len(more) /\ more[n + 1] = "STOP"  BY <1>1, <1>3
  <2>2. \A k \in 1..Len(more) : n + 1 \in k..Len(more)  BY <1>1
  <2> QED  BY <2>1, <2>2 DEF StopsAll, HasStop
<1>4. ASSUME StopsAll(cmds), c \notin StartCommands PROVE StopsAll(more)
  <2> SUFFICES ASSUME NEW k \in 1..Len(more), more[k] \in StartCommands
               PROVE  \E j \in k..Len(more) : more[j] = "STOP"
    BY DEF StopsAll
  <2>1. k \in 1..n  BY <1>1, <1>4
  <2>2. PICK j \in k..n : cmds[j] = "STOP"  BY <1>1, <1>4, <2>1 DEF StopsAll
  <2> QED  BY <1>1, <2>1, <2>2
<1> QED  BY <1>1, <1>2, <1>3, <1>4 DEF more

\* The first command is taken off: what is left has a STOP for the same starts,
\* unless it was a STOP itself.
LEMMA TakenOff ==
  ASSUME NEW cmds \in Seq(Command), cmds # << >>, StopsAll(cmds)
  PROVE  LET rest == Tail(cmds) IN
         /\ rest \in Seq(Command) /\ StopsAll(rest)
         /\ Head(cmds) \in StartCommands => HasStop(rest)
         /\ Head(cmds) # "STOP" /\ HasStop(cmds) => HasStop(rest)
<1> DEFINE rest == Tail(cmds)
           n == Len(cmds)
<1>1. /\ rest \in Seq(Command) /\ n \in Nat \ {0} /\ Len(rest) = n - 1
      /\ Head(cmds) = cmds[1] /\ \A k \in 1..(n - 1) : rest[k] = cmds[k + 1]
  OBVIOUS
<1> HIDE DEF rest
<1>2. ASSUME NEW j \in 1..n, cmds[j] = "STOP", Head(cmds) # "STOP"
      PROVE  j - 1 \in 1..Len(rest) /\ rest[j - 1] = "STOP"
  <2>1. j # 1  BY <1>1, <1>2
  <2>2. j - 1 \in 1..(n - 1) /\ (j - 1) + 1 = j  BY <1>1, <2>1
  <2> QED  BY <1>1, <1>2, <2>2
<1>3. Head(cmds) # "STOP" /\ HasStop(cmds) => HasStop(rest)
  BY <1>2, <1>1 DEF HasStop
<1>4. ASSUME Head(cmds) \in StartCommands PROVE HasStop(rest)
  <2>1. 1 \in 1..n /\ cmds[1] \in StartCommands  BY <1>1, <1>4
  <2>2. PICK j \in 1..n : cmds[j] = "STOP"  BY <2>1 DEF StopsAll
  <2>3. Head(cmds) # "STOP"  BY <1>4 DEF StartCommands
  <2> QED  BY <1>2, <2>2, <2>3 DEF HasStop
<1>5. StopsAll(rest)
  <2> SUFFICES ASSUME NEW k \in 1..Len(rest), rest[k] \in StartCommands
               PROVE  \E j \in k..Len(rest) : rest[j] = "STOP"
    BY DEF StopsAll
  <2>1. k + 1 \in 1..n /\ cmds[k + 1] \in StartCommands  BY <1>1
  <2>2. PICK j \in (k + 1)..n : cmds[j] = "STOP"  BY <2>1 DEF StopsAll
  <2>3. j - 1 \in k..Len(rest) /\ j - 1 \in 1..(n - 1) /\ (j - 1) + 1 = j  BY <1>1, <2>1, <2>2
  <2>4. rest[j - 1] = "STOP"  BY <1>1, <2>2, <2>3
  <2> QED  BY <2>3, <2>4
<1> QED  BY <1>1, <1>3, <1>4, <1>5 DEF rest

-----------------------------------------------------------------------------
\* What a listener's state must be beside its type.
Able(state) ==
  /\ state.at = "recv" => state.on # 0
  /\ state.at = "handle" => state.buffer # << >>

\* A listener that has not started has its type wherever it is.
LEMMA IdleListener ==
  ASSUME NEW n \in Nat
  PROVE  /\ NoListener \in ListenerState(n) /\ Able(NoListener)
         /\ LET quit == [NoListener EXCEPT !.at = "gone"] IN
            quit \in ListenerState(n) /\ Able(quit) /\ quit.at = "gone"
<1>1. 0 \in 0..n /\ << >> \in Seq(Message)  OBVIOUS
<1>2. {"none", "gone"} \subseteq ListenerPlace  BY DEF ListenerPlace
<1> QED  BY <1>1, <1>2 DEF NoListener, ListenerState, Able

\* The threads at the start: the Tk thread connects (hft_frontend.py:37-56).
LEMMA FirstThreads ==
  LET first == [t \in Threads |-> IF t = "tk" THEN Connecting ELSE Idle] IN
  first \in [Threads -> Thread] /\ \A t \in Threads : Carries(t, first[t])
<1>1. Idle \in Thread /\ Connecting \in Thread  BY DEF Idle, Connecting, Thread, Place
<1>2. \A t \in Threads : Carries(t, Idle) /\ Carries("tk", Connecting)
  BY DEF Idle, Connecting, Carries
<1> QED  BY <1>1, <1>2

\* The panel starts without a connection, and nothing said (hft_frontend.py:37-56).
LEMMA PanelInit == Init => PanelInv
<1> SUFFICES ASSUME Init PROVE PanelInv  OBVIOUS
<1>1. profile \in Profiles /\ up \in BOOLEAN /\ sock = 0 /\ opened = 0 /\ serving = 0
  BY DEF Init
<1>2. Wiring
  <2>1. /\ opened \in 0..MaxConnections /\ sock \in 0..opened /\ serving \in 0..opened
    BY <1>1, SocketNumbers
  <2>2. isConnected \in BOOLEAN /\ reconnectOn \in BOOLEAN
    <3>1. isConnected = FALSE /\ reconnectOn = TRUE  BY DEF Init
    <3> QED  BY <3>1, Zenon
  <2>3. NoChannel \in Channel  BY DEF NoChannel, Channel
  <2>4. NoListener \in ListenerState(opened)
    <3>1. opened \in Nat  BY <1>1
    <3> QED  BY <3>1, IdleListener
  <2> QED  BY <2>1, <2>2, <2>3, <2>4 DEF Wiring, Init
<1>3. Display
  <2>1. profile.starts \in Nat \ {0} /\ profile.rows \in Nat /\ profile.clicks \in Nat
    BY <1>1, ProfileBounds
  <2>2. isStreaming \in BOOLEAN /\ modelOn \in BOOLEAN /\ crossed \in BOOLEAN
    <3>1. isStreaming = FALSE /\ modelOn = FALSE /\ crossed = FALSE  BY DEF Init
    <3> QED  BY <3>1, Zenon
  <2>3. StartButton \in Button
    <3>1. TRUE \in BOOLEAN  OBVIOUS
    <3> QED  BY <3>1 DEF StartButton, Button
  <2>4. starts \in 0..profile.starts  BY <2>1 DEF Init
  <2> QED  BY <1>1, <2>1, <2>2, <2>3, <2>4 DEF Init, Display, CachedFile
<1>4. Linked
  <2>1. \A g \in Sockets : ~chan[g].open /\ chan[g].cmds = << >>  BY DEF Init, NoChannel
  <2>2. \A l \in Sockets : listener[l].at = "none"  BY DEF Init, NoListener
  <2> QED  BY <1>1, <2>1, <2>2 DEF Linked
<1>5. Threaded  BY FirstThreads DEF Init, Threaded
<1>6. Served /\ Overruled  BY DEF Init, Served, Overruled
<1> QED  BY <1>2, <1>3, <1>4, <1>5, <1>6 DEF PanelInv

-----------------------------------------------------------------------------
\* A thread goes to a state that its type allows; the others stay.
LEMMA ThreadMoves ==
  ASSUME Threaded, NEW t \in Threads, NEW state \in Thread, Carries(t, state),
         thread' = [thread EXCEPT ![t] = state]
  PROVE  /\ Threaded' /\ thread'[t] = state
         /\ \A u \in Threads : u # t => thread'[u] = thread[u]
BY DEF Threaded

\* A thread goes to another place.
LEMMA GoesOn ==
  ASSUME Threaded, NEW t \in Threads, NEW p \in Place \ {"idle", "reading"}, Goes(t, p),
         thread[t].at # "idle",
         p \in {"check", "test", "send", "broken"} => thread[t].cmd \in Command,
         p = "writing" => thread[t].at = "reading"
  PROVE  /\ Threaded' /\ thread'[t].at = p
         /\ thread'[t].cmd = thread[t].cmd /\ thread'[t].file = thread[t].file
         /\ thread'[t].conn = thread[t].conn
         /\ \A u \in Threads : u # t => thread'[u] = thread[u]
         /\ \A cmds : Waiting(cmds)' <=> Waiting(cmds)
<1> DEFINE state == [thread[t] EXCEPT !.at = p]
<1>1. thread' = [thread EXCEPT ![t] = state]  BY DEF Goes, Threaded
<1>2. thread[t] \in Thread /\ Carries(t, thread[t])  BY DEF Threaded
<1>3. /\ state \in Thread /\ state.at = p /\ state.cmd = thread[t].cmd
      /\ state.file = thread[t].file /\ state.conn = thread[t].conn
  BY <1>2 DEF Thread
<1> HIDE DEF state
<1>4. Carries(t, state)  BY <1>2, <1>3 DEF Carries
<1>5. /\ Threaded' /\ thread'[t] = state
      /\ \A u \in Threads : u # t => thread'[u] = thread[u]
  BY <1>1, <1>3, <1>4, ThreadMoves
<1>6. "tk" \in Threads  BY DEF Threads
<1>7. \A cmds : Waiting(cmds)' <=> Waiting(cmds)
  <2>1. CASE t = "tk"  BY <1>3, <1>5, <2>1 DEF Waiting
  <2>2. CASE t # "tk"  BY <1>5, <1>6, <2>2 DEF Waiting
  <2> QED  BY <2>1, <2>2
<1> QED  BY <1>3, <1>5, <1>7

\* A thread is done.
LEMMA EndsWell ==
  ASSUME Threaded, NEW t \in Threads, Ends(t)
  PROVE  /\ Threaded' /\ thread'[t] = Idle /\ Idle.at = "idle"
         /\ \A u \in Threads : u # t => thread'[u] = thread[u]
<1>1. Idle \in Thread /\ Carries(t, Idle) /\ Idle.at = "idle"
  BY DEF Idle, Thread, Place, Carries
<1> QED  BY <1>1, ThreadMoves DEF Ends

\* connect_to_engine returns; a conversion goes on to send.
LEMMA ReturnsWell ==
  ASSUME Threaded, NEW t \in Threads, thread[t].at \in {"listen", "refused"}, Returns(t)
  PROVE  /\ Threaded' /\ thread'[t].at \in {"idle", "test"}
         /\ t # "tk" => thread'[t].at = "test"
         /\ thread'[t].at = "test" =>
              thread'[t].cmd = thread[t].cmd /\ thread'[t].file = thread[t].file
         /\ \A u \in Threads : u # t => thread'[u] = thread[u]
         /\ \A cmds \in SUBSET Command : Waiting(cmds)' <=> Waiting(cmds)
<1>1. thread[t] \in Thread /\ Carries(t, thread[t])  BY DEF Threaded
<1>2. "none" \notin Command  BY DEF Command
<1>3. CASE thread[t].cmd = "none"
  <2>1. t = "tk"  BY <1>1, <1>3 DEF Carries
  <2>2. Ends(t)  BY <1>3 DEF Returns
  <2>3. /\ Threaded' /\ thread'[t] = Idle /\ Idle.at = "idle"
        /\ \A u \in Threads : u # t => thread'[u] = thread[u]
    BY <2>2, EndsWell
  <2> QED  BY <1>2, <1>3, <2>1, <2>3 DEF Waiting
<1>4. CASE thread[t].cmd # "none"
  <2>1. Goes(t, "test") /\ "test" \in Place \ {"idle", "reading"}
    BY <1>4 DEF Returns, Place
  <2>2. thread[t].cmd \in Command  BY <1>1, <1>4 DEF Thread
  <2> QED  BY <2>1, <2>2, GoesOn
<1> QED  BY <1>3, <1>4

\* The invariant is about what the conversions are about to do, and the Tk thread.
LEMMA ConversionsGo ==
  ASSUME Threaded, Threaded', NEW t \in Threads,
         \A u \in Threads : u # t => thread'[u] = thread[u],
         \/ thread[t].at \notin {"listen", "test", "send"}
         \/ thread'[t].at \in {"listen", "test", "send"}
         \/ t = "tk"
  PROVE  ConversionSends => ConversionSends'
<1> SUFFICES ASSUME NEW u \in Converters, thread[u].at \in {"listen", "test", "send"}
             PROVE  \E v \in Converters : thread'[v].at \in {"listen", "test", "send"}
  BY DEF ConversionSends
<1>1. u \in Threads /\ u # "tk"  BY PanelAssumption DEF Threads
<1> QED  BY <1>1

\* The commands on the newest connection and the stream stay as they are.
LEMMA StaysStopped ==
  ASSUME Stopped, UNCHANGED <<sock, serving, stream>>,
         sock # 0 => chan'[sock].cmds = chan[sock].cmds
  PROVE  Stopped'
BY DEF Stopped

\* Checks of the flag (hft_frontend.py:260, 263).
LEMMA CheckKeeps ==
  ASSUME PanelInv, NEW t \in Threads, Check(t) \/ Test(t)
  PROVE  PanelInv'
<1> USE DEF PanelInv
<1>1. /\ UNCHANGED <<chosen, app, widgets, after, listener, chan, opened, cached, engine, user>>
      /\ thread[t].at \in {"check", "test"}
  BY DEF Check, Test
<1>2. Wiring' /\ Display' /\ Linked' /\ Served'
  BY <1>1 DEF Wiring, Display, Linked, Served, ListenerState, chosen, app, widgets, buttons,
              engine, user
<1>3. Stopped' <=> Stopped  BY <1>1 DEF Stopped, app, engine
<1>4. isConnected' = isConnected /\ intent' = intent  BY <1>1 DEF app, user
<1>5. "tk" \in Threads /\ Command # {}  BY DEF Threads, Command
<1>6. CASE Check(t) \/ isConnected
  <2>1. PICK p \in {"test", "connect", "send"} :
          Goes(t, p) /\ (thread[t].at = "test" => p = "send")
    BY <1>6 DEF Check, Test
  <2>2. p \in Place \ {"idle", "reading"} /\ thread[t].cmd \in Command
    BY <1>1, <2>1 DEF Place, Threaded, Carries
  <2>3. /\ Threaded' /\ thread'[t].at = p
        /\ \A u \in Threads : u # t => thread'[u] = thread[u]
        /\ \A cmds : Waiting(cmds)' <=> Waiting(cmds)
    BY <1>1, <2>1, <2>2, GoesOn
  <2>4. ConversionSends => ConversionSends'  BY <1>1, <2>1, <2>3, ConversionsGo
  <2>5. thread'["tk"].at \in {"dial", "flag"} => thread["tk"].at \in {"dial", "flag"}
    BY <1>5, <2>3
  <2>6. Overruled'  BY <1>3, <1>4, <2>3, <2>4, <2>5 DEF Overruled
  <2> QED  BY <1>2, <2>3, <2>6
<1>7. CASE Test(t) /\ ~isConnected
  <2>1. Ends(t)  BY <1>7 DEF Test
  <2>2. /\ Threaded' /\ thread'[t] = Idle /\ Idle.at = "idle"
        /\ \A u \in Threads : u # t => thread'[u] = thread[u]
    BY <2>1, EndsWell
  <2>3. \A cmds : Waiting(cmds)' => Waiting(cmds)  BY <1>5, <2>2 DEF Waiting
  <2>4. thread'["tk"].at \in {"dial", "flag"} => thread["tk"].at \in {"dial", "flag"}
    BY <1>5, <2>2
  <2>5. Overruled'  BY <1>3, <1>4, <1>7, <2>3, <2>4 DEF Overruled
  <2> QED  BY <1>2, <2>2, <2>5
<1> QED  BY <1>6, <1>7

\* The old connection is closed (hft_frontend.py:184-186).
LEMMA ConnectKeeps == ASSUME PanelInv, NEW t \in Threads, Connect(t) PROVE PanelInv'
<1> USE DEF PanelInv
<1>1. /\ sock' = 0 /\ chan' = Closed /\ Goes(t, "dial") /\ thread[t].at = "connect"
      /\ UNCHANGED <<chosen, isConnected, isStreaming, widgets, after, listener, opened, cached,
                     engine, user>>
  BY DEF Connect
<1>2. /\ chan' \in [Sockets -> Channel]
      /\ \A g \in Sockets : chan'[g].open = chan[g].open /\ chan'[g].cmds = chan[g].cmds
  <2>1. CASE sock = 0  BY <1>1, <2>1 DEF Closed, Wiring
  <2>2. CASE sock # 0
    <3>1. sock \in Sockets  BY <2>2, SocketNumbers DEF Wiring
    <3> QED  BY <1>1, <2>2, <3>1 DEF Closed, Wiring, Channel
  <2> QED  BY <2>1, <2>2
<1>3. 0 \in 0..opened /\ (serving # 0 => serving \in Sockets)  BY SocketNumbers DEF Wiring
<1>4. Wiring'  BY <1>1, <1>2, <1>3 DEF Wiring, ListenerState, widgets, engine
<1>5. Linked'  BY <1>1, <1>2, <1>3 DEF Linked, engine
<1>6. Display' /\ Served'
  BY <1>1 DEF Display, Served, chosen, widgets, buttons, engine, user
<1>7. "dial" \in Place \ {"idle", "reading"}  BY DEF Place
<1>8. Threaded' /\ \A cmds : Waiting(cmds)' <=> Waiting(cmds)  BY <1>1, <1>7, GoesOn
<1>9. Overruled'  BY <1>1, <1>8 DEF Overruled, Stopped, user
<1> QED  BY <1>4, <1>5, <1>6, <1>8, <1>9

\* The engine takes the connection or not (hft_frontend.py:187).
LEMMA DialKeeps == ASSUME PanelInv, NEW t \in Threads, Dial(t) PROVE PanelInv'
<1> USE DEF PanelInv
<1>1. /\ thread[t].at = "dial" /\ "tk" \in Threads
      /\ UNCHANGED <<chosen, isConnected, isStreaming, widgets, after, listener, cached,
                     engine, user>>
  BY DEF Dial, Threads
<1>2. Display' /\ Served'
  BY <1>1 DEF Display, Served, chosen, widgets, buttons, engine, user
<1>3. CASE Goes(t, "refused") /\ UNCHANGED <<sock, chan, opened>>
  <2>1. Wiring' /\ Linked' /\ (Stopped' <=> Stopped)
    BY <1>1, <1>3 DEF Wiring, Linked, ListenerState, Stopped, widgets, engine
  <2>2. "refused" \in Place \ {"idle", "reading"}  BY DEF Place
  <2>3. /\ Threaded' /\ thread'[t].at = "refused"
        /\ \A u \in Threads : u # t => thread'[u] = thread[u]
        /\ \A cmds : Waiting(cmds)' <=> Waiting(cmds)
    BY <1>1, <1>3, <2>2, GoesOn
  <2>4. ConversionSends => ConversionSends'  BY <1>1, <2>3, ConversionsGo
  <2>5. thread'["tk"].at \in {"dial", "flag"} => thread["tk"].at \in {"dial", "flag"}
    BY <1>1, <2>3
  <2>6. Overruled'  BY <1>1, <2>1, <2>3, <2>4, <2>5 DEF Overruled, user
  <2> QED  BY <1>2, <2>1, <2>3, <2>6
<1>4. CASE opened < MaxConnections /\ sock' = opened + 1
  <2> DEFINE new == opened + 1
             state == [thread[t] EXCEPT !.at = "flag", !.conn = new]
  <2>1. /\ opened' = new /\ sock' = new /\ chan' = [chan EXCEPT ![new] = Fresh]
        /\ thread' = [thread EXCEPT ![t] = state]
    <3>1. sock # opened + 1  BY DEF Wiring
    <3>2. /\ opened' = new /\ chan' = [chan EXCEPT ![new] = Fresh]
          /\ thread' = [thread EXCEPT ![t].at = "flag", ![t].conn = new]
      BY <1>4, <3>1 DEF Dial
    <3> QED  BY <1>4, <3>2 DEF Threaded
  <2>2. /\ opened \in Nat /\ new \in Sockets /\ new # 0 /\ new \in 0..MaxConnections
        /\ serving \in 0..new /\ serving # new /\ (serving # 0 => serving \in Sockets)
    BY <1>4, SocketNumbers DEF Wiring
  <2>3. Fresh \in Channel /\ Fresh.open /\ Fresh.cmds = << >> /\ ~Fresh.closed
    BY DEF Fresh, Channel
  <2>4. /\ chan' \in [Sockets -> Channel] /\ chan'[new] = Fresh
        /\ \A g \in Sockets : g # new => chan'[g] = chan[g]
    BY <2>1, <2>2, <2>3 DEF Wiring
  <2>5. listener' \in [Sockets -> ListenerState(new)]
    <3>1. 0..opened \subseteq 0..new  BY <2>2
    <3>2. ListenerState(opened) \subseteq ListenerState(new)  BY <3>1 DEF ListenerState
    <3> QED  BY <1>1, <3>2 DEF Wiring
  <2>6. Wiring'
    <3>1. new \in 0..new  BY <2>2
    <3> QED  BY <1>1, <2>1, <2>2, <2>4, <2>5, <3>1 DEF Wiring, widgets, engine
  <2>7. Linked'
    <3>1. serving # 0 => chan'[serving].open  BY <2>2, <2>4 DEF Linked
    <3>2. \A g \in Sockets : ~chan'[g].open => chan'[g].cmds = << >>
      BY <2>3, <2>4 DEF Linked
    <3>3. \A g \in Sockets : chan'[g].open => g <= new
      BY <2>2, <2>4, SocketNumbers DEF Linked
    <3> QED  BY <1>1, <2>1, <2>3, <2>4, <3>1, <3>2, <3>3 DEF Linked, engine
  <2>8. /\ state \in Thread /\ state.at = "flag" /\ state.cmd = thread[t].cmd
        /\ Carries(t, state)
    <3>1. thread[t] \in Thread /\ Carries(t, thread[t])  BY DEF Threaded
    <3>2. "flag" \in Place  BY DEF Place
    <3>3. state \in Thread /\ state.at = "flag" /\ state.cmd = thread[t].cmd
      BY <2>2, <3>1, <3>2 DEF Thread
    <3> HIDE DEF state
    <3> QED  BY <1>1, <3>1, <3>3 DEF Carries
  <2> HIDE DEF state
  <2>9. /\ Threaded' /\ thread'[t] = state
        /\ \A u \in Threads : u # t => thread'[u] = thread[u]
    BY <2>1, <2>8, ThreadMoves
  <2>10. Stopped'
    <3>1. StopsAll(<< >>)  BY DEF StopsAll
    <3> QED  BY <1>1, <2>1, <2>2, <2>3, <2>4, <3>1 DEF Stopped, engine
  <2>11. \A cmds : Waiting(cmds)' => Waiting(cmds)  BY <1>1, <2>8, <2>9 DEF Waiting
  <2>12. Overruled'  BY <1>1, <2>10, <2>11 DEF Overruled, user
  <2> QED  BY <1>2, <2>6, <2>7, <2>9, <2>12
<1> QED  BY <1>3, <1>4 DEF Dial

\* The flag is set: the connection is the Tk thread's, which left it stopped, or a
\* conversion goes on to send (hft_frontend.py:188).
LEMMA FlagKeeps == ASSUME PanelInv, NEW t \in Threads, Flag(t) PROVE PanelInv'
<1> USE DEF PanelInv
<1>1. /\ thread[t].at = "flag" /\ "tk" \in Threads /\ isConnected' = TRUE /\ Goes(t, "listen")
      /\ UNCHANGED <<chosen, isStreaming, sock, widgets, after, listener, chan, opened, cached,
                     engine, user>>
  BY DEF Flag, Threads
<1>2. Display' /\ Served' /\ Linked' /\ (Stopped' <=> Stopped)
  BY <1>1 DEF Display, Served, Linked, Stopped, chosen, widgets, buttons, engine, user
<1>3. Wiring'
  <2>1. isConnected' \in BOOLEAN  BY <1>1, Zenon
  <2> QED  BY <1>1, <2>1 DEF Wiring, ListenerState, widgets, engine
<1>4. "listen" \in Place \ {"idle", "reading"}  BY DEF Place
<1>5. /\ Threaded' /\ thread'[t].at = "listen"
      /\ \A u \in Threads : u # t => thread'[u] = thread[u]
      /\ \A cmds : Waiting(cmds)' <=> Waiting(cmds)
  BY <1>1, <1>4, GoesOn
<1>6. thread'["tk"].at \in {"dial", "flag"} => thread["tk"].at \in {"dial", "flag"}
  BY <1>1, <1>5
<1>7. t # "tk" => ConversionSends'  BY <1>5 DEF ConversionSends, Threads
<1>8. t = "tk" /\ intent = "stop" => Stopped  BY <1>1 DEF Overruled
<1>9. Overruled'  BY <1>1, <1>2, <1>5, <1>6, <1>7, <1>8 DEF Overruled, user
<1> QED  BY <1>2, <1>3, <1>5, <1>9

\* connect_to_engine returns with a listener, or without one (hft_frontend.py:189-199).
LEMMA ListenKeeps ==
  ASSUME PanelInv, NEW t \in Threads, Listen(t) \/ Refused(t)
  PROVE  PanelInv'
<1> USE DEF PanelInv
<1>1. /\ thread[t].at \in {"listen", "refused"} /\ "tk" \in Threads /\ Returns(t)
      /\ UNCHANGED <<chosen, isStreaming, sock, buttons, after, chan, opened, cached, engine, user>>
      /\ isConnected' = isConnected \/ isConnected' = FALSE
  BY DEF Listen, Refused, Threads, app
<1>2. isConnected' \in BOOLEAN /\ reconnectOn' \in BOOLEAN
  <2>1. isConnected \in BOOLEAN /\ reconnectOn' \in {TRUE, FALSE}
    BY DEF Wiring, Listen, Refused
  <2> QED  BY <1>1, <2>1, Zenon
<1>3. /\ listener' \in [Sockets -> ListenerState(opened)]
      /\ \A l \in Sockets : Able(listener'[l])
  <2>1. \A l \in Sockets : listener[l] \in ListenerState(opened) /\ Able(listener[l])
    BY DEF Wiring, Linked, Able
  <2>2. CASE Refused(t)  BY <2>1, <2>2 DEF Refused, Wiring
  <2>3. CASE Listen(t)
    <3> DEFINE n == thread[t].conn
               rec == [listener[n] EXCEPT !.at = "loop"]
    <3>1. listener' = [listener EXCEPT ![n] = rec]  BY <2>3 DEF Listen
    <3>2. ASSUME n \in Sockets PROVE rec \in ListenerState(opened) /\ rec.at = "loop"
      BY <2>1, <3>2 DEF ListenerState, ListenerPlace
    <3> HIDE DEF rec, n
    <3>3. n \in Sockets => Able(rec)  BY <3>2 DEF Able
    <3> QED  BY <2>1, <3>1, <3>2, <3>3 DEF Wiring
  <2> QED  BY <2>2, <2>3
<1>4. Wiring' /\ Linked'
  BY <1>1, <1>2, <1>3 DEF Wiring, Linked, Able, ListenerState, engine
<1>5. Display' /\ Served' /\ (Stopped' <=> Stopped)
  BY <1>1 DEF Display, Served, Stopped, chosen, buttons, engine, user
<1>6. /\ Threaded' /\ thread'[t].at \in {"idle", "test"}
      /\ t # "tk" => thread'[t].at = "test"
      /\ \A u \in Threads : u # t => thread'[u] = thread[u]
      /\ \A cmds \in SUBSET Command : Waiting(cmds)' <=> Waiting(cmds)
  BY <1>1, ReturnsWell
<1>7. ConversionSends => ConversionSends'  BY <1>6, ConversionsGo
<1>8. thread'["tk"].at \in {"dial", "flag"} => thread["tk"].at \in {"dial", "flag"}
  BY <1>1, <1>6
<1>9. StartCommands \in SUBSET Command /\ {"STOP"} \in SUBSET Command
  BY DEF StartCommands, Command
<1>10. Overruled'  BY <1>1, <1>5, <1>6, <1>7, <1>8, <1>9 DEF Overruled, user
<1> QED  BY <1>4, <1>5, <1>6, <1>10

\* Nobody serves a connection the engine has dropped, and it holds nothing.
LEMMA DroppedIsStopped ==
  ASSUME PanelInv, sock \in Sockets => ~chan[sock].open
  PROVE  Stopped
<1> SUFFICES ASSUME sock # 0 PROVE chan[sock].cmds = << >> /\ serving # sock
  BY DEF Stopped, StopsAll
<1>1. sock \in Sockets  BY SocketNumbers DEF PanelInv, Wiring
<1> QED  BY <1>1 DEF PanelInv, Linked

\* sendall succeeds: the command is the last on the newest connection
\* (hft_frontend.py:265).
LEMMA CommandSent ==
  ASSUME PanelInv, NEW t \in Threads, Send(t), sock # 0, chan[sock].open,
         chan' = [chan EXCEPT ![sock].cmds = Append(@, thread[t].cmd)], Ends(t),
         intent' = IF t # "tk" /\ intent = "stop" THEN "overtaken" ELSE intent
  PROVE  PanelInv'
<1> USE DEF PanelInv
<1> DEFINE c == thread[t].cmd
           rec == [chan[sock] EXCEPT !.cmds = Append(chan[sock].cmds, c)]
<1>1. /\ thread[t].at = "send" /\ "tk" \in Threads
      /\ UNCHANGED <<chosen, app, widgets, after, listener, opened, cached, engine, clicks, crossed>>
  BY DEF Send, Threads
<1>2. /\ sock \in Sockets /\ (serving # 0 => serving \in Sockets)
      /\ sock <= opened /\ chan[sock] \in Channel
  BY SocketNumbers DEF Wiring, Linked
<1>3. c \in Command  BY <1>1 DEF Threaded, Carries
<1>4. chan' = [chan EXCEPT ![sock] = rec]  OBVIOUS
<1>5. /\ rec \in Channel /\ rec.open /\ rec.cmds = Append(chan[sock].cmds, c)
      /\ rec.closed = chan[sock].closed /\ chan[sock].cmds \in Seq(Command)
  <2>1. chan[sock].cmds \in Seq(Command)  BY <1>2 DEF Channel
  <2>2. Append(chan[sock].cmds, c) \in Seq(Command)  BY <1>3, <2>1
  <2> QED  BY <1>2, <2>1, <2>2 DEF Channel
<1> HIDE DEF rec
<1>6. /\ chan' \in [Sockets -> Channel] /\ chan'[sock] = rec
      /\ \A g \in Sockets : g # sock => chan'[g] = chan[g]
  BY <1>2, <1>4, <1>5 DEF Wiring
<1>7. Wiring'  BY <1>1, <1>6 DEF Wiring, ListenerState, app, widgets, engine
<1>8. Linked'
  <2>1. serving # 0 => chan'[serving].open  BY <1>2, <1>5, <1>6 DEF Linked
  <2>2. \A g \in Sockets : ~chan'[g].open => chan'[g].cmds = << >>
    BY <1>5, <1>6 DEF Linked
  <2>3. \A g \in Sockets : chan'[g].open => g <= opened  BY <1>2, <1>6 DEF Linked
  <2>4. ~chan'[sock].closed  BY <1>5, <1>6 DEF Linked
  <2> QED  BY <1>1, <2>1, <2>2, <2>3, <2>4 DEF Linked, app, engine
<1>9. Display' /\ Served'
  <2>1. intent' \in {"none", "start", "stop", "overtaken"}  BY DEF Display
  <2> QED  BY <1>1, <2>1 DEF Display, Served, chosen, app, widgets, buttons, engine
<1>10. /\ Threaded' /\ thread'[t] = Idle /\ Idle.at = "idle"
       /\ \A u \in Threads : u # t => thread'[u] = thread[u]
  BY EndsWell
<1>11. Overruled'
  <2> SUFFICES ASSUME intent' = "stop"
               PROVE  ~Waiting(StartCommands)' /\ (Stopped \/ c = "STOP" => Stopped')
                      /\ (ConversionSends => ConversionSends')
                      /\ ~Waiting({"STOP"})' /\ t = "tk" /\ intent = "stop"
    <3>1. thread'["tk"].at \in {"dial", "flag"} => t # "tk"  BY <1>10
    <3>2. t = "tk" /\ Waiting({"STOP"}) => c = "STOP"  BY DEF Waiting
    <3> QED  BY <1>1, <3>1, <3>2 DEF Overruled, app
  <2>1. t = "tk" /\ intent = "stop"  OBVIOUS
  <2>2. thread'["tk"].at = "idle"  BY <1>10, <2>1
  <2>3. c \notin StartCommands  BY <1>1, <2>1 DEF Overruled, Waiting
  <2>4. ConversionSends => ConversionSends'  BY <1>10, <2>1, ConversionsGo
  <2>5. chan'[sock].cmds = Append(chan[sock].cmds, c)  BY <1>5, <1>6
  <2>6. Stopped \/ c = "STOP" => Stopped'
    BY <1>1, <1>2, <1>3, <1>5, <2>3, <2>5, Appended DEF Stopped, app, engine
  <2> QED  BY <2>1, <2>2, <2>4, <2>6 DEF Waiting
<1> QED  BY <1>7, <1>8, <1>9, <1>10, <1>11

\* sendall (hft_frontend.py:264-267).
LEMMA SendKeeps == ASSUME PanelInv, NEW t \in Threads, Send(t) PROVE PanelInv'
<1> USE DEF PanelInv
<1>1. CASE /\ sock # 0 /\ chan[sock].open
           /\ chan' = [chan EXCEPT ![sock].cmds = Append(@, thread[t].cmd)] /\ Ends(t)
           /\ intent' = IF t # "tk" /\ intent = "stop" THEN "overtaken" ELSE intent
  BY <1>1, CommandSent
<1>2. CASE /\ sock \in Sockets => ~chan[sock].open
           /\ Ends(t) \/ Goes(t, "broken")
           /\ UNCHANGED <<chan, intent>>
  <2>1. /\ thread[t].at = "send" /\ "tk" \in Threads
        /\ UNCHANGED <<chosen, app, widgets, after, listener, opened, cached, engine, clicks, crossed>>
    BY DEF Send, Threads
  <2>2. Wiring' /\ Display' /\ Linked' /\ Served' /\ (Stopped' <=> Stopped)
    BY <1>2, <2>1 DEF Wiring, Display, Linked, Served, Stopped, ListenerState, chosen, app,
                      widgets, buttons, engine
  <2>3. Stopped  BY <1>2, DroppedIsStopped
  <2>4. Threaded' /\ \A cmds : Waiting(cmds)' => Waiting(cmds)
    <3>1. CASE Ends(t)
      <4>1. /\ Threaded' /\ thread'[t] = Idle /\ Idle.at = "idle"
            /\ \A u \in Threads : u # t => thread'[u] = thread[u]
        BY <3>1, EndsWell
      <4> QED  BY <2>1, <4>1 DEF Waiting
    <3>2. CASE Goes(t, "broken")
      <4>1. "broken" \in Place \ {"idle", "reading"} /\ thread[t].cmd \in Command
        BY <2>1 DEF Place, Threaded, Carries
      <4> QED  BY <2>1, <3>2, <4>1, GoesOn
    <3> QED  BY <1>2, <3>1, <3>2
  <2>5. Overruled'  BY <1>2, <2>2, <2>3, <2>4 DEF Overruled
  <2> QED  BY <2>2, <2>4, <2>5
<1>3. (sock # 0 /\ ~chan[sock].open) => (sock \in Sockets => ~chan[sock].open)  OBVIOUS
<1> QED  BY <1>1, <1>2, <1>3 DEF Send

\* sendall has raised (hft_frontend.py:266-267).
LEMMA BrokenKeeps == ASSUME PanelInv, NEW t \in Threads, Broken(t) PROVE PanelInv'
<1> USE DEF PanelInv
<1>1. /\ thread[t].at = "broken" /\ "tk" \in Threads /\ isConnected' = FALSE /\ Ends(t)
      /\ UNCHANGED <<chosen, isStreaming, sock, widgets, after, listener, chan, opened, cached,
                     engine, user>>
  BY DEF Broken, Threads
<1>2. Display' /\ Served' /\ Linked' /\ (Stopped' <=> Stopped)
  BY <1>1 DEF Display, Served, Linked, Stopped, chosen, widgets, buttons, engine, user
<1>3. Wiring'
  <2>1. isConnected' \in BOOLEAN  BY <1>1, Zenon
  <2> QED  BY <1>1, <2>1 DEF Wiring, ListenerState, widgets, engine
<1>4. /\ Threaded' /\ thread'[t] = Idle /\ Idle.at = "idle"
      /\ \A u \in Threads : u # t => thread'[u] = thread[u]
  BY <1>1, EndsWell
<1>5. \A cmds : Waiting(cmds)' => Waiting(cmds)  BY <1>1, <1>4 DEF Waiting
<1>6. thread'["tk"].at \in {"dial", "flag"} => thread["tk"].at \in {"dial", "flag"}
  BY <1>1, <1>4
<1>7. Overruled'  BY <1>1, <1>2, <1>5, <1>6 DEF Overruled, user
<1> QED  BY <1>2, <1>3, <1>4, <1>7

\* A thread's own steps (hft_frontend.py:182-199, 259-268).
LEMMA SendingKeeps == ASSUME PanelInv, NEW t \in Threads, Sending(t) PROVE PanelInv'
BY CheckKeeps, ConnectKeeps, DialKeeps, FlagKeeps, ListenKeeps, SendKeeps, BrokenKeeps
   DEF Sending

-----------------------------------------------------------------------------
\* What a click leaves of the bounds.
LEMMA ClickCounts ==
  ASSUME Display, Click, profile' = profile
  PROVE  clicks' \in 0..profile'.clicks
<1>1. profile \in Profiles /\ clicks \in 0..profile.clicks  BY DEF Display
<1>2. profile.clicks \in Nat  BY <1>1, ProfileBounds
<1> QED  BY <1>1, <1>2 DEF Click

\* A button of the two keeps its type when one field of it is set.
LEMMA ButtonSet ==
  ASSUME NEW b \in Button
  PROVE  /\ \A x \in {"start", "stop"} : [b EXCEPT !.text = x] \in Button
         /\ [b EXCEPT !.on = TRUE] \in Button /\ [b EXCEPT !.on = FALSE] \in Button
         /\ StartButton \in Button
<1>1. TRUE \in BOOLEAN /\ FALSE \in BOOLEAN  OBVIOUS
<1> QED  BY <1>1 DEF Button, StartButton

\* The Tk thread, idle before, has a command to send.
LEMMA TkCommands ==
  ASSUME Threaded, selected \in File \cup {"none"}, NEW c \in Command, Commands(c)
  PROVE  /\ Threaded' /\ thread'["tk"].at = "check" /\ thread'["tk"].cmd = c
         /\ \A u \in Threads : u # "tk" => thread'[u] = thread[u]
<1> DEFINE state == [Idle EXCEPT !.at = "check", !.cmd = c,
                       !.file = IF c = "STREAM" THEN selected ELSE "none"]
<1>1. /\ state \in Thread /\ state.at = "check" /\ state.cmd = c
      /\ Carries("tk", state) /\ "tk" \in Threads
  BY DEF Idle, Thread, Place, Carries, Threads
<1>2. thread' = [thread EXCEPT !["tk"] = state]  BY DEF Commands
<1> HIDE DEF state
<1> QED  BY <1>1, <1>2, ThreadMoves

\* What happens to a connection that changes neither threads nor the user's last click.
LEMMA StaysOverruled ==
  ASSUME PanelInv, UNCHANGED <<thread, intent>>,
         ~isConnected => ~isConnected', Stopped => Stopped'
  PROVE  Overruled'
BY DEF PanelInv, Overruled, Waiting, ConversionSends

\* Stop of either stream: it is still to be sent (hft_frontend.py:434-445, 491-497).
LEMMA StopKeeps == ASSUME PanelInv, StopStream \/ StopTest PROVE PanelInv'
<1> USE DEF PanelInv
<1>1. /\ Click /\ Commands("STOP") /\ intent' = "stop" /\ isStreaming' = FALSE
      /\ UNCHANGED <<chosen, isConnected, sock, modelOn, reconnectOn, after, listener, chan,
                     opened, cached, engine, crossed>>
  BY DEF StopStream, StopTest, StopSent, FlagCleared
<1>2. streamButton' \in Button /\ testButton' \in Button
  <2>1. streamButton \in Button /\ testButton \in Button  BY DEF Display
  <2> QED  BY <2>1, ButtonSet DEF StopStream, StopTest
<1>3. Wiring' /\ Linked' /\ Served'
  BY <1>1 DEF Wiring, Linked, Served, ListenerState, engine
<1>4. isStreaming' \in BOOLEAN  BY <1>1, Zenon
<1>5. clicks' \in 0..profile'.clicks  BY <1>1, ClickCounts DEF chosen
<1>6. Display'  BY <1>1, <1>2, <1>4, <1>5 DEF Display, engine, chosen
<1>7. Threaded' /\ thread'["tk"].at = "check" /\ thread'["tk"].cmd = "STOP"
  BY <1>1, TkCommands DEF Display, Command
<1>8. Overruled'  BY <1>7 DEF Overruled, Waiting, StartCommands
<1> QED  BY <1>3, <1>6, <1>7, <1>8

\* Start of either stream (hft_frontend.py:446-489, 498-505).
LEMMA StartKeeps == ASSUME PanelInv, StartStream \/ StartTest PROVE PanelInv'
<1> USE DEF PanelInv
<1>1. /\ Click /\ intent' = "start" /\ isStreaming' = TRUE
      /\ UNCHANGED <<chosen, isConnected, sock, modelOn, reconnectOn, after, listener, chan,
                     opened, cached, engine, crossed>>
  BY DEF StartStream, StartTest
<1>2. streamButton' \in Button /\ testButton' \in Button
  <2>1. streamButton \in Button /\ testButton \in Button  BY DEF Display
  <2> QED  BY <2>1, ButtonSet DEF StartStream, StartTest
<1>3. Wiring' /\ Linked' /\ Served'
  BY <1>1 DEF Wiring, Linked, Served, ListenerState, engine
<1>4. isStreaming' \in BOOLEAN  BY <1>1, Zenon
<1>5. clicks' \in 0..profile'.clicks  BY <1>1, ClickCounts DEF chosen
<1>6. Display'  BY <1>1, <1>2, <1>4, <1>5 DEF Display, engine, chosen
<1>7. Threaded'
  <2>1. CASE Commands("STREAM") \/ Commands("TEST_STREAM")
    BY <2>1, TkCommands DEF Display, Command
  <2>2. CASE /\ selected \in Convertible
             /\ \E t \in Converters :
                  thread' = [thread EXCEPT ![t] =
                    [Idle EXCEPT !.at = "reading", !.cmd = "STREAM", !.file = selected]]
    <3> DEFINE state == [Idle EXCEPT !.at = "reading", !.cmd = "STREAM", !.file = selected]
    <3>1. PICK t \in Converters : thread' = [thread EXCEPT ![t] = state]  BY <2>2
    <3>2. t \in Threads /\ t # "tk"  BY PanelAssumption DEF Threads
    <3>3. state \in Thread /\ Carries(t, state)
      BY <2>2, <3>2 DEF Idle, Thread, Place, Command, Carries, Display
    <3> HIDE DEF state
    <3> QED  BY <3>1, <3>2, <3>3, ThreadMoves
  <2> QED  BY <2>1, <2>2 DEF StartStream, StartTest, NeedsConversion
<1>8. Overruled'  BY <1>1 DEF Overruled
<1> QED  BY <1>3, <1>6, <1>7, <1>8

\* A model is sent, or a connection asked for (hft_frontend.py:182-199, 407-419).
LEMMA ModelKeeps == ASSUME PanelInv, SendModel \/ Reconnect PROVE PanelInv'
<1> USE DEF PanelInv
<1>1. /\ Click
      /\ UNCHANGED <<chosen, app, streamButton, testButton, reconnectOn, after, listener, chan,
                     opened, cached, engine, intent, crossed>>
      /\ modelOn' = FALSE \/ modelOn' = modelOn
  BY DEF SendModel, Reconnect, widgets, buttons
<1>2. Wiring' /\ Linked' /\ Served' /\ (Stopped' <=> Stopped)
  BY <1>1 DEF Wiring, Linked, Served, Stopped, ListenerState, app, engine
<1>3. modelOn' \in BOOLEAN
  <2>1. modelOn \in BOOLEAN  BY DEF Display
  <2> QED  BY <1>1, <2>1, Zenon
<1>4. clicks' \in 0..profile'.clicks  BY <1>1, ClickCounts DEF chosen
<1>5. Display'  BY <1>1, <1>3, <1>4 DEF Display, app, engine, chosen
<1>6. /\ Threaded' /\ thread'["tk"].at \in {"check", "connect"}
      /\ thread'["tk"].cmd \notin StartCommands
      /\ \A u \in Threads : u # "tk" => thread'[u] = thread[u]
  <2>1. CASE SendModel
    BY <2>1, TkCommands DEF SendModel, Display, Command, StartCommands
  <2>2. CASE Reconnect
    <3>1. /\ Connecting \in Thread /\ Carries("tk", Connecting) /\ Connecting.at = "connect"
          /\ Connecting.cmd = "none" /\ "tk" \in Threads
      BY DEF Connecting, Idle, Thread, Place, Carries, Threads
    <3> QED  BY <2>2, <3>1, ThreadMoves DEF Reconnect, StartCommands
  <2> QED  BY <2>1, <2>2
<1>7. thread["tk"].at = "idle" /\ "tk" \in Threads  BY <1>1 DEF Click, TkIdle, Threads
<1>8. ConversionSends => ConversionSends'  BY <1>6, <1>7, ConversionsGo
<1>9. ~Waiting({"STOP"}) /\ ~Waiting(StartCommands)'  BY <1>6, <1>7 DEF Waiting
<1>10. Overruled'  BY <1>1, <1>2, <1>6, <1>8, <1>9 DEF Overruled, app
<1> QED  BY <1>2, <1>5, <1>6, <1>10

\* A new panel has no listeners, and closes all sockets of the old one
\* (hft_frontend.py:37-56).
LEMMA RestartKeeps == ASSUME PanelInv, Restart PROVE PanelInv'
<1> USE DEF PanelInv
<1> DEFINE quit == [NoListener EXCEPT !.at = "gone"]
<1>1. /\ Click /\ selected' = "none" /\ isConnected' = FALSE /\ isStreaming' = FALSE /\ sock' = 0
      /\ streamButton' = StartButton /\ testButton' = StartButton
      /\ modelOn' = FALSE /\ reconnectOn' = TRUE /\ after' = << >>
      /\ listener' = [l \in Sockets |-> IF listener[l].at = "none" THEN NoListener ELSE quit]
      /\ chan' = [g \in Sockets |-> [chan[g] EXCEPT !.closed = TRUE]]
      /\ thread' = [t \in Threads |-> IF t = "tk" THEN Connecting ELSE Idle]
      /\ cached' \in {"torn", cached} /\ intent' = "none" /\ crossed' = FALSE
      /\ UNCHANGED <<profile, opened, engine>>
  BY DEF Restart
<1>2. /\ chan' \in [Sockets -> Channel]
      /\ \A g \in Sockets : chan'[g].open = chan[g].open /\ chan'[g].cmds = chan[g].cmds
  BY <1>1 DEF Wiring, Channel
<1>3. opened \in Nat /\ 0 \in 0..opened /\ (serving # 0 => serving \in Sockets)
  BY SocketNumbers DEF Wiring
<1>4. /\ listener' \in [Sockets -> ListenerState(opened)]
      /\ \A l \in Sockets : Able(listener'[l])
  <2>1. /\ NoListener \in ListenerState(opened) /\ quit \in ListenerState(opened)
        /\ Able(NoListener) /\ Able(quit)
    BY <1>3, IdleListener
  <2> HIDE DEF quit
  <2> QED  BY <1>1, <2>1
<1>5. /\ isStreaming' \in BOOLEAN /\ modelOn' \in BOOLEAN /\ isConnected' \in BOOLEAN
      /\ reconnectOn' \in BOOLEAN /\ crossed' \in BOOLEAN
  BY <1>1, Zenon
<1>6. Wiring'  BY <1>1, <1>2, <1>3, <1>4, <1>5 DEF Wiring, ListenerState, engine
<1>7. Linked'  BY <1>1, <1>2, <1>3, <1>4 DEF Linked, Able, engine
<1>8. clicks' \in 0..profile'.clicks  BY <1>1, ClickCounts
<1>9. StartButton \in Button
  <2>1. TRUE \in BOOLEAN  OBVIOUS
  <2> QED  BY <2>1 DEF StartButton, Button
<1>10. Display'  BY <1>1, <1>5, <1>8, <1>9 DEF Display, engine, CachedFile
<1>11. Threaded'  BY <1>1, FirstThreads DEF Threaded
<1>12. Served' /\ Overruled'  BY <1>1 DEF Served, Overruled, engine
<1> QED  BY <1>6, <1>7, <1>10, <1>11, <1>12

\* Files and models are selected or dropped (hft_frontend.py:273-302, 421-427).
LEMMA SelectionKeeps == ASSUME PanelInv, FileSelected \/ ModelSelected PROVE PanelInv'
<1>1. CASE FileSelected
  <2>1. selected' \in File
    <3>1. profile \in Profiles  BY DEF PanelInv, Display
    <3> QED  BY <1>1, <3>1, ProfileBounds DEF FileSelected
  <2>2. UNCHANGED <<profile, app, widgets, after, thread, listener, chan, opened, cached,
                    engine, user>>
    BY <1>1 DEF FileSelected
  <2>3. Overruled'  BY <2>2, StaysOverruled DEF Stopped, app, engine, user
  <2> QED
    BY <2>1, <2>2, <2>3
    DEF PanelInv, Wiring, Display, Linked, Threaded, Served, ListenerState, app, widgets,
        buttons, engine, user
<1>2. CASE ModelSelected
  <2>1. modelOn' \in BOOLEAN
    <3>1. modelOn' = TRUE  BY <1>2 DEF ModelSelected
    <3> QED  BY <3>1, Zenon
  <2>2. UNCHANGED <<chosen, app, streamButton, testButton, reconnectOn, after, thread, listener,
                    chan, opened, cached, engine, user>>
    BY <1>2 DEF ModelSelected
  <2>3. Overruled'  BY <2>2, StaysOverruled DEF Stopped, app, engine, user
  <2> QED
    BY <2>1, <2>2, <2>3
    DEF PanelInv, Wiring, Display, Linked, Threaded, Served, ListenerState, app,
        engine, user, chosen
<1> QED  BY <1>1, <1>2

\* A callback of the Tk thread sets buttons and flags only
\* (hft_frontend.py:222-241, 429-432).
LEMMA CallbackKeeps == ASSUME PanelInv, RunCallback PROVE PanelInv'
<1>1. /\ after # << >> /\ after' = Tail(after)
      /\ UNCHANGED <<chosen, isConnected, sock, thread, listener, chan, opened, cached, engine, user>>
  BY DEF RunCallback
<1>2. streamButton' \in Button /\ testButton' \in Button
  <2>1. streamButton \in Button /\ testButton \in Button  BY DEF PanelInv, Display
  <2> QED  BY <2>1, ButtonSet DEF RunCallback, Disconnected, Reset
<1>3. /\ isStreaming' = isStreaming \/ isStreaming' = FALSE
      /\ modelOn' = modelOn \/ modelOn' = TRUE
      /\ reconnectOn' = reconnectOn \/ reconnectOn' = TRUE
  BY DEF RunCallback, Disconnected, Reset
<1>4. isStreaming' \in BOOLEAN /\ modelOn' \in BOOLEAN /\ reconnectOn' \in BOOLEAN
  <2>1. isStreaming \in BOOLEAN /\ modelOn \in BOOLEAN /\ reconnectOn \in BOOLEAN
    BY DEF PanelInv, Display, Wiring
  <2> QED  BY <1>3, <2>1, Zenon
<1>5. after' \in Seq(Callback)  BY <1>1 DEF PanelInv, Display
<1>6. Display'  BY <1>1, <1>2, <1>4, <1>5 DEF PanelInv, Display, engine, user, chosen
<1>7. Wiring'  BY <1>1, <1>4 DEF PanelInv, Wiring, ListenerState, engine
<1>8. Linked' /\ Served' /\ Threaded'
  BY <1>1 DEF PanelInv, Linked, Served, Threaded, engine
<1>9. Overruled'  BY <1>1, StaysOverruled DEF Stopped, engine, user
<1> QED  BY <1>6, <1>7, <1>8, <1>9 DEF PanelInv

\* The thread of a conversion before it sends (hft_frontend.py:468-482).
LEMMA ConversionKeeps == ASSUME PanelInv, NEW t \in Converters, Conversion(t) PROVE PanelInv'
<1> USE DEF PanelInv
<1>1. t \in Threads /\ t # "tk" /\ "tk" \in Threads  BY PanelAssumption DEF Threads
<1>2. /\ thread[t].at \in {"reading", "writing"}
      /\ UNCHANGED <<chosen, app, widgets, listener, chan, opened, engine, user>>
      /\ after' = after \/ after' = Append(after, "reset")
  BY DEF Conversion, BeginWriting, Converted, ConversionFails
<1>3. cached' \in CachedFile
  <2>1. thread[t].file \in Convertible /\ cached \in CachedFile
    BY <1>1, <1>2 DEF Threaded, Carries, Display
  <2>2. CASE Converted(t)
    <3>1. cached' \in {cached, thread[t].file}  BY <2>2 DEF Converted
    <3> QED  BY <2>1, <3>1 DEF CachedFile
  <2>3. CASE ~Converted(t)
    <3>1. cached' \in {cached, "mixed", "partial", "torn"}
      BY <2>3 DEF Conversion, BeginWriting, ConversionFails
    <3> QED  BY <2>1, <3>1 DEF CachedFile
  <2> QED  BY <2>2, <2>3
<1>4. after' \in Seq(Callback)
  <2>1. "reset" \in Callback  BY DEF Callback
  <2> QED  BY <1>2, <2>1 DEF Display
<1>5. Wiring' /\ Display' /\ Linked' /\ Served' /\ (Stopped' <=> Stopped)
  BY <1>2, <1>3, <1>4 DEF Wiring, Display, Linked, Served, Stopped, ListenerState, chosen, app,
                          widgets, buttons, engine, user
<1>6. Threaded' /\ \A u \in Threads : u # t => thread'[u] = thread[u]
  <2>1. CASE Ends(t)  BY <1>1, <2>1, EndsWell
  <2>2. CASE (thread[t].at = "reading" /\ Goes(t, "writing")) \/ Goes(t, "check")
    <3>1. thread[t].cmd \in Command  BY <1>1, <1>2 DEF Threaded, Carries, Command
    <3>2. {"writing", "check"} \subseteq Place \ {"idle", "reading"}  BY DEF Place
    <3> QED  BY <1>1, <1>2, <2>2, <3>1, <3>2, GoesOn
  <2> QED  BY <2>1, <2>2 DEF Conversion, BeginWriting, Converted, ConversionFails
<1>7. ConversionSends => ConversionSends'  BY <1>1, <1>2, <1>6, ConversionsGo
<1>8. \A cmds : Waiting(cmds)' <=> Waiting(cmds)  BY <1>1, <1>6 DEF Waiting
<1>9. Overruled'  BY <1>1, <1>2, <1>5, <1>6, <1>7, <1>8 DEF Overruled, app, user
<1> QED  BY <1>5, <1>6, <1>9

-----------------------------------------------------------------------------
\* A listener that changes its own state only within its type.
LEMMA ListenerMoves ==
  ASSUME Wiring, Linked, NEW l \in Sockets, NEW state \in ListenerState(opened),
         Able(state), listener' = [listener EXCEPT ![l] = state], opened' = opened
  PROVE  /\ listener' \in [Sockets -> ListenerState(opened')]
         /\ \A k \in Sockets : Able(listener'[k])
<1>1. listener \in [Sockets -> ListenerState(opened)]  BY DEF Wiring
<1>2. \A k \in Sockets : Able(listener[k])  BY DEF Linked, Able
<1> QED  BY <1>1, <1>2

\* The steps of a listener (hft_frontend.py:201-241).
LEMMA ListenerKeeps == ASSUME PanelInv, NEW l \in Sockets, Listener(l) PROVE PanelInv'
<1> USE DEF PanelInv
<1>1. /\ listener[l] \in ListenerState(opened) /\ listener[l].on \in 0..opened
      /\ listener[l].buffer \in Seq(Message) /\ sock \in 0..opened /\ opened \in Nat
  <2>1. listener[l] \in ListenerState(opened) /\ sock \in 0..opened /\ opened \in Nat
    BY SocketNumbers DEF Wiring
  <2> QED  BY <2>1 DEF ListenerState
<1>2. \A n \in 0..opened : n # 0 => n \in Sockets  BY SocketNumbers DEF Wiring
<1>3. CASE LoopTest(l) \/ Call(l) \/ Eof(l)
  <2>1. PICK state \in ListenerState(opened) :
          Able(state) /\ listener' = [listener EXCEPT ![l] = state]
    <3>1. CASE LoopTest(l)
      <4> DEFINE state == IF isConnected THEN [listener[l] EXCEPT !.at = "call", !.on = sock]
                          ELSE [listener[l] EXCEPT !.at = "ending"]
      <4>1. listener' = [listener EXCEPT ![l] = state]  BY <3>1 DEF LoopTest
      <4>2. state \in ListenerState(opened)  BY <1>1 DEF ListenerState, ListenerPlace
      <4>3. state.at \in {"call", "ending"}  BY <1>1 DEF ListenerState
      <4> HIDE DEF state
      <4> QED  BY <4>1, <4>2, <4>3 DEF Able
    <3>2. CASE Call(l)
      <4>1. PICK g \in {listener[l].on, sock} :
              listener' = [listener EXCEPT ![l].on = g,
                ![l].at = IF g = 0 THEN "ending" ELSE IF chan[g].closed THEN "ending" ELSE "recv"]
        BY <3>2 DEF Call
      <4> DEFINE to == IF g = 0 THEN "ending" ELSE IF chan[g].closed THEN "ending" ELSE "recv"
                 state == [listener[l] EXCEPT !.on = g, !.at = to]
      <4>2. listener' = [listener EXCEPT ![l] = state]  BY <4>1 DEF Wiring
      <4>3. state \in ListenerState(opened) /\ state.at = to /\ state.on = g
        BY <1>1, <4>1 DEF ListenerState, ListenerPlace
      <4> HIDE DEF state
      <4> QED  BY <4>2, <4>3 DEF Able
    <3>3. CASE Eof(l)
      <4> DEFINE state == [listener[l] EXCEPT !.at = "ending"]
      <4>1. listener' = [listener EXCEPT ![l] = state]  BY <3>3 DEF Eof
      <4>2. state \in ListenerState(opened) /\ state.at = "ending"
        BY <1>1 DEF ListenerState, ListenerPlace
      <4> HIDE DEF state
      <4> QED  BY <4>1, <4>2 DEF Able
    <3> QED  BY <1>3, <3>1, <3>2, <3>3
  <2>2. UNCHANGED <<app, widgets, after, thread, chan, opened, cached, engine, user, chosen>>
    BY <1>3 DEF LoopTest, Call, Eof
  <2>3. /\ listener' \in [Sockets -> ListenerState(opened')]
        /\ \A k \in Sockets : Able(listener'[k])
    BY <2>1, <2>2, ListenerMoves
  <2>4. Wiring'  BY <2>2, <2>3 DEF Wiring, ListenerState, app, widgets, engine
  <2>5. Display'  BY <2>2 DEF Display, app, widgets, buttons, engine, user, chosen
  <2>6. Linked'  BY <2>2, <2>3 DEF Linked, Able, app, engine
  <2>7. Served' /\ Threaded'  BY <2>2 DEF Served, Threaded, engine
  <2>8. Overruled'  BY <2>2, StaysOverruled DEF Stopped, app, engine, user
  <2> QED  BY <2>4, <2>5, <2>6, <2>7, <2>8
<1>4. CASE Receive(l)
  <2> DEFINE g == listener[l].on
             ms == chan[g].msgs
  <2>1. g \in Sockets /\ ms \in Seq(Message) /\ chan[g] \in Channel
    <3>1. listener[l].at = "recv" /\ g # 0  BY <1>4 DEF Receive, Linked
    <3> QED  BY <1>1, <1>2, <3>1 DEF Wiring, Channel
  <2>2. PICK n \in 1..Len(ms) :
          /\ listener' = [listener EXCEPT ![l].at = "handle", ![l].buffer = SubSeq(ms, 1, n)]
          /\ chan' = [chan EXCEPT ![g].msgs = SubSeq(@, n + 1, Len(@))]
    BY <1>4 DEF Receive
  <2> DEFINE got == SubSeq(ms, 1, n)
             left == SubSeq(ms, n + 1, Len(ms))
             state == [listener[l] EXCEPT !.at = "handle", !.buffer = got]
             rec == [chan[g] EXCEPT !.msgs = left]
  <2>3. got \in Seq(Message) /\ got # << >> /\ left \in Seq(Message)
    <3>1. Len(ms) \in Nat /\ n \in 1..Len(ms)  BY <2>1
    <3>2. got \in Seq(Message) /\ Len(got) = n /\ left \in Seq(Message)  BY <2>1, <3>1
    <3> QED  BY <3>1, <3>2
  <2>4. listener' = [listener EXCEPT ![l] = state] /\ chan' = [chan EXCEPT ![g] = rec]
    BY <2>1, <2>2 DEF Wiring
  <2>5. UNCHANGED <<app, widgets, after, thread, opened, cached, engine, user, chosen>>
    BY <1>4 DEF Receive
  <2> HIDE DEF got, left
  <2>6. state \in ListenerState(opened) /\ Able(state)
    BY <1>1, <2>3 DEF ListenerState, ListenerPlace, Able
  <2>7. rec \in Channel /\ rec.open = chan[g].open /\ rec.cmds = chan[g].cmds
        /\ rec.closed = chan[g].closed
    BY <2>1, <2>3 DEF Channel
  <2> HIDE DEF state, rec, g, ms
  <2>8. /\ listener' \in [Sockets -> ListenerState(opened')]
        /\ \A k \in Sockets : Able(listener'[k])
    BY <2>4, <2>5, <2>6, ListenerMoves
  <2>9. /\ chan' \in [Sockets -> Channel]
        /\ \A h \in Sockets : /\ chan'[h].open = chan[h].open /\ chan'[h].cmds = chan[h].cmds
                              /\ chan'[h].closed = chan[h].closed
    BY <2>1, <2>4, <2>7 DEF Wiring
  <2>10. \A h \in 0..opened : h # 0 =>
           /\ h \in Sockets /\ chan'[h].open = chan[h].open /\ chan'[h].cmds = chan[h].cmds
           /\ chan'[h].closed = chan[h].closed
    BY <1>2, <2>9
  <2>11. Wiring'  BY <2>5, <2>8, <2>9 DEF Wiring, ListenerState, app, widgets, engine
  <2>12. Display'  BY <2>5 DEF Display, app, widgets, buttons, engine, user, chosen
  <2>13. Linked'  BY <2>5, <2>8, <2>9, <2>10 DEF Linked, Able, Wiring, app, engine
  <2>14. Served' /\ Threaded'  BY <2>5 DEF Served, Threaded, engine
  <2>15. Overruled'
    <3>1. sock # 0 => chan'[sock].cmds = chan[sock].cmds  BY <1>1, <2>10
    <3>2. Stopped => Stopped'  BY <2>5, <3>1, StaysStopped DEF app, engine
    <3> QED  BY <2>5, <3>2, StaysOverruled DEF app, user
  <2> QED  BY <2>11, <2>12, <2>13, <2>14, <2>15
<1>5. CASE Handle(l)
  <2> DEFINE to == IF Len(listener[l].buffer) = 1 THEN "loop" ELSE "handle"
             rest == Tail(listener[l].buffer)
             state == [listener[l] EXCEPT !.buffer = rest, !.at = to]
  <2>1. listener[l].at = "handle" /\ listener[l].buffer # << >>
    BY <1>5 DEF Handle, Linked
  <2>2. rest \in Seq(Message) /\ (to = "handle" => rest # << >>)
    <3>1. Len(rest) = Len(listener[l].buffer) - 1 /\ Len(listener[l].buffer) \in Nat \ {0}
      BY <1>1, <2>1
    <3>2. rest \in Seq(Message)  BY <1>1, <2>1
    <3>3. to = "handle" => Len(rest) # 0  BY <3>1
    <3> HIDE DEF rest
    <3>4. rest = << >> => Len(rest) = 0  OBVIOUS
    <3> QED  BY <3>2, <3>3, <3>4
  <2>3. listener' = [listener EXCEPT ![l] = state]  BY <1>5 DEF Handle, Wiring
  <2> HIDE DEF rest
  <2>4. state \in ListenerState(opened) /\ state.at = to /\ state.buffer = rest
    BY <1>1, <2>2 DEF ListenerState, ListenerPlace
  <2>5. Able(state)  BY <2>2, <2>4 DEF Able
  <2> HIDE DEF state
  <2>6. UNCHANGED <<isConnected, sock, widgets, thread, chan, opened, cached, engine, user, chosen>>
    BY <1>5 DEF Handle
  <2>7. /\ listener' \in [Sockets -> ListenerState(opened')]
        /\ \A k \in Sockets : Able(listener'[k])
    BY <2>3, <2>4, <2>5, <2>6, ListenerMoves
  <2>8. isStreaming' \in BOOLEAN
    <3>1. isStreaming' = (isStreaming /\ ~EndsStream(Head(listener[l].buffer)))
      BY <1>5 DEF Handle
    <3> QED  BY <3>1, Zenon
  <2>9. after' \in Seq(Callback)
    <3> DEFINE m == Head(listener[l].buffer)
               more == CASE EnablesModel(m) -> <<"modelNormal">>
                         [] EndsStream(m) -> <<"streamNormal", "testNormal">>
                         [] OTHER -> << >>
    <3>1. after' = after \o more  BY <1>5 DEF Handle
    <3>2. {"modelNormal", "streamNormal", "testNormal"} \subseteq Callback  BY DEF Callback
    <3>3. /\ <<"modelNormal">> \in Seq(Callback) /\ << >> \in Seq(Callback)
          /\ <<"streamNormal", "testNormal">> \in Seq(Callback)
      BY <3>2
    <3>4. more \in Seq(Callback)
      <4>1. CASE EnablesModel(m)
        <5>1. ~EndsStream(m)  BY <4>1 DEF EnablesModel, EndsStream
        <5> QED  BY <4>1, <5>1, <3>3
      <4>2. CASE EndsStream(m)
        <5>1. ~EnablesModel(m)  BY <4>2 DEF EnablesModel, EndsStream
        <5> QED  BY <4>2, <5>1, <3>3
      <4>3. CASE ~EnablesModel(m) /\ ~EndsStream(m)  BY <4>3, <3>3
      <4> QED  BY <4>1, <4>2, <4>3
    <3> HIDE DEF more
    <3>5. after \in Seq(Callback)  BY DEF Display
    <3> QED  BY <3>1, <3>4, <3>5
  <2>10. Wiring'  BY <2>6, <2>7 DEF Wiring, ListenerState, widgets, engine
  <2>11. Display'
    BY <2>6, <2>8, <2>9 DEF Display, widgets, buttons, engine, user, chosen
  <2>12. Linked'  BY <2>6, <2>7 DEF Linked, Able, engine
  <2>13. Served' /\ Threaded'  BY <2>6 DEF Served, Threaded, engine
  <2>14. Overruled'  BY <2>6, StaysOverruled DEF Stopped, engine, user
  <2> QED  BY <2>10, <2>11, <2>12, <2>13, <2>14
<1>6. CASE MarkDisconnected(l) \/ ListenerEnds(l)
  <2> DEFINE ended == [listener[l] EXCEPT !.at = "ended"]
             gone == [listener[l] EXCEPT !.at = "gone"]
  <2>1. /\ ended \in ListenerState(opened) /\ ended.at = "ended"
        /\ gone \in ListenerState(opened) /\ gone.at = "gone"
    BY <1>1 DEF ListenerState, ListenerPlace
  <2>2. listener' = [listener EXCEPT ![l] = ended] \/ listener' = [listener EXCEPT ![l] = gone]
    BY <1>6 DEF MarkDisconnected, ListenerEnds
  <2> HIDE DEF ended, gone
  <2>3. /\ UNCHANGED <<sock, widgets, thread, chan, opened, cached, engine, chosen, clicks, intent>>
        /\ isConnected' = isConnected \/ isConnected' = FALSE
        /\ isStreaming' = isStreaming \/ isStreaming' = FALSE
        /\ crossed' = crossed \/ crossed' = (crossed \/ ~TkIdle)
        /\ after' = after \/ after' = Append(after, "disconnect")
    BY <1>6 DEF MarkDisconnected, ListenerEnds, user
  <2>4. /\ listener' \in [Sockets -> ListenerState(opened')]
        /\ \A k \in Sockets : Able(listener'[k])
    <3>1. Able(ended) /\ Able(gone)  BY <2>1 DEF Able
    <3> QED  BY <2>1, <2>2, <2>3, <3>1, ListenerMoves
  <2>5. isConnected' \in BOOLEAN /\ isStreaming' \in BOOLEAN /\ crossed' \in BOOLEAN
    <3>1. isConnected \in BOOLEAN /\ isStreaming \in BOOLEAN /\ crossed \in BOOLEAN
      BY DEF Wiring, Display
    <3> QED  BY <2>3, <3>1, Zenon
  <2>6. after' \in Seq(Callback)
    <3>1. "disconnect" \in Callback  BY DEF Callback
    <3> QED  BY <2>3, <3>1 DEF Display
  <2>7. Wiring'  BY <2>3, <2>4, <2>5 DEF Wiring, ListenerState, widgets, engine
  <2>8. Display'
    BY <2>3, <2>5, <2>6 DEF Display, widgets, buttons, engine, chosen
  <2>9. Linked'  BY <2>3, <2>4 DEF Linked, Able, engine
  <2>10. Served' /\ Threaded'  BY <2>3 DEF Served, Threaded, engine
  <2>11. ~isConnected => ~isConnected'  BY <2>3
  <2>12. Overruled'  BY <2>3, <2>11, StaysOverruled DEF Stopped, engine
  <2> QED  BY <2>7, <2>8, <2>9, <2>10, <2>12
<1> QED  BY <1>3, <1>4, <1>5, <1>6 DEF Listener

-----------------------------------------------------------------------------
\* The channel of the served connection is replaced by another that is open too.
LEMMA ServedMoves ==
  ASSUME Wiring, Linked, serving # 0, NEW rec \in Channel, rec.open, rec.closed = chan[serving].closed,
         chan' = [chan EXCEPT ![serving] = rec],
         UNCHANGED <<isConnected, reconnectOn, opened, sock, serving, listener>>
  PROVE  /\ Wiring' /\ Linked' /\ chan'[serving] = rec
         /\ \A g \in Sockets : g # serving => chan'[g] = chan[g]
<1>1. serving \in Sockets /\ serving <= opened  BY SocketNumbers DEF Wiring
<1>2. /\ chan' \in [Sockets -> Channel] /\ chan'[serving] = rec
      /\ \A g \in Sockets : g # serving => chan'[g] = chan[g]
  BY <1>1 DEF Wiring
<1>3. Wiring'  BY <1>2 DEF Wiring, ListenerState
<1>4. Linked'
  <2>1. \A g \in Sockets : ~chan'[g].open => chan'[g].cmds = << >>  BY <1>2 DEF Linked
  <2>2. \A g \in Sockets : chan'[g].open => g <= opened  BY <1>1, <1>2 DEF Linked
  <2>3. sock # 0 => sock \in Sockets /\ ~chan'[sock].closed
    BY <1>2, SocketNumbers DEF Linked, Wiring
  <2> QED  BY <1>2, <2>1, <2>2, <2>3 DEF Linked
<1> QED  BY <1>2, <1>3, <1>4

\* A message to the panel is added on the served connection
\* (hft_engine_linux.cpp:85-91, as the panel meets it).
LEMMA Telling ==
  ASSUME Wiring, Linked, serving # 0, NEW ms \in Seq(Message), chan' = Told(ms),
         UNCHANGED <<isConnected, reconnectOn, opened, sock, serving, listener>>
  PROVE  /\ Wiring' /\ Linked'
         /\ \A g \in Sockets : chan'[g].cmds = chan[g].cmds
<1>1. serving \in Sockets  BY SocketNumbers DEF Wiring
<1>2. chan \in [Sockets -> Channel] /\ chan[serving] \in Channel /\ chan[serving].open
  BY <1>1 DEF Wiring, Linked
<1> DEFINE rec == [chan[serving] EXCEPT !.msgs = chan[serving].msgs \o ms]
<1>3. chan' = [chan EXCEPT ![serving] = rec]  BY <1>1, <1>2 DEF Told
<1>4. rec \in Channel /\ rec.open /\ rec.cmds = chan[serving].cmds
      /\ rec.closed = chan[serving].closed
  <2>1. chan[serving].msgs \o ms \in Seq(Message)  BY <1>2 DEF Channel
  <2> QED  BY <1>2, <2>1 DEF Channel
<1> HIDE DEF rec
<1> QED  BY <1>1, <1>3, <1>4, ServedMoves

\* A command is taken and answered.
LEMMA Answering ==
  ASSUME Wiring, Linked, serving # 0, chan[serving].cmds # << >>,
         NEW ms \in Seq(Message), chan' = Answered(ms),
         UNCHANGED <<isConnected, reconnectOn, opened, sock, serving, listener>>
  PROVE  /\ Wiring' /\ Linked'
         /\ chan'[serving].cmds = Tail(chan[serving].cmds)
         /\ \A g \in Sockets : g # serving => chan'[g] = chan[g]
<1>1. serving \in Sockets  BY SocketNumbers DEF Wiring
<1>2. /\ chan \in [Sockets -> Channel] /\ chan[serving] \in Channel /\ chan[serving].open
      /\ chan[serving].cmds \in Seq(Command)
  BY <1>1 DEF Wiring, Linked, Channel
<1> DEFINE rest == Tail(chan[serving].cmds)
           rec == [chan[serving] EXCEPT !.msgs = chan[serving].msgs \o ms, !.cmds = rest]
<1>3. chan' = [chan EXCEPT ![serving] = rec]  BY <1>1, <1>2 DEF Told, Answered, Channel
<1>4. rest \in Seq(Command)  BY <1>2
<1> HIDE DEF rest
<1>5. rec \in Channel /\ rec.open /\ rec.cmds = rest /\ rec.closed = chan[serving].closed
  <2>1. chan[serving].msgs \o ms \in Seq(Message)  BY <1>2 DEF Channel
  <2> QED  BY <1>2, <1>4, <2>1 DEF Channel
<1> HIDE DEF rec
<1> QED  BY <1>1, <1>3, <1>5, ServedMoves DEF rest

\* A process that ends leaves open nothing and nothing to be done.
LEMMA DyingKeeps ==
  ASSUME PanelInv, Dies, UNCHANGED <<panel, starts, rows>>
  PROVE  PanelInv'
<1> USE DEF PanelInv
<1>1. PICK keep \in BOOLEAN :
        chan' = [g \in Sockets |->
                   [chan[g] EXCEPT !.open = FALSE, !.cmds = << >>,
                                   !.msgs = IF keep THEN @ ELSE << >>]]
  BY DEF Dies, Gone
<1>2. \A g \in Sockets : /\ chan'[g] \in Channel /\ ~chan'[g].open /\ chan'[g].cmds = << >>
                        /\ chan'[g].closed = chan[g].closed
  <2> SUFFICES ASSUME NEW g \in Sockets
               PROVE  /\ chan'[g] \in Channel /\ ~chan'[g].open /\ chan'[g].cmds = << >>
                      /\ chan'[g].closed = chan[g].closed
    OBVIOUS
  <2> DEFINE ms == IF keep THEN chan[g].msgs ELSE << >>
  <2>1. chan[g] \in Channel /\ chan[g].msgs \in Seq(Message)  BY DEF Wiring, Channel
  <2>2. chan'[g] = [chan[g] EXCEPT !.open = FALSE, !.cmds = << >>, !.msgs = ms]
    BY <1>1, <2>1 DEF Channel
  <2>3. ms \in Seq(Message)  BY <2>1
  <2> HIDE DEF ms
  <2>4. FALSE \in BOOLEAN /\ << >> \in Seq(Command)  OBVIOUS
  <2> QED  BY <2>1, <2>2, <2>3, <2>4 DEF Channel
<1>3. chan' \in [Sockets -> Channel]  BY <1>1, <1>2
<1>4. up' \in BOOLEAN
  <2>1. up' = FALSE  BY DEF Dies
  <2> QED  BY <2>1, Zenon
<1>5. serving' = 0 /\ stream' = "none"  BY DEF Dies
<1>6. 0 \in 0..opened  BY SocketNumbers DEF Wiring
<1>7. Wiring'  BY <1>3, <1>5, <1>6 DEF Wiring, ListenerState, panel, app, widgets
<1>8. Display'
  BY <1>4, <1>5 DEF Display, panel, app, widgets, buttons, user, chosen
<1>9. Linked'
  <2>1. sock # 0 => sock \in Sockets  BY SocketNumbers DEF Wiring
  <2> QED  BY <1>2, <1>5, <2>1 DEF Linked, panel, app
<1>10. Served' /\ Threaded'  BY <1>5 DEF Served, Threaded, panel
<1>11. Overruled'
  <2>1. sock' = sock  BY DEF panel, app
  <2>2. sock # 0 => sock \in Sockets  BY SocketNumbers DEF Wiring
  <2>3. StopsAll(<< >>)  BY DEF StopsAll
  <2>4. Stopped'  BY <1>2, <1>5, <2>1, <2>2, <2>3 DEF Stopped
  <2> QED  BY <2>4, StaysOverruled DEF panel, app, user
<1> QED  BY <1>7, <1>8, <1>9, <1>10, <1>11

\* A command of the newest connection is obeyed: a stream it starts has a STOP
\* behind it if the user's last word was Stop (hft_engine_linux.cpp:353-505, as
\* the panel meets it).
LEMMA CommandKeeps == ASSUME PanelInv, EngineCommand PROVE PanelInv'
<1> USE DEF PanelInv
<1> DEFINE c == Head(chan[serving].cmds)
<1>1. /\ up /\ serving # 0 /\ serving \in Sockets /\ chan[serving].cmds # << >>
      /\ chan[serving].cmds \in Seq(Command) /\ UNCHANGED <<panel, starts, rows>>
  <2>1. serving # 0 /\ serving \in Sockets  BY SocketNumbers DEF EngineCommand, Wiring
  <2> QED  BY <2>1 DEF EngineCommand, Wiring, Channel
<1>2. CASE Dies  BY <1>1, <1>2, DyingKeeps
<1>3. CASE ~Dies
  <2>1. PICK ms \in {<<"MODEL_OK">>, <<"TIMEOUT">>, <<"ERROR">>, <<"STOPPED">>, << >>} :
          chan' = Answered(ms)
    BY <1>3 DEF EngineCommand
  <2>2. ms \in Seq(Message)
    <3>1. {"MODEL_OK", "TIMEOUT", "ERROR", "STOPPED"} \subseteq Message  BY DEF Message
    <3>2. /\ <<"MODEL_OK">> \in Seq(Message) /\ <<"TIMEOUT">> \in Seq(Message)
          /\ <<"ERROR">> \in Seq(Message) /\ <<"STOPPED">> \in Seq(Message)
          /\ << >> \in Seq(Message)
      BY <3>1
    <3> QED  BY <2>1, <3>2, Zenon
  <2>3. /\ UNCHANGED <<up, serving>>
        /\ \/ c = "MODEL" /\ stream' = stream
           \/ c = "STOP" /\ stream' \in {"none", "ended"}
           \/ c \in StartCommands /\ stream' \in {"file", "test"}
    BY <1>3 DEF EngineCommand, Display, Streaming, StartCommands
  <2>4. /\ Wiring' /\ Linked' /\ chan'[serving].cmds = Tail(chan[serving].cmds)
        /\ \A g \in Sockets : g # serving => chan'[g] = chan[g]
    BY <1>1, <2>1, <2>2, <2>3, Answering DEF panel, app, widgets
  <2>5. Display'
    BY <1>1, <2>3 DEF Display, Streaming, panel, app, widgets, buttons, user, chosen
  <2>6. Served' /\ Threaded'  BY <1>1, <2>3 DEF Served, Threaded, panel
  <2>7. Overruled'
    <3> SUFFICES ASSUME Stopped, sock # 0
                 PROVE  /\ StopsAll(chan'[sock].cmds)
                        /\ serving = sock /\ stream' \in {"file", "test"}
                             => HasStop(chan'[sock].cmds)
      BY <1>1, <2>3, StaysOverruled DEF Stopped, panel, app, user
    <3>1. sock \in Sockets /\ StopsAll(chan[sock].cmds)
      BY SocketNumbers DEF Wiring, Stopped
    <3>2. CASE sock # serving  BY <2>4, <3>1, <3>2
    <3>3. CASE sock = serving
      <4>1. /\ StopsAll(Tail(chan[sock].cmds))
            /\ c \in StartCommands => HasStop(Tail(chan[sock].cmds))
            /\ c # "STOP" /\ HasStop(chan[sock].cmds) => HasStop(Tail(chan[sock].cmds))
        BY <1>1, <3>1, <3>3, TakenOff
      <4>2. stream \in {"file", "test"} => HasStop(chan[sock].cmds)
        BY <3>3 DEF Stopped
      <4> QED  BY <2>3, <2>4, <3>3, <4>1, <4>2
    <3> QED  BY <3>2, <3>3
  <2> QED  BY <2>4, <2>5, <2>6, <2>7
<1> QED  BY <1>2, <1>3

\* Rows and the end of a file are told on the served connection; the worker ends
\* after them (hft_engine_linux.cpp:94-351, as the panel meets it).
LEMMA WorkerKeeps ==
  ASSUME PanelInv, EngineRow \/ EngineFinish \/ EngineEnded
  PROVE  PanelInv'
<1> USE DEF PanelInv
<1>1. /\ stream \in {"file", "test", "finishing"} /\ serving # 0
      /\ stream' = stream \/ stream' \in {"finishing", "ended"}
      /\ UNCHANGED <<panel, up, serving, starts>>
      /\ rows' \in {rows, rows + 1} /\ (rows' # rows => rows < profile.rows)
  BY DEF EngineRow, EngineFinish, EngineEnded, Served
<1>2. Wiring' /\ Linked' /\ \A g \in Sockets : chan'[g].cmds = chan[g].cmds
  <2>1. CASE chan' = chan
    BY <1>1, <2>1 DEF Wiring, Linked, ListenerState, panel, app, widgets
  <2>2. CASE \E ms \in {<<"ROW">>, <<"TIMEOUT">>, <<"STREAM_FINISHED">>, <<"ERROR">>} :
               chan' = Told(ms)
    <3>1. PICK ms \in {<<"ROW">>, <<"TIMEOUT">>, <<"STREAM_FINISHED">>, <<"ERROR">>} :
            chan' = Told(ms)
      BY <2>2
    <3>2. ms \in Seq(Message)
      <4>1. {"ROW", "TIMEOUT", "STREAM_FINISHED", "ERROR"} \subseteq Message  BY DEF Message
      <4>2. /\ <<"ROW">> \in Seq(Message) /\ <<"TIMEOUT">> \in Seq(Message)
            /\ <<"STREAM_FINISHED">> \in Seq(Message) /\ <<"ERROR">> \in Seq(Message)
        BY <4>1
      <4> QED  BY <3>1, <4>2, Zenon
    <3> QED  BY <1>1, <3>1, <3>2, Telling DEF panel, app, widgets
  <2> QED  BY <2>1, <2>2 DEF EngineRow, EngineFinish, EngineEnded
<1>3. rows' \in 0..profile.rows
  <2>1. profile \in Profiles /\ rows \in 0..profile.rows  BY DEF Display
  <2>2. profile.rows \in Nat  BY <2>1, ProfileBounds
  <2> QED  BY <1>1, <2>1, <2>2
<1>4. Display'
  BY <1>1, <1>3 DEF Display, Streaming, panel, app, widgets, buttons, user, chosen
<1>5. Served' /\ Threaded'  BY <1>1 DEF Served, Threaded, panel
<1>6. Overruled'
  <2>1. sock # 0 => sock \in Sockets  BY SocketNumbers DEF Wiring
  <2>2. stream' \in {"file", "test"} => stream' = stream  BY <1>1
  <2>3. Stopped => Stopped'  BY <1>1, <1>2, <2>1, <2>2 DEF Stopped, panel, app
  <2> QED  BY <1>1, <2>3, StaysOverruled DEF panel, app, user
<1> QED  BY <1>2, <1>4, <1>5, <1>6

\* A connection is accepted, or dropped with its worker joined; a process starts
\* (hft_engine_linux.cpp:552-600, as the panel meets it).
LEMMA ConnectionKeeps ==
  ASSUME PanelInv, EngineAccept \/ EngineHangup \/ EngineStarts
  PROVE  PanelInv'
<1> USE DEF PanelInv
<1>1. CASE EngineAccept
  <2>1. PICK g \in Sockets : chan[g].open /\ serving' = g
    BY <1>1 DEF EngineAccept
  <2>2. serving = 0 /\ UNCHANGED <<panel, chan, up, stream, starts, rows>>
    BY <1>1 DEF EngineAccept
  <2>3. stream = "none"  BY <2>2 DEF Served
  <2>4. g \in 0..opened /\ g # 0
    BY <2>1, SocketNumbers DEF Linked, Wiring
  <2>5. Wiring'  BY <2>1, <2>2, <2>4 DEF Wiring, ListenerState, panel, app, widgets
  <2>6. Linked'  BY <2>1, <2>2 DEF Linked, panel, app
  <2>7. Display'  BY <2>2 DEF Display, panel, app, widgets, buttons, user, chosen
  <2>8. Served' /\ Threaded'  BY <2>1, <2>2, <2>4 DEF Served, Threaded, panel
  <2>9. Stopped => Stopped'  BY <2>2, <2>3 DEF Stopped, panel, app
  <2>10. Overruled'  BY <2>2, <2>9, StaysOverruled DEF panel, app, user
  <2> QED  BY <2>5, <2>6, <2>7, <2>8, <2>10
<1>2. CASE EngineHangup
  <2> DEFINE rec == [chan[serving] EXCEPT !.open = FALSE, !.msgs = << >>]
  <2>1. /\ serving # 0 /\ chan[serving].cmds = << >> /\ serving' = 0 /\ stream' = "none"
        /\ UNCHANGED <<panel, up, starts, rows>>
    BY <1>2 DEF EngineHangup, WorkerJoined
  <2>2. serving \in Sockets /\ 0 \in 0..opened  BY <2>1, SocketNumbers DEF Wiring
  <2>3. chan[serving] \in Channel  BY <2>2 DEF Wiring
  <2>4. chan' = [chan EXCEPT ![serving] = rec]
    BY <1>2, <2>2, <2>3 DEF EngineHangup, Wiring
  <2>5. rec \in Channel /\ ~rec.open /\ rec.cmds = << >> /\ rec.closed = chan[serving].closed
    <3>1. FALSE \in BOOLEAN /\ << >> \in Seq(Message)  OBVIOUS
    <3> QED  BY <2>1, <2>3, <3>1 DEF Channel
  <2> HIDE DEF rec
  <2>6. /\ chan' \in [Sockets -> Channel] /\ chan'[serving] = rec
        /\ \A g \in Sockets : g # serving => chan'[g] = chan[g]
    BY <2>2, <2>4, <2>5 DEF Wiring
  <2>7. Wiring'  BY <2>1, <2>2, <2>6 DEF Wiring, ListenerState, panel, app, widgets
  <2>8. Linked'
    <3>1. sock # 0 => sock \in Sockets  BY SocketNumbers DEF Wiring
    <3> QED  BY <2>1, <2>5, <2>6, <3>1 DEF Linked, panel, app
  <2>9. Display'  BY <2>1 DEF Display, panel, app, widgets, buttons, user, chosen
  <2>10. Served' /\ Threaded'  BY <2>1 DEF Served, Threaded, panel
  <2>11. Overruled'
    <3>1. sock # 0 => sock \in Sockets  BY SocketNumbers DEF Wiring
    <3>2. sock # 0 => chan'[sock].cmds = chan[sock].cmds  BY <2>1, <2>5, <2>6, <3>1
    <3>3. Stopped => Stopped'  BY <2>1, <3>2 DEF Stopped, panel, app
    <3> QED  BY <2>1, <3>3, StaysOverruled DEF panel, app, user
  <2> QED  BY <2>7, <2>8, <2>9, <2>10, <2>11
<1>3. CASE EngineStarts
  <2>1. /\ starts < profile.starts /\ up' = TRUE /\ starts' = starts + 1
        /\ UNCHANGED <<panel, chan, serving, stream, rows>>
    BY <1>3 DEF EngineStarts
  <2>2. up' \in BOOLEAN  BY <2>1, Zenon
  <2>3. starts' \in 0..profile.starts
    <3>1. profile \in Profiles /\ starts \in 0..profile.starts  BY DEF Display
    <3>2. profile.starts \in Nat  BY <3>1, ProfileBounds
    <3> QED  BY <2>1, <3>1, <3>2
  <2>4. Display'
    BY <2>1, <2>2, <2>3 DEF Display, panel, app, widgets, buttons, user, chosen
  <2>5. Wiring' /\ Linked'
    BY <2>1 DEF Wiring, Linked, ListenerState, panel, app, widgets
  <2>6. Served' /\ Threaded'  BY <2>1 DEF Served, Threaded, panel
  <2>7. Overruled'  BY <2>1, StaysOverruled DEF Stopped, panel, app, user
  <2> QED  BY <2>4, <2>5, <2>6, <2>7
<1> QED  BY <1>1, <1>2, <1>3

\* The invariant is inductive.
LEMMA PanelStep == ASSUME PanelInv, [Next]_vars PROVE PanelInv'
<1>1. CASE Buttons
  BY <1>1, StopKeeps, StartKeeps, ModelKeeps, RestartKeeps, SelectionKeeps
  DEF Buttons, SelectFile, SelectModel, Drop
<1>2. CASE RunCallback  BY <1>2, CallbackKeeps
<1>3. CASE \E t \in Threads : Sending(t)  BY <1>3, SendingKeeps
<1>4. CASE \E t \in Converters : Conversion(t)  BY <1>4, ConversionKeeps
<1>5. CASE Engine
  <2>1. CASE EngineDies  BY <2>1, DyingKeeps DEF EngineDies
  <2> QED
    BY <1>5, <2>1, CommandKeeps, WorkerKeeps, ConnectionKeeps DEF Engine, EngineWorks
<1>6. CASE \E l \in Sockets : Listener(l)  BY <1>6, ListenerKeeps
<1>7. CASE UNCHANGED vars
  <2>1. UNCHANGED <<chosen, app, widgets, after, thread, listener, chan, opened, cached, engine, user>>
    BY <1>7 DEF vars
  <2>2. Overruled'  BY <2>1, StaysOverruled DEF Stopped, app, engine, user
  <2> QED
    BY <2>1, <2>2
    DEF PanelInv, Wiring, Display, Linked, Threaded, Served, ListenerState, chosen, app, widgets,
        buttons, engine, user
<1> QED  BY <1>1, <1>2, <1>3, <1>4, <1>5, <1>6, <1>7 DEF Next

\* The panel and what it hears of the engine keep their invariant.
THEOREM PanelInvariant == Spec => []PanelInv
<1>1. Init => PanelInv  BY PanelInit
<1>2. PanelInv /\ [Next]_vars => PanelInv'  BY PanelStep
<1> QED  BY <1>1, <1>2, PTL DEF Spec

\* Every variable of the panel keeps its type, for every set of users, of threads and of
\* connections (hft_frontend.py:37-56).
THEOREM PanelTypes == Spec => []TypeOK
<1>1. PanelInv => TypeOK  BY TypeParts DEF PanelInv
<1> QED  BY <1>1, PanelInvariant, PTL

\* A Stop prevails, however clicks, callbacks, conversions, reconnections and
\* engine deaths overlap, for any number of them (hft_frontend.py:182-199, 259-268,
\* 434-445, 491-497).
THEOREM StopWins == Spec => []StopPrevails
<1>1. PanelInv => StopPrevails
  <2> SUFFICES ASSUME PanelInv, AtRest, intent = "stop", stream \in {"file", "test"}
               PROVE  FALSE
    BY DEF StopPrevails
  <2>1. sock # 0 /\ serving = sock /\ sock \in Sockets /\ isConnected
    BY SocketNumbers DEF AtRest, PanelInv, Wiring, Served
  <2>2. \A t \in Threads : thread[t].at = "idle"  BY DEF AtRest, Quiet, Busy
  <2>3. ~Waiting({"STOP"}) /\ ~ConversionSends  BY <2>2 DEF Waiting, ConversionSends, Threads
  <2>4. Stopped  BY <2>1, <2>3 DEF PanelInv, Overruled
  <2>5. chan[sock].open  BY <2>1 DEF PanelInv, Linked
  <2>6. chan[sock].cmds = << >>  BY <2>1, <2>5 DEF AtRest, Quiet
  <2>7. ~HasStop(<< >>)  BY DEF HasStop
  <2> QED  BY <2>1, <2>4, <2>6, <2>7 DEF Stopped
<1> QED  BY <1>1, PanelInvariant, PTL

-----------------------------------------------------------------------------
(* A thread at a time.                                                      *)

\* Thread t goes to stream a Parquet file.
Fetches(t) ==
  /\ thread[t].at \notin {"idle", "reading", "writing"}
  /\ thread[t].cmd = "STREAM" /\ thread[t].file \in Convertible

\* A patient user has one thread busy at a time; the file under the cached name is being
\* written only while a conversion is busy with it, and there is one when it is sent for.
OneAtATime ==
  profile.patient =>
    /\ \A t, u \in Busy : t = u
    /\ cached # "mixed"
    /\ cached = "partial" => \E t \in Converters : thread[t].at = "writing"
    /\ \A t \in Threads : Fetches(t) => cached # "none"

\* A thread that sends keeps its command and its file, or is done
\* (hft_frontend.py:182-199, 259-268).
LEMMA SendingMoves ==
  ASSUME Threaded, NEW t \in Threads, Sending(t)
  PROVE  /\ thread[t].at \notin {"idle", "reading", "writing"}
         /\ \A u \in Threads : u # t => thread'[u] = thread[u]
         /\ \/ thread'[t] = Idle
            \/ /\ thread'[t].at \notin {"idle", "reading", "writing"}
               /\ thread'[t].cmd = thread[t].cmd /\ thread'[t].file = thread[t].file
         /\ UNCHANGED <<profile, cached>>
<1>1. /\ thread[t].at \notin {"idle", "reading", "writing"}
      /\ UNCHANGED <<profile, cached>> /\ thread[t] \in Thread
  BY DEF Sending, Check, Connect, Dial, Flag, Listen, Refused, Test, Send, Broken, chosen, Threaded
<1>2. CASE Ends(t)  BY <1>1, <1>2, EndsWell
<1>3. CASE \E p \in {"connect", "dial", "refused", "listen", "test", "send", "broken"} : Goes(t, p)
  <2>1. PICK p \in {"connect", "dial", "refused", "listen", "test", "send", "broken"} : Goes(t, p)
    BY <1>3
  <2>2. thread' = [thread EXCEPT ![t] = [thread[t] EXCEPT !.at = p]]
    BY <2>1 DEF Goes, Threaded
  <2> QED  BY <1>1, <2>1, <2>2 DEF Threaded, Thread
<1>4. CASE thread' = [thread EXCEPT ![t].at = "flag", ![t].conn = opened + 1]
  <2>1. thread' = [thread EXCEPT ![t] = [thread[t] EXCEPT !.at = "flag", !.conn = opened + 1]]
    BY <1>4 DEF Threaded
  <2> QED  BY <1>1, <2>1 DEF Threaded, Thread
<1>5. \/ Ends(t)
      \/ \E p \in {"connect", "dial", "refused", "listen", "test", "send", "broken"} : Goes(t, p)
      \/ thread' = [thread EXCEPT ![t].at = "flag", ![t].conn = opened + 1]
  BY DEF Sending, Check, Connect, Dial, Flag, Listen, Refused, Test, Send, Broken, Returns
<1> QED  BY <1>2, <1>3, <1>4, <1>5

\* The user of the instance stays the same.
LEMMA SameUser == ASSUME Next PROVE profile' = profile
<1>1. CASE Buttons
  BY <1>1 DEF Buttons, StartStream, StopStream, StartTest, StopTest, SelectFile, SelectModel,
              Drop, FileSelected, ModelSelected, SendModel, Reconnect, Restart, chosen
<1>2. CASE RunCallback  BY <1>2 DEF RunCallback, chosen
<1>3. CASE Engine
  BY <1>3 DEF Engine, EngineWorks, EngineAccept, EngineCommand, EngineFinish, EngineEnded,
              EngineHangup, EngineRow, EngineDies, EngineStarts, panel, chosen
<1>4. CASE \E t \in Threads : Sending(t)
  BY <1>4 DEF Sending, Check, Connect, Dial, Flag, Listen, Refused, Test, Send, Broken, chosen
<1>5. CASE \E t \in Converters : Conversion(t)
  BY <1>5 DEF Conversion, BeginWriting, Converted, ConversionFails, chosen
<1>6. CASE \E l \in Sockets : Listener(l)
  BY <1>6 DEF Listener, LoopTest, Call, Receive, Handle, Eof, MarkDisconnected, ListenerEnds, chosen
<1> QED  BY <1>1, <1>2, <1>3, <1>4, <1>5, <1>6 DEF Next

\* A patient user clicks when no thread is busy.
LEMMA QuietClick ==
  ASSUME PanelInv, profile.patient, Click
  PROVE  \A t \in Threads : thread[t].at = "idle"
BY DEF Click, Quiet, Busy

\* One thread was idle like the others and is busy, or the Tk thread is.
LEMMA OneBecomesBusy ==
  ASSUME PanelInv, OneAtATime, profile' = profile, NEW t \in Threads,
         profile.patient => \A u \in Threads : thread[u].at = "idle",
         \A u \in Threads : u # t => thread'[u] = thread[u] \/ thread'[u] = Idle,
         cached' = cached \/ cached' = "torn",
         Fetches(t)' => cached # "none"
  PROVE  OneAtATime'
<1> SUFFICES ASSUME profile.patient
             PROVE  /\ \A u, v \in Threads : thread'[u].at # "idle" /\ thread'[v].at # "idle" => u = v
                    /\ cached' # "mixed" /\ cached' # "partial"
                    /\ \A u \in Threads : Fetches(u)' => cached' # "none"
  BY DEF OneAtATime, Busy
<1>1. \A u \in Threads : u # t => thread'[u].at = "idle"  BY DEF Idle
<1>2. cached # "mixed" /\ cached # "partial"  BY DEF OneAtATime, Threads
<1> QED  BY <1>1, <1>2 DEF Fetches

\* Whatever the user clicks (hft_frontend.py:407-505).
LEMMA ClicksOne == ASSUME PanelInv, OneAtATime, Buttons, profile' = profile PROVE OneAtATime'
<1> DEFINE quiet == profile.patient => \A u \in Threads : thread[u].at = "idle"
<1>1. "tk" \in Threads /\ Converters \subseteq Threads /\ selected \in File \cup {"none"}
      /\ Threaded
  BY DEF Threads, PanelInv, Display
<1>2. CASE SelectFile \/ SelectModel \/ Drop
  <2>1. UNCHANGED <<thread, cached>>
    BY <1>2 DEF SelectFile, SelectModel, Drop, FileSelected, ModelSelected
  <2> QED  BY <2>1 DEF OneAtATime, Busy, Fetches
<1>3. CASE Click /\ \E c \in Command : Commands(c) /\ cached' = cached
                      /\ (c = "STREAM" => ~NeedsConversion)
  <2>1. quiet  BY <1>3, QuietClick
  <2>2. PICK c \in Command : Commands(c) /\ (c = "STREAM" => ~NeedsConversion)  BY <1>3
  <2> DEFINE state == [Idle EXCEPT !.at = "check", !.cmd = c,
                         !.file = IF c = "STREAM" THEN selected ELSE "none"]
  <2>3. thread'["tk"] = state /\ \A u \in Threads : u # "tk" => thread'[u] = thread[u]
    BY <1>1, <2>2, TkCommands DEF Commands, Threaded
  <2>4. Fetches("tk")' => cached # "none"
    BY <2>2, <2>3 DEF Fetches, NeedsConversion, Idle
  <2> QED  BY <1>1, <1>3, <2>1, <2>3, <2>4, OneBecomesBusy
<1>4. CASE StartStream /\ NeedsConversion
  <2>1. Click /\ cached' = cached /\ quiet  BY <1>4, QuietClick DEF StartStream
  <2> DEFINE state == [Idle EXCEPT !.at = "reading", !.cmd = "STREAM", !.file = selected]
  <2>2. PICK t \in Converters : thread' = [thread EXCEPT ![t] = state]
    BY <1>4 DEF StartStream
  <2>3. thread'[t].at = "reading" /\ \A u \in Threads : u # t => thread'[u] = thread[u]
    BY <1>1, <2>2 DEF Threaded, Idle
  <2> QED  BY <1>1, <2>1, <2>3, OneBecomesBusy DEF Fetches
<1>5. CASE Reconnect
  <2>1. Click /\ cached' = cached /\ quiet  BY <1>5, QuietClick DEF Reconnect
  <2>2. thread'["tk"] = Connecting /\ \A u \in Threads : u # "tk" => thread'[u] = thread[u]
    BY <1>1, <1>5 DEF Reconnect, Threaded
  <2>3. ~Fetches("tk")'  BY <2>2 DEF Fetches, Connecting, Idle
  <2> QED  BY <1>1, <2>1, <2>2, <2>3, OneBecomesBusy
<1>6. CASE Restart
  <2>1. Click /\ cached' \in {cached, "torn"} /\ quiet  BY <1>6, QuietClick DEF Restart
  <2>2. thread'["tk"] = Connecting /\ \A u \in Threads : u # "tk" => thread'[u] = Idle
    BY <1>1, <1>6 DEF Restart
  <2>3. ~Fetches("tk")'  BY <2>2 DEF Fetches, Connecting, Idle
  <2> QED  BY <1>1, <2>1, <2>2, <2>3, OneBecomesBusy
<1>7. \/ SelectFile \/ SelectModel \/ Drop \/ Reconnect \/ Restart
      \/ StartStream /\ NeedsConversion
      \/ Click /\ \E c \in Command : Commands(c) /\ cached' = cached
                      /\ (c = "STREAM" => ~NeedsConversion)
  <2>1. {"STOP", "STREAM", "TEST_STREAM", "MODEL"} \subseteq Command  BY DEF Command
  <2>2. StopStream \/ StopTest => Click /\ Commands("STOP") /\ cached' = cached
    BY DEF StopStream, StopTest, StopSent
  <2>3. StartTest => Click /\ Commands("TEST_STREAM") /\ cached' = cached  BY DEF StartTest
  <2>4. SendModel => Click /\ Commands("MODEL") /\ cached' = cached  BY DEF SendModel
  <2>5. StartStream => \/ NeedsConversion
                       \/ Click /\ Commands("STREAM") /\ cached' = cached /\ ~NeedsConversion
    BY DEF StartStream
  <2> QED  BY <2>1, <2>2, <2>3, <2>4, <2>5 DEF Buttons
<1> QED  BY <1>2, <1>3, <1>4, <1>5, <1>6, <1>7

\* What a conversion leaves under the cached name (hft_frontend.py:468-482).
LEMMA ConversionOne ==
  ASSUME PanelInv, OneAtATime, NEW t \in Converters, Conversion(t)
  PROVE  OneAtATime'
<1>1. t \in Threads /\ thread[t].at \in {"reading", "writing"} /\ Threaded /\ profile' = profile
  BY DEF Threads, Conversion, BeginWriting, Converted, ConversionFails, PanelInv, chosen
<1>2. thread[t].file \in Convertible  BY <1>1 DEF Threaded, Carries
<1>3. /\ \A u \in Threads : u # t => thread'[u] = thread[u]
      /\ \/ BeginWriting(t) /\ thread'[t].at = "writing"
         \/ Converted(t) /\ thread'[t].at = "check"
         \/ ConversionFails(t) /\ thread'[t].at = "idle"
  <2>1. CASE BeginWriting(t)  BY <1>1, <2>1 DEF BeginWriting, Goes, Threaded, Thread
  <2>2. CASE Converted(t)  BY <1>1, <2>2 DEF Converted, Goes, Threaded, Thread
  <2>3. CASE ConversionFails(t)  BY <1>1, <2>3, EndsWell DEF ConversionFails
  <2> QED  BY <2>1, <2>2, <2>3 DEF Conversion
<1> SUFFICES ASSUME profile.patient
             PROVE  /\ \A u, v \in Threads : thread'[u].at # "idle" /\ thread'[v].at # "idle" => u = v
                    /\ cached' # "mixed"
                    /\ cached' = "partial" => \E u \in Converters : thread'[u].at = "writing"
                    /\ \A u \in Threads : Fetches(u)' => cached' # "none"
  BY <1>1 DEF OneAtATime, Busy
<1>4. \A u \in Threads : u # t => thread[u].at = "idle" /\ thread'[u].at = "idle"
  BY <1>1, <1>3 DEF OneAtATime, Busy
<1>5. Writing(t) = {}  BY <1>4 DEF Writing, Threads
<1>6. cached # "mixed" /\ (cached = "partial" => thread[t].at = "writing")
  BY <1>4 DEF OneAtATime, Threads
<1>7. CASE BeginWriting(t) /\ thread'[t].at = "writing"
  <2>1. cached' = "partial"  BY <1>5, <1>7 DEF BeginWriting
  <2> QED  BY <1>4, <1>7, <2>1
<1>8. CASE Converted(t) /\ thread'[t].at = "check"
  <2>1. cached' = thread[t].file  BY <1>5, <1>6, <1>8 DEF Converted
  <2>2. cached' \notin {"mixed", "partial", "none"}  BY <1>2, <2>1 DEF Convertible
  <2> QED  BY <1>4, <2>2
<1>9. CASE ConversionFails(t) /\ thread'[t].at = "idle"
  <2>1. \/ cached' = "torn"
        \/ cached' = cached /\ thread[t].at = "reading"
    BY <1>5, <1>9 DEF ConversionFails
  <2>2. cached' \notin {"mixed", "partial"}  BY <1>6, <2>1
  <2>3. \A u \in Threads : thread'[u].at = "idle"  BY <1>4, <1>9
  <2> QED  BY <2>2, <2>3 DEF Fetches
<1> QED  BY <1>3, <1>7, <1>8, <1>9

\* A patient user's threads stay one, and the file whole.
LEMMA OneStep == ASSUME PanelInv, OneAtATime, [Next]_vars PROVE OneAtATime'
<1>1. CASE UNCHANGED <<profile, thread, cached>>
  BY <1>1 DEF OneAtATime, Busy, Fetches
<1>2. CASE Buttons /\ Next  BY <1>2, ClicksOne, SameUser
<1>3. CASE \E t \in Threads : Sending(t)
  <2>1. PICK t \in Threads : Sending(t)  BY <1>3
  <2>2. /\ thread[t].at \notin {"idle", "reading", "writing"}
        /\ \A u \in Threads : u # t => thread'[u] = thread[u]
        /\ \/ thread'[t] = Idle
           \/ /\ thread'[t].at \notin {"idle", "reading", "writing"}
              /\ thread'[t].cmd = thread[t].cmd /\ thread'[t].file = thread[t].file
        /\ UNCHANGED <<profile, cached>>
    BY <2>1, SendingMoves DEF PanelInv
  <2>3. \A u \in Threads : thread'[u].at # "idle" => thread[u].at # "idle"
    BY <2>2
  <2>4. \A u \in Converters : thread[u].at = "writing" => thread'[u].at = "writing"
    BY <2>2 DEF Threads
  <2>5. \A u \in Threads : Fetches(u)' => Fetches(u)  BY <2>2 DEF Fetches, Idle
  <2> QED  BY <2>2, <2>3, <2>4, <2>5 DEF OneAtATime, Busy
<1>4. CASE \E t \in Converters : Conversion(t)  BY <1>4, ConversionOne
<1>5. RunCallback \/ Engine \/ (\E l \in Sockets : Listener(l)) \/ UNCHANGED vars
        => UNCHANGED <<profile, thread, cached>>
  <2>1. RunCallback => UNCHANGED <<profile, thread, cached>>  BY DEF RunCallback, chosen
  <2>2. Engine => UNCHANGED <<profile, thread, cached>>
    BY DEF Engine, EngineWorks, EngineAccept, EngineCommand, EngineFinish, EngineEnded,
           EngineHangup, EngineRow, EngineDies, EngineStarts, panel, chosen
  <2>3. (\E l \in Sockets : Listener(l)) => UNCHANGED <<profile, thread, cached>>
    BY DEF Listener, LoopTest, Call, Receive, Handle, Eof, MarkDisconnected, ListenerEnds, chosen
  <2>4. UNCHANGED vars => UNCHANGED <<profile, thread, cached>>  BY DEF vars, chosen
  <2> QED  BY <2>1, <2>2, <2>3, <2>4
<1> QED  BY <1>1, <1>2, <1>3, <1>4, <1>5 DEF Next

\* A patient user's panel never streams a Parquet file that is being converted, for any
\* number of threads, clicks and restarts (hft_frontend.py:453-485).
THEOREM WholeFileStreamed == Spec => StreamsWholeFile
<1>1. Init => PanelInv /\ OneAtATime
  <2> SUFFICES ASSUME Init PROVE OneAtATime  BY PanelInit
  <2>1. \A t \in Threads : t # "tk" => thread[t].at = "idle"  BY DEF Init, Idle
  <2>2. cached = "none" /\ \A t \in Threads : thread[t].cmd = "none"
    BY DEF Init, Connecting, Idle
  <2> QED  BY <2>1, <2>2 DEF OneAtATime, Busy, Fetches
<1>2. PanelInv /\ OneAtATime /\ [Next]_vars => (PanelInv /\ OneAtATime)'
  BY PanelStep, OneStep
<1>3. PanelInv /\ OneAtATime =>
        (profile.patient =>
           \A t \in Threads : ConvertedSent(t) => cached \in Convertible \cup {"torn"})
  <2> SUFFICES ASSUME PanelInv, OneAtATime, profile.patient, NEW t \in Threads, ConvertedSent(t)
               PROVE  cached \in Convertible \cup {"torn"}
    OBVIOUS
  <2>1. thread[t].at = "send" /\ Fetches(t)  BY DEF ConvertedSent, Fetches
  <2>2. cached # "none" /\ cached # "mixed"  BY <2>1 DEF OneAtATime
  <2>3. cached # "partial"
    <3> SUFFICES ASSUME cached = "partial" PROVE FALSE  OBVIOUS
    <3>1. PICK u \in Converters : thread[u].at = "writing"  BY DEF OneAtATime
    <3>2. u \in Busy /\ t \in Busy /\ u # t  BY <2>1, <3>1 DEF Busy, Threads
    <3> QED  BY <3>2 DEF OneAtATime
  <2> QED  BY <2>2, <2>3 DEF PanelInv, Display, CachedFile
<1> QED  BY <1>1, <1>2, <1>3, PTL DEF Spec, StreamsWholeFile

-----------------------------------------------------------------------------
(* The careful user's panel.                                                *)

\* One of the elements is in the set.
Has(q, s) == \E k \in 1..Len(q) : q[k] \in s

\* The parts of the panel's queue are the queue.
LEMMA HasParts ==
  ASSUME NEW S, NEW q \in Seq(S), NEW s
  PROVE  /\ ~Has(<< >>, s)
         /\ \A e \in S : Has(Append(q, e), s) <=> Has(q, s) \/ e \in s
         /\ q # << >> => (Has(q, s) <=> Head(q) \in s \/ Has(Tail(q), s))
         /\ \A r \in Seq(S) : Has(q \o r, s) <=> Has(q, s) \/ Has(r, s)
         /\ \A n \in 1..Len(q) :
              Has(q, s) <=> Has(SubSeq(q, 1, n), s) \/ Has(SubSeq(q, n + 1, Len(q)), s)
<1>1. ~Has(<< >>, s)  BY DEF Has
<1>2. ASSUME NEW r \in Seq(S)
      PROVE  Has(q \o r, s) <=> Has(q, s) \/ Has(r, s)
  <2>1. /\ Len(q) \in Nat /\ Len(r) \in Nat /\ Len(q \o r) = Len(q) + Len(r)
        /\ \A k \in 1..Len(q) : (q \o r)[k] = q[k]
        /\ \A k \in 1..Len(r) : (q \o r)[Len(q) + k] = r[k]
    OBVIOUS
  <2>2. Has(q, s) => Has(q \o r, s)
    <3>1. \A k \in 1..Len(q) : k \in 1..Len(q \o r)  BY <2>1
    <3> QED  BY <2>1, <3>1 DEF Has
  <2>3. Has(r, s) => Has(q \o r, s)
    <3>1. \A k \in 1..Len(r) : Len(q) + k \in 1..Len(q \o r)  BY <2>1
    <3> QED  BY <2>1, <3>1 DEF Has
  <2>4. ASSUME NEW k \in 1..Len(q \o r), (q \o r)[k] \in s
        PROVE  Has(q, s) \/ Has(r, s)
    <3>1. CASE k <= Len(q)
      <4>1. k \in 1..Len(q)  BY <3>1
      <4> QED  BY <2>1, <2>4, <4>1 DEF Has
    <3>2. CASE k > Len(q)
      <4>1. k - Len(q) \in 1..Len(r) /\ Len(q) + (k - Len(q)) = k  BY <2>1, <3>2
      <4>2. r[k - Len(q)] = (q \o r)[k]  BY <2>1, <4>1
      <4> QED  BY <2>4, <4>1, <4>2 DEF Has
    <3> QED  BY <2>1, <3>1, <3>2
  <2>5. Has(q \o r, s) => Has(q, s) \/ Has(r, s)  BY <2>4 DEF Has
  <2> QED  BY <2>2, <2>3, <2>5
<1>3. ASSUME NEW e \in S
      PROVE  Has(Append(q, e), s) <=> Has(q, s) \/ e \in s
  <2>1. Append(q, e) = q \o <<e>>  OBVIOUS
  <2>2. Has(<<e>>, s) <=> e \in s  BY DEF Has
  <2>3. <<e>> \in Seq(S)  OBVIOUS
  <2> QED  BY <1>2, <2>1, <2>2, <2>3
<1>4. ASSUME q # << >>
      PROVE  Has(q, s) <=> Head(q) \in s \/ Has(Tail(q), s)
  <2>1. /\ Len(q) \in Nat \ {0} /\ Len(Tail(q)) = Len(q) - 1 /\ Head(q) = q[1]
        /\ \A k \in 1..(Len(q) - 1) : Tail(q)[k] = q[k + 1]
    BY <1>4
  <2>2. Head(q) \in s => Has(q, s)
    <3>1. 1 \in 1..Len(q)  BY <2>1
    <3> QED  BY <2>1, <3>1 DEF Has
  <2>3. Has(Tail(q), s) => Has(q, s)
    <3>1. \A k \in 1..Len(Tail(q)) : k + 1 \in 1..Len(q) /\ Tail(q)[k] = q[k + 1]  BY <2>1
    <3> QED  BY <3>1 DEF Has
  <2>4. ASSUME NEW k \in 1..Len(q), q[k] \in s
        PROVE  Head(q) \in s \/ Has(Tail(q), s)
    <3>1. CASE k = 1  BY <2>1, <2>4, <3>1
    <3>2. CASE k # 1
      <4>1. k - 1 \in 1..Len(Tail(q)) /\ Tail(q)[k - 1] = q[k]
        <5>1. k - 1 \in 1..(Len(q) - 1) /\ (k - 1) + 1 = k  BY <2>1, <3>2
        <5> QED  BY <2>1, <5>1
      <4> QED  BY <2>4, <4>1 DEF Has
    <3> QED  BY <3>1, <3>2
  <2>5. Has(q, s) => Head(q) \in s \/ Has(Tail(q), s)  BY <2>4 DEF Has
  <2> QED  BY <2>2, <2>3, <2>5
<1>5. ASSUME NEW n \in 1..Len(q)
      PROVE  Has(q, s) <=> Has(SubSeq(q, 1, n), s) \/ Has(SubSeq(q, n + 1, Len(q)), s)
  <2> DEFINE a == SubSeq(q, 1, n)
             b == SubSeq(q, n + 1, Len(q))
  <2>1. /\ Len(q) \in Nat /\ Len(a) = n /\ Len(b) = Len(q) - n
        /\ \A k \in 1..n : a[k] = q[k]
        /\ \A k \in 1..(Len(q) - n) : b[k] = q[n + k]
    OBVIOUS
  <2> HIDE DEF a, b
  <2>2. Has(a, s) => Has(q, s)
    <3>1. \A k \in 1..Len(a) : k \in 1..Len(q) /\ a[k] = q[k]  BY <2>1
    <3> QED  BY <3>1 DEF Has
  <2>3. Has(b, s) => Has(q, s)
    <3>1. \A k \in 1..Len(b) : n + k \in 1..Len(q) /\ b[k] = q[n + k]  BY <2>1
    <3> QED  BY <3>1 DEF Has
  <2>4. ASSUME NEW k \in 1..Len(q), q[k] \in s
        PROVE  Has(a, s) \/ Has(b, s)
    <3>1. CASE k <= n
      <4>1. k \in 1..Len(a) /\ a[k] = q[k]  BY <2>1, <3>1
      <4> QED  BY <2>4, <4>1 DEF Has
    <3>2. CASE k > n
      <4>1. k - n \in 1..Len(b) /\ n + (k - n) = k  BY <2>1, <3>2
      <4>2. b[k - n] = q[k]  BY <2>1, <4>1
      <4> QED  BY <2>4, <4>1, <4>2 DEF Has
    <3> QED  BY <2>1, <3>1, <3>2
  <2>5. Has(q, s) => Has(a, s) \/ Has(b, s)  BY <2>4 DEF Has
  <2> QED  BY <2>2, <2>3, <2>5 DEF a, b
<1> QED  BY <1>1, <1>2, <1>3, <1>4, <1>5

\* A message that is told changes what can be read on the served connection.
LEMMA ToldFields ==
  ASSUME Wiring, serving # 0, NEW ms \in Seq(Message), chan' = Told(ms)
  PROVE  /\ \A g \in Sockets : /\ chan'[g].open = chan[g].open /\ chan'[g].closed = chan[g].closed
                               /\ chan'[g].cmds = chan[g].cmds
                               /\ g # serving => chan'[g].msgs = chan[g].msgs
         /\ chan'[serving].msgs = chan[serving].msgs \o ms
<1>1. serving \in Sockets  BY SocketNumbers DEF Wiring
<1>2. chan \in [Sockets -> Channel] /\ chan[serving] \in Channel  BY <1>1 DEF Wiring
<1> DEFINE rec == [chan[serving] EXCEPT !.msgs = chan[serving].msgs \o ms]
<1>3. chan' = [chan EXCEPT ![serving] = rec]  BY <1>1, <1>2 DEF Told
<1>4. /\ rec.open = chan[serving].open /\ rec.closed = chan[serving].closed
      /\ rec.cmds = chan[serving].cmds /\ rec.msgs = chan[serving].msgs \o ms
  BY <1>2 DEF Channel
<1> HIDE DEF rec
<1> QED  BY <1>1, <1>2, <1>3, <1>4

\* So does the answer to a command, which is taken off besides.
LEMMA AnsweredFields ==
  ASSUME Wiring, serving # 0, NEW ms \in Seq(Message), chan' = Answered(ms)
  PROVE  /\ \A g \in Sockets : /\ chan'[g].open = chan[g].open /\ chan'[g].closed = chan[g].closed
                               /\ g # serving => /\ chan'[g].msgs = chan[g].msgs
                                                 /\ chan'[g].cmds = chan[g].cmds
         /\ chan'[serving].msgs = chan[serving].msgs \o ms
         /\ chan'[serving].cmds = Tail(chan[serving].cmds)
<1>1. serving \in Sockets  BY SocketNumbers DEF Wiring
<1>2. chan \in [Sockets -> Channel] /\ chan[serving] \in Channel  BY <1>1 DEF Wiring
<1> DEFINE rec == [chan[serving] EXCEPT !.msgs = chan[serving].msgs \o ms,
                                        !.cmds = Tail(chan[serving].cmds)]
<1>3. chan' = [chan EXCEPT ![serving] = rec]  BY <1>1, <1>2 DEF Told, Answered, Channel
<1>4. /\ rec.open = chan[serving].open /\ rec.closed = chan[serving].closed
      /\ rec.cmds = Tail(chan[serving].cmds) /\ rec.msgs = chan[serving].msgs \o ms
  BY <1>2 DEF Channel
<1> HIDE DEF rec
<1> QED  BY <1>1, <1>2, <1>3, <1>4

\* A process that ends closes its end of every connection.
LEMMA DeadFields ==
  ASSUME Wiring, Dies
  PROVE  \A g \in Sockets :
           /\ ~chan'[g].open /\ chan'[g].closed = chan[g].closed /\ chan'[g].cmds = << >>
           /\ chan'[g].msgs \in {chan[g].msgs, << >>}
<1> SUFFICES ASSUME NEW g \in Sockets
             PROVE  /\ ~chan'[g].open /\ chan'[g].closed = chan[g].closed /\ chan'[g].cmds = << >>
                    /\ chan'[g].msgs \in {chan[g].msgs, << >>}
  OBVIOUS
<1>1. PICK keep \in BOOLEAN :
        chan' = [h \in Sockets |->
                   [chan[h] EXCEPT !.open = FALSE, !.cmds = << >>,
                                   !.msgs = IF keep THEN @ ELSE << >>]]
  BY DEF Dies, Gone
<1> DEFINE ms == IF keep THEN chan[g].msgs ELSE << >>
<1>2. chan'[g] = [chan[g] EXCEPT !.open = FALSE, !.cmds = << >>, !.msgs = ms]  BY <1>1
<1>3. ms \in {chan[g].msgs, << >>}  OBVIOUS
<1> HIDE DEF ms
<1> QED  BY <1>2, <1>3 DEF Wiring, Channel

\* The engine closes a connection the panel has closed.
LEMMA HangupFields ==
  ASSUME Wiring, EngineHangup
  PROVE  /\ \A g \in Sockets :
              /\ chan'[g].closed = chan[g].closed /\ chan'[g].cmds = chan[g].cmds
              /\ g # serving => chan'[g].open = chan[g].open /\ chan'[g].msgs = chan[g].msgs
         /\ serving # 0 /\ ~chan'[serving].open /\ chan'[serving].msgs = << >>
<1>1. serving # 0 /\ serving \in Sockets  BY SocketNumbers DEF Wiring, EngineHangup
<1>2. chan \in [Sockets -> Channel] /\ chan[serving] \in Channel  BY <1>1 DEF Wiring
<1> DEFINE rec == [chan[serving] EXCEPT !.open = FALSE, !.msgs = << >>]
<1>3. chan' = [chan EXCEPT ![serving] = rec]  BY <1>1, <1>2 DEF EngineHangup
<1>4. rec.closed = chan[serving].closed /\ rec.cmds = chan[serving].cmds /\ ~rec.open
      /\ rec.msgs = << >>
  BY <1>2 DEF Channel
<1> HIDE DEF rec
<1> QED  BY <1>1, <1>2, <1>3, <1>4

-----------------------------------------------------------------------------
StopButton == [text |-> "stop", on |-> TRUE]
OffButton == [text |-> "start", on |-> FALSE]
Tk == thread["tk"]

\* A careful user's panel converts nothing: the Tk thread is the only one.
Unconverted == selected \notin Convertible /\ \A t \in Converters : thread[t].at = "idle"

\* A listener that has begun and not ended reads the newest connection; it ends, and the
\* flag is reset, only when the engine has dropped that.
Live(l) == listener[l].at \notin {"none", "gone"}
Attached(l) ==
  /\ l = sock
  /\ listener[l].at \in {"call", "recv", "handle"} => listener[l].on = l
  /\ listener[l].at \in {"ending", "ended"} \/ ~isConnected => ~chan[l].open
  /\ listener[l].at = "ended" => ~isConnected
Alone == \A l \in Sockets : ~Live(l)

\* The one listener of a careful user's panel; while there is one, nothing offers
\* another connection.
OneListener ==
  /\ \A l \in Sockets : Live(l) => Attached(l)
  /\ isConnected => Tk.at = "listen" \/ ~Alone
  /\ (reconnectOn /\ Tk.at # "listen") \/ Has(after, {"disconnect"}) => ~isConnected

\* What the Tk thread finds between a click and the command: no callback and no listener
\* changes the flag, and a connection is made only where there is none.
OneClick ==
  /\ (Tk.at # "idle" /\ ~isConnected) \/ Tk.at = "listen" => Alone
  /\ Tk.at # "idle" => ~Has(after, {"disconnect"}) /\ \A l \in Sockets : listener[l].at # "ended"
  /\ Tk.at \in {"connect", "dial", "flag", "refused"} => ~isConnected
  /\ Tk.at \in {"listen", "send", "broken"} => isConnected
  /\ Tk.at = "test" => isConnected \/ sock = 0
  /\ Tk.at \in {"dial", "refused"} => sock = 0
  /\ Tk.at \in {"flag", "listen"} => sock # 0 /\ Tk.conn = sock
  /\ Tk.at = "broken" => sock # 0 /\ ~chan[sock].open

\* The buttons follow the flag, once the callbacks under way have run.
ButtonsFollow ==
  /\ ~Has(after, {"reset"})
  /\ isStreaming =>
       /\ ~Has(after, {"streamNormal", "testNormal", "disconnect"})
       /\ \/ streamButton = StopButton /\ testButton = OffButton
          \/ testButton = StopButton /\ streamButton = OffButton
  /\ ~isStreaming =>
       /\ streamButton = StartButton \/ Has(after, {"streamNormal", "disconnect"})
       /\ testButton = StartButton \/ Has(after, {"testNormal", "disconnect"})

\* The engine follows the flag, once the command under way has been sent and obeyed: it
\* runs a stream only for a panel that shows one or whose Stop is under way, and the news
\* of a stream's end is never under way together with its start.
EndNews == {"STREAM_FINISHED", "STOPPED"}
Running == serving = sock /\ stream \in {"file", "test"}
Sent(s) == Has(chan[sock].cmds, s)
EndUnderWay ==
  \/ Has(chan[sock].msgs, EndNews)
  \/ listener[sock].at = "handle" /\ Has(listener[sock].buffer, EndNews)
Heard == chan[sock].open \/ Live(sock) \/ Tk.at \in {"flag", "listen"}
EngineFollows ==
  /\ Waiting(StartCommands) => isStreaming
  /\ sock # 0 =>
       /\ \/ chan[sock].cmds = << >>
          \/ Tk.at = "idle" /\ \E c \in Command : chan[sock].cmds = <<c>>
       /\ Sent(StartCommands) => isStreaming
       /\ Running =>
            /\ isStreaming \/ Sent({"STOP"}) \/ Waiting({"STOP"})
            /\ ~Sent(StartCommands) /\ ~Waiting(StartCommands)
       /\ EndUnderWay /\ Heard =>
            ~Running /\ ~Sent(StartCommands) /\ ~Waiting(StartCommands)

CarefulInv == Unconverted /\ OneListener /\ OneClick /\ ButtonsFollow /\ EngineFollows

\* What a careful user sees before a click.
LEMMA QuietMeans ==
  ASSUME PanelInv, OneListener, Quiet
  PROVE  /\ after = << >> /\ \A s : ~Has(after, s)
         /\ \A g \in Sockets : chan[g].cmds = << >>
         /\ \A l \in Sockets : Live(l) =>
              /\ l = sock /\ isConnected /\ listener[l].at = "recv"
              /\ chan[l].open /\ chan[l].msgs = << >>
         /\ ~isConnected => Alone
         /\ Tk.at = "idle"
         /\ sock # 0 => ~(EndUnderWay /\ Heard)
<1>1. after = << >> /\ (\A s : ~Has(after, s)) /\ Tk.at = "idle"
  BY DEF Quiet, Has, Busy, Threads, Tk
<1>2. \A g \in Sockets : chan[g].cmds = << >>  BY DEF Quiet, PanelInv, Linked
<1>3. ASSUME NEW l \in Sockets, Live(l)
      PROVE  /\ l = sock /\ isConnected /\ listener[l].at = "recv" /\ chan[l].open
             /\ chan[l].msgs = << >>
  <2>1. listener[l].at = "recv" /\ chan[listener[l].on].open  BY <1>3 DEF Quiet, Live
  <2>2. Attached(l)  BY <1>3 DEF OneListener
  <2>3. l = sock /\ listener[l].on = l /\ isConnected  BY <2>1, <2>2 DEF Attached
  <2> QED  BY <2>1, <2>3 DEF Quiet
<1>4. ~isConnected => Alone  BY <1>3 DEF Alone
<1>5. ASSUME sock # 0 PROVE ~(EndUnderWay /\ Heard)
  <2>1. sock \in Sockets  BY <1>5, SocketNumbers DEF PanelInv, Wiring
  <2>2. Heard => chan[sock].msgs = << >>  BY <1>1, <1>3, <2>1 DEF Heard, Quiet
  <2>3. listener[sock].at # "handle"  BY <2>1 DEF Quiet
  <2> QED  BY <2>2, <2>3 DEF EndUnderWay, Has
<1> QED  BY <1>1, <1>2, <1>3, <1>4, <1>5

\* Only the Tk thread sends, and that changes neither the flag nor the two buttons.
LEMMA TkSends ==
  ASSUME PanelInv, CarefulInv, NEW t \in Threads, Sending(t)
  PROVE  /\ t = "tk" /\ Tk.at # "idle" /\ Unconverted' /\ ButtonsFollow'
         /\ UNCHANGED <<isStreaming, after, serving, stream>>
         /\ sock # 0 => chan[sock].cmds = << >>
<1>1. /\ thread[t].at # "idle"
      /\ \A u \in Threads : u # t => thread'[u] = thread[u]
  BY SendingMoves DEF PanelInv
<1>2. t = "tk"  BY <1>1 DEF CarefulInv, Unconverted, Threads
<1>3. /\ UNCHANGED <<isStreaming, streamButton, testButton, after, selected, serving, stream>>
  BY DEF Sending, Check, Connect, Dial, Flag, Listen, Refused, Test, Send, Broken, chosen, app,
         widgets, buttons, engine
<1>4. Unconverted'
  BY <1>1, <1>2, <1>3, PanelAssumption DEF CarefulInv, Unconverted, Threads
<1>5. ButtonsFollow'  BY <1>3 DEF CarefulInv, ButtonsFollow
<1> QED  BY <1>1, <1>2, <1>3, <1>4, <1>5 DEF CarefulInv, EngineFollows, Tk

\* The engine follows as before while the Tk thread only goes on, on the same connection.
LEMMA SameConnection ==
  ASSUME CarefulInv, UNCHANGED <<isStreaming, sock, chan, serving, stream>>,
         sock # 0 => chan[sock].cmds = << >>,
         Waiting(StartCommands)' => Waiting(StartCommands),
         sock # 0 /\ Running /\ Waiting({"STOP"}) => Waiting({"STOP"})',
         sock # 0 /\ EndUnderWay' => EndUnderWay,
         sock # 0 /\ Heard' => Heard
  PROVE  EngineFollows'
<1> SUFFICES ASSUME sock # 0
             PROVE  /\ Running => isStreaming \/ Waiting({"STOP"})'
                    /\ Running => ~Waiting(StartCommands)
                    /\ EndUnderWay /\ Heard => ~Running /\ ~Waiting(StartCommands)
  <2>1. ~Has(<< >>, StartCommands) /\ ~Has(<< >>, {"STOP"})  BY DEF Has
  <2> QED  BY <2>1 DEF CarefulInv, EngineFollows, Running, Sent
<1>1. ~Sent({"STOP"})  BY DEF Sent, Has
<1> QED  BY <1>1 DEF CarefulInv, EngineFollows

\* The flag is looked at (hft_frontend.py:260, 263).
LEMMA CheckFollows ==
  ASSUME PanelInv, CarefulInv, Check("tk") \/ Test("tk"), sock # 0 => chan[sock].cmds = << >>
  PROVE  OneListener' /\ OneClick' /\ EngineFollows'
<1> USE DEF PanelInv, CarefulInv
<1>1. /\ UNCHANGED <<isConnected, isStreaming, sock, reconnectOn, after, listener, chan,
                     serving, stream>>
      /\ Tk.at \in {"check", "test"} /\ "tk" \in Threads
  BY DEF Check, Test, app, widgets, engine, Tk, Threads
<1>2. /\ Tk'.at \in {"idle", "test", "connect", "send"}
      /\ Tk'.at = "idle" \/ Tk'.cmd = Tk.cmd
      /\ Tk'.at \in {"test", "send"} => isConnected
      /\ Tk'.at = "connect" => ~isConnected
      /\ Tk'.at = "idle" => sock = 0
  <2>1. CASE Check("tk") \/ isConnected
    <3>1. PICK p \in {"test", "connect", "send"} :
            Goes("tk", p) /\ (p = "connect" <=> ~isConnected)
      BY <2>1 DEF Check, Test
    <3>2. p \in Place \ {"idle", "reading"} /\ Tk.cmd \in Command
      BY <1>1, <3>1 DEF Place, Threaded, Carries, Tk
    <3> QED  BY <1>1, <3>1, <3>2, GoesOn DEF Tk
  <2>2. CASE Test("tk") /\ ~isConnected
    <3>1. Tk'.at = "idle"  BY <1>1, <2>2, EndsWell DEF Test, Tk
    <3>2. Tk.at = "test"  BY <2>2 DEF Test, Tk
    <3> QED  BY <2>2, <3>1, <3>2 DEF OneClick
  <2> QED  BY <2>1, <2>2
<1>3. \A l \in Sockets : (Live(l)' <=> Live(l)) /\ (Attached(l)' <=> Attached(l))
  BY <1>1 DEF Live, Attached
<1>4. OneListener'  BY <1>1, <1>2, <1>3 DEF OneListener, Alone
<1>5. OneClick'  BY <1>1, <1>2, <1>3 DEF OneClick, Alone
<1>6. sock # 0 => /\ EndUnderWay' => EndUnderWay
                  /\ Heard' => Heard
  BY <1>1, <1>2 DEF EndUnderWay, Heard, Live
<1>7. /\ Waiting(StartCommands)' => Waiting(StartCommands)
      /\ sock # 0 /\ Waiting({"STOP"}) => Waiting({"STOP"})'
  BY <1>1, <1>2 DEF Waiting, Tk
<1>8. EngineFollows'  BY <1>1, <1>6, <1>7, SameConnection
<1> QED  BY <1>4, <1>5, <1>8


\* A new connection is made only where there is none (hft_frontend.py:182-187).
LEMMA ConnectFollows ==
  ASSUME PanelInv, CarefulInv, Connect("tk")
  PROVE  OneListener' /\ OneClick' /\ EngineFollows'
<1> USE DEF PanelInv, CarefulInv
<1>1. /\ UNCHANGED <<isConnected, isStreaming, reconnectOn, after, listener>>
      /\ sock' = 0 /\ Tk.at = "connect" /\ Goes("tk", "dial") /\ "tk" \in Threads
  BY DEF Connect, widgets, Tk, Threads
<1>2. Tk'.at = "dial" /\ (Waiting(StartCommands)' <=> Waiting(StartCommands))
  <2>1. "dial" \in Place \ {"idle", "reading"}  BY DEF Place
  <2> QED  BY <1>1, <2>1, GoesOn DEF Tk
<1>3. Alone /\ Alone' /\ ~isConnected  BY <1>1 DEF OneClick, Alone, Live
<1>4. OneListener'  BY <1>1, <1>2, <1>3 DEF OneListener, Alone
<1>5. OneClick'  BY <1>1, <1>2, <1>3 DEF OneClick
<1>6. EngineFollows'  BY <1>1, <1>2 DEF EngineFollows
<1> QED  BY <1>4, <1>5, <1>6

LEMMA DialFollows ==
  ASSUME PanelInv, CarefulInv, Dial("tk")
  PROVE  OneListener' /\ OneClick' /\ EngineFollows'
<1> USE DEF PanelInv, CarefulInv
<1>1. /\ UNCHANGED <<isConnected, isStreaming, reconnectOn, after, listener, serving, stream>>
      /\ Tk.at = "dial" /\ "tk" \in Threads
  BY DEF Dial, widgets, engine, Tk, Threads
<1>2. Alone /\ Alone' /\ ~isConnected /\ sock = 0  BY <1>1 DEF OneClick, Alone, Live
<1>3. CASE /\ up /\ sock = 0 /\ opened < MaxConnections
           /\ opened' = opened + 1 /\ sock' = opened + 1
           /\ chan' = [chan EXCEPT ![opened + 1] = Fresh]
           /\ thread' = [thread EXCEPT !["tk"].at = "flag", !["tk"].conn = opened + 1]
  <2>1. /\ Tk'.at = "flag" /\ Tk'.conn = sock' /\ Tk'.cmd = Tk.cmd
        /\ Waiting(StartCommands)' <=> Waiting(StartCommands)
    <3>1. thread["tk"] \in Thread  BY <1>1 DEF Threaded
    <3>2. thread'["tk"] = [thread["tk"] EXCEPT !.at = "flag", !.conn = opened + 1]
      BY <1>1, <1>3 DEF Threaded
    <3>3. thread'["tk"].at = "flag" /\ thread'["tk"].conn = opened + 1
          /\ thread'["tk"].cmd = thread["tk"].cmd
      BY <3>1, <3>2 DEF Thread
    <3> QED  BY <1>1, <1>3, <3>3 DEF Tk, Waiting
  <2>2. sock' \in Sockets /\ sock' # 0 /\ serving # sock'  BY <1>3, SocketNumbers DEF Wiring
  <2>3. chan'[sock'].cmds = << >> /\ chan'[sock'].msgs = << >>
    BY <1>3, <2>2 DEF Wiring, Fresh
  <2>4. \A s : ~Has(<< >>, s)  BY DEF Has
  <2>5. ~EndUnderWay' /\ ~Running' /\ ~Sent(StartCommands)'
    BY <1>1, <1>2, <2>2, <2>3, <2>4 DEF EndUnderWay, Running, Sent, Alone, Live
  <2>6. OneListener'  BY <1>1, <1>2, <2>1 DEF OneListener, Alone
  <2>7. OneClick'  BY <1>1, <1>2, <2>1, <2>2 DEF OneClick
  <2>8. EngineFollows'  BY <1>1, <2>1, <2>3, <2>5 DEF EngineFollows
  <2> QED  BY <2>6, <2>7, <2>8
<1>4. CASE Goes("tk", "refused") /\ UNCHANGED <<sock, chan, opened>>
  <2>1. Tk'.at = "refused" /\ (Waiting(StartCommands)' <=> Waiting(StartCommands))
    <3>1. "refused" \in Place \ {"idle", "reading"}  BY DEF Place
    <3> QED  BY <1>1, <1>4, <3>1, GoesOn DEF Tk
  <2>2. OneListener'  BY <1>1, <1>2, <2>1 DEF OneListener, Alone
  <2>3. OneClick'  BY <1>1, <1>2, <1>4, <2>1 DEF OneClick
  <2>4. EngineFollows'  BY <1>1, <1>2, <1>4, <2>1 DEF EngineFollows
  <2> QED  BY <2>2, <2>3, <2>4
<1> QED  BY <1>2, <1>3, <1>4 DEF Dial

LEMMA FlagFollows ==
  ASSUME PanelInv, CarefulInv, Flag("tk"), chan[sock].cmds = << >>
  PROVE  OneListener' /\ OneClick' /\ EngineFollows'
<1> USE DEF PanelInv, CarefulInv
<1>1. /\ UNCHANGED <<isStreaming, sock, reconnectOn, after, listener, chan, serving, stream>>
      /\ isConnected' = TRUE
      /\ Tk.at = "flag" /\ "tk" \in Threads /\ Goes("tk", "listen")
  BY DEF Flag, widgets, engine, Tk, Threads
<1>2. Alone /\ Alone' /\ ~isConnected /\ sock # 0 /\ Tk.conn = sock
  BY <1>1 DEF OneClick, Alone, Live
<1>3. /\ Tk'.at = "listen" /\ Tk'.conn = Tk.conn
      /\ \A c : Waiting(c)' <=> Waiting(c)
  <2>1. "listen" \in Place \ {"idle", "reading"}  BY DEF Place
  <2> QED  BY <1>1, <2>1, GoesOn DEF Tk
<1>4. ~Has(after, {"disconnect"})  BY <1>1 DEF OneClick
<1>5. OneListener'  BY <1>1, <1>2, <1>3, <1>4 DEF OneListener, Alone
<1>6. OneClick'
  BY <1>1, <1>2, <1>3, <1>4 DEF OneClick, Alone, Live
<1>7. EngineFollows'
  <2>1. EndUnderWay' => EndUnderWay  BY <1>1 DEF EndUnderWay
  <2>2. Heard' => Heard  BY <1>1 DEF Heard
  <2> QED  BY <1>1, <1>3, <2>1, <2>2, SameConnection
<1> QED  BY <1>5, <1>6, <1>7

\* The listener begins on the connection it was made for (hft_frontend.py:191-193).
LEMMA ListenFollows ==
  ASSUME PanelInv, CarefulInv, Listen("tk"), chan[sock].cmds = << >>
  PROVE  OneListener' /\ OneClick' /\ EngineFollows'
<1> USE DEF PanelInv, CarefulInv
<1>1. /\ UNCHANGED <<isConnected, isStreaming, sock, after, chan, serving, stream>>
      /\ Tk.at = "listen" /\ "tk" \in Threads /\ reconnectOn' = FALSE
      /\ listener' = [listener EXCEPT ![Tk.conn].at = "loop"] /\ Returns("tk")
  BY DEF Listen, app, engine, Tk, Threads
<1>2. /\ Alone /\ isConnected /\ sock # 0 /\ Tk.conn = sock
      /\ sock \in Sockets
  BY <1>1, SocketNumbers DEF OneClick, Wiring
<1>3. /\ Tk'.at \in {"idle", "test"}
      /\ \A c \in SUBSET Command : Waiting(c)' <=> Waiting(c)
  BY <1>1, ReturnsWell DEF Tk
<1>4. StartCommands \in SUBSET Command /\ {"STOP"} \in SUBSET Command
  BY DEF StartCommands, Command
<1>5. ~Has(after, {"disconnect"})  BY <1>1 DEF OneClick
<1>6. /\ listener'[sock].at = "loop"
      /\ \A l \in Sockets : l # sock => listener'[l] = listener[l]
  <2>1. listener[sock] \in ListenerState(opened)  BY <1>2 DEF Wiring
  <2>2. listener'[sock] = [listener[sock] EXCEPT !.at = "loop"]
    BY <1>1, <1>2 DEF Wiring
  <2>3. listener'[sock].at = "loop"  BY <2>1, <2>2 DEF ListenerState
  <2> QED  BY <1>1, <1>2, <2>3 DEF Wiring
<1>7. /\ \A l \in Sockets : Live(l)' <=> l = sock
      /\ Attached(sock)' /\ ~Alone'
  <2>1. \A l \in Sockets : Live(l)' <=> l = sock  BY <1>2, <1>6 DEF Live, Alone
  <2>2. Attached(sock)'  BY <1>1, <1>2, <1>6 DEF Attached
  <2> QED  BY <1>2, <2>1, <2>2 DEF Alone
<1>8. OneListener'  BY <1>1, <1>5, <1>7 DEF OneListener
<1>9. OneClick'
  <2>1. \A l \in Sockets : listener'[l].at # "ended"
    BY <1>2, <1>6 DEF Alone, Live
  <2> QED  BY <1>1, <1>2, <1>3, <1>5, <2>1 DEF OneClick
<1>10. EngineFollows'
  <2>1. EndUnderWay' => EndUnderWay  BY <1>1, <1>6 DEF EndUnderWay
  <2>2. Heard  BY <1>1 DEF Heard
  <2> QED  BY <1>1, <1>3, <1>4, <2>1, <2>2, SameConnection
<1> QED  BY <1>8, <1>9, <1>10

LEMMA RefusedFollows ==
  ASSUME PanelInv, CarefulInv, Refused("tk")
  PROVE  OneListener' /\ OneClick' /\ EngineFollows'
<1> USE DEF PanelInv, CarefulInv
<1>1. /\ UNCHANGED <<isStreaming, sock, after, listener, chan, serving, stream>>
      /\ isConnected' = FALSE
      /\ Tk.at = "refused" /\ "tk" \in Threads /\ Returns("tk")
  BY DEF Refused, widgets, engine, Tk, Threads
<1>2. Alone /\ Alone' /\ sock = 0  BY <1>1 DEF OneClick, Alone, Live
<1>3. /\ Tk'.at \in {"idle", "test"}
      /\ Waiting(StartCommands)' <=> Waiting(StartCommands)
  <2>1. StartCommands \in SUBSET Command  BY DEF StartCommands, Command
  <2> QED  BY <1>1, <2>1, ReturnsWell DEF Tk
<1>4. OneListener'  BY <1>1, <1>2, <1>3 DEF OneListener, Alone
<1>5. OneClick'  BY <1>1, <1>2, <1>3 DEF OneClick
<1>6. EngineFollows'  BY <1>1, <1>2, <1>3 DEF EngineFollows
<1> QED  BY <1>4, <1>5, <1>6

\* The only command on the connection; a start is sent only to an engine that runs nothing
\* (hft_frontend.py:264-265).
LEMMA SendFollows ==
  ASSUME PanelInv, CarefulInv, Send("tk"), chan[sock].cmds = << >>
  PROVE  OneListener' /\ OneClick' /\ EngineFollows'
<1> USE DEF PanelInv, CarefulInv
<1>1. /\ UNCHANGED <<isConnected, isStreaming, sock, reconnectOn, after, listener, serving,
                     stream>>
      /\ Tk.at = "send" /\ "tk" \in Threads
  BY DEF Send, app, widgets, engine, Tk, Threads
<1>2. isConnected /\ ~Alone /\ ~Has(after, {"disconnect"})
  BY <1>1 DEF OneClick, OneListener
<1>3. PICK l \in Sockets : Live(l)  BY <1>2 DEF Alone
<1>4. l = sock /\ sock \in Sockets /\ sock # 0 /\ Attached(sock)
  BY <1>3, SocketNumbers DEF OneListener, Attached
<1>5. Tk.cmd \in Command  BY <1>1 DEF Threaded, Carries, Tk
\* Whatever it sends, the one listener stays attached.
<1>6. ASSUME \A g \in Sockets : chan'[g].open = chan[g].open,
             Tk'.at \in {"idle", "broken"},
             Tk'.at = "broken" => ~chan[sock].open
      PROVE  OneListener' /\ OneClick'
  <2>1. \A k \in Sockets : (Live(k)' <=> Live(k)) /\ (k = sock /\ Attached(k) => Attached(k)')
    BY <1>1, <1>4, <1>6 DEF Live, Attached
  <2>2. \A k \in Sockets : Live(k) => k = sock /\ Attached(k)
    BY DEF OneListener, Attached
  <2>3. OneListener'  BY <1>1, <1>2, <2>1, <2>2 DEF OneListener, Alone
  <2>4. OneClick'  BY <1>1, <1>2, <1>4, <1>6 DEF OneClick
  <2> QED  BY <2>3, <2>4
<1>7. CASE /\ chan[sock].open /\ Ends("tk")
           /\ chan' = [chan EXCEPT ![sock].cmds = Append(@, thread["tk"].cmd)]
  <2> DEFINE rec == [chan[sock] EXCEPT !.cmds = Append(chan[sock].cmds, Tk.cmd)]
  <2>1. Tk' = Idle /\ Idle.at = "idle"  BY <1>1, <1>7, EndsWell DEF Tk
  <2>2. chan \in [Sockets -> Channel] /\ chan[sock] \in Channel  BY <1>4 DEF Wiring
  <2>3. chan' = [chan EXCEPT ![sock] = rec]  BY <1>4, <1>7, <2>2 DEF Tk
  <2>4. /\ rec.cmds = <<Tk.cmd>> /\ rec.msgs = chan[sock].msgs /\ rec.open = chan[sock].open
    <3>1. Append(<< >>, Tk.cmd) = <<Tk.cmd>>  OBVIOUS
    <3> QED  BY <2>2, <3>1 DEF Channel
  <2> HIDE DEF rec
  <2>5. chan'[sock] = rec /\ \A g \in Sockets : g # sock => chan'[g] = chan[g]
    BY <1>4, <2>2, <2>3
  <2>6. \A g \in Sockets : chan'[g].open = chan[g].open  BY <2>4, <2>5
  <2>7. OneListener' /\ OneClick'
    <3>1. Tk'.at = "idle"  BY <2>1
    <3> QED  BY <1>6, <2>6, <3>1
  <2>8. \A s : Has(<<Tk.cmd>>, s) <=> Tk.cmd \in s  BY DEF Has
  <2>9. \A s : (Sent(s)' <=> Tk.cmd \in s) /\ ~Waiting(s)'
                /\ (Waiting(s) <=> Tk.cmd \in s)
    BY <1>1, <2>1, <2>4, <2>5, <2>8 DEF Sent, Waiting, Tk
  <2>10. ~Sent({"STOP"}) /\ ~Sent(StartCommands)
    BY DEF Sent, Has
  <2>11. EndUnderWay' <=> EndUnderWay  BY <1>1, <2>4, <2>5 DEF EndUnderWay
  <2>12. chan'[sock].cmds = <<Tk.cmd>>  BY <2>4, <2>5
  <2>13. Heard  BY <1>7 DEF Heard
  <2>14. Running' <=> Running  BY <1>1 DEF Running
  <2>15. Running => isStreaming \/ Waiting({"STOP"})
    BY <1>4, <2>10 DEF EngineFollows
  <2>16. /\ Waiting(StartCommands) => isStreaming
         /\ Running => ~Waiting(StartCommands)
         /\ EndUnderWay => ~Running /\ ~Waiting(StartCommands)
    BY <1>4, <2>13 DEF EngineFollows
  <2>17. EngineFollows'
    <3> SUFFICES /\ ~Waiting(StartCommands)'
                 /\ chan'[sock].cmds = <<Tk.cmd>> /\ Tk'.at = "idle"
                 /\ Sent(StartCommands)' => isStreaming'
                 /\ Running' => (isStreaming' \/ Sent({"STOP"})') /\ ~Sent(StartCommands)'
                 /\ EndUnderWay' => ~Running' /\ ~Sent(StartCommands)'
      BY <1>1, <1>5 DEF EngineFollows
    <3> QED  BY <1>1, <2>1, <2>9, <2>11, <2>12, <2>14, <2>15, <2>16
  <2> QED  BY <2>7, <2>17
<1>8. CASE ~chan[sock].open /\ chan' = chan /\ (Ends("tk") \/ Goes("tk", "broken"))
  <2>1. Tk'.at \in {"idle", "broken"} /\ \A s : Waiting(s)' => Waiting(s)
    <3>1. CASE Ends("tk")  BY <1>1, <3>1, EndsWell DEF Tk, Waiting
    <3>2. CASE Goes("tk", "broken")
      <4>1. "broken" \in Place \ {"idle", "reading"}  BY DEF Place
      <4> QED  BY <1>1, <1>5, <3>2, <4>1, GoesOn DEF Tk
    <3> QED  BY <1>8, <3>1, <3>2
  <2>2. OneListener' /\ OneClick'  BY <1>6, <1>8, <2>1
  <2>3. ~Running  BY <1>8, <1>4 DEF Running, Linked
  <2>4. EndUnderWay' => EndUnderWay  BY <1>1, <1>8 DEF EndUnderWay
  <2>5. Heard' => Heard  BY <1>1, <1>8, <2>1 DEF Heard, Live
  <2>6. EngineFollows'  BY <1>1, <1>8, <2>1, <2>3, <2>4, <2>5, SameConnection
  <2> QED  BY <2>2, <2>6
<1> QED  BY <1>4, <1>7, <1>8 DEF Send

LEMMA BrokenFollows ==
  ASSUME PanelInv, CarefulInv, Broken("tk"), chan[sock].cmds = << >>
  PROVE  OneListener' /\ OneClick' /\ EngineFollows'
<1> USE DEF PanelInv, CarefulInv
<1>1. /\ UNCHANGED <<isStreaming, sock, reconnectOn, after, listener, chan, serving, stream>>
      /\ isConnected' = FALSE
      /\ Tk.at = "broken" /\ "tk" \in Threads /\ Ends("tk")
  BY DEF Broken, widgets, engine, Tk, Threads
<1>2. sock # 0 /\ sock \in Sockets /\ ~chan[sock].open
  BY <1>1, SocketNumbers DEF OneClick, Wiring
<1>3. Tk'.at = "idle"  BY <1>1, EndsWell DEF Tk
<1>4. \A l \in Sockets : (Live(l)' <=> Live(l)) /\ (Live(l) => Attached(l)')
  BY <1>1, <1>2 DEF Live, Attached, OneListener
<1>5. OneListener'  BY <1>1, <1>3, <1>4 DEF OneListener
<1>6. OneClick'  BY <1>3 DEF OneClick
<1>7. EngineFollows'
  <2>1. ~Running  BY <1>2 DEF Running, Linked
  <2>2. EndUnderWay' => EndUnderWay  BY <1>1 DEF EndUnderWay
  <2>3. Heard' => Heard  BY <1>1, <1>3 DEF Heard, Live
  <2>4. ~Waiting(StartCommands)'  BY <1>3 DEF Waiting, Tk
  <2> QED  BY <1>1, <1>2, <2>1, <2>2, <2>3, <2>4, SameConnection
<1> QED  BY <1>5, <1>6, <1>7

\* A step of send_command or connect_to_engine (hft_frontend.py:182-199, 259-268).
LEMMA SendingFollows ==
  ASSUME PanelInv, CarefulInv, NEW t \in Threads, Sending(t)
  PROVE  CarefulInv'
<1>1. /\ t = "tk" /\ Unconverted' /\ ButtonsFollow'
      /\ sock # 0 => chan[sock].cmds = << >>
  BY TkSends
<1>2. OneListener' /\ OneClick' /\ EngineFollows'
  <2>1. CASE Check(t) \/ Test(t)  BY <1>1, <2>1, CheckFollows
  <2>2. CASE Connect(t)  BY <1>1, <2>2, ConnectFollows
  <2>3. CASE Dial(t)  BY <1>1, <2>3, DialFollows
  <2>4. CASE Refused(t)  BY <1>1, <2>4, RefusedFollows
  <2>5. CASE Flag(t) \/ Listen(t)
    <3>1. Tk.at \in {"flag", "listen"}  BY <1>1, <2>5 DEF Flag, Listen, Tk
    <3>2. sock # 0  BY <3>1 DEF CarefulInv, OneClick
    <3> QED  BY <1>1, <2>5, <3>2, FlagFollows, ListenFollows
  <2>6. CASE Send(t) \/ Broken(t)
    <3>1. Tk.at \in {"send", "broken"}  BY <1>1, <2>6 DEF Send, Broken, Tk
    <3>2. isConnected /\ ~Alone  BY <3>1 DEF CarefulInv, OneClick, OneListener
    <3>3. sock # 0  BY <3>2, SocketNumbers DEF Alone, CarefulInv, OneListener, Attached
    <3> QED  BY <1>1, <2>6, <3>3, SendFollows, BrokenFollows
  <2> QED  BY <2>1, <2>2, <2>3, <2>4, <2>5, <2>6 DEF Sending
<1> QED  BY <1>1, <1>2 DEF CarefulInv

-----------------------------------------------------------------------------
\* A click of a careful user (hft_frontend.py:182-199, 407-445, 486-505).
LEMMA ClickFollows ==
  ASSUME PanelInv, CarefulInv, Quiet,
         StartStream \/ StopStream \/ StartTest \/ StopTest \/ SendModel \/ Reconnect
  PROVE  CarefulInv'
<1> USE DEF PanelInv, CarefulInv
<1>1. /\ after = << >> /\ (\A s : ~Has(after, s)) /\ Tk.at = "idle"
      /\ \A g \in Sockets : chan[g].cmds = << >>
      /\ \A l \in Sockets : Live(l) => listener[l].at = "recv"
      /\ ~isConnected => Alone
      /\ sock # 0 => ~(EndUnderWay /\ Heard)
  BY QuietMeans
<1>2. ~NeedsConversion  BY DEF Unconverted, NeedsConversion
<1>3. /\ UNCHANGED <<isConnected, sock, reconnectOn, after, listener, chan, serving, stream,
                     selected>>
      /\ \A s : ~Has(after', s)
  <2>1. UNCHANGED <<isConnected, sock, reconnectOn, after, listener, chan, serving, stream,
                    selected>>
    BY DEF StartStream, StopStream, StartTest, StopTest, SendModel, Reconnect, engine, app,
           widgets, chosen
  <2> QED  BY <1>1, <2>1
<1>4. ~isStreaming => streamButton = StartButton /\ testButton = StartButton
  BY <1>1 DEF ButtonsFollow
<1>5. isStreaming => \/ streamButton = StopButton /\ testButton = OffButton
                     \/ testButton = StopButton /\ streamButton = OffButton
  BY DEF ButtonsFollow
<1>6. ButtonsFollow'
  <2>1. CASE StopStream \/ StopTest
    <3>1. isStreaming' = FALSE  BY <2>1 DEF StopStream, StopTest, FlagCleared
    <3>2. streamButton' = StartButton /\ testButton' = StartButton
      BY <1>5, <2>1 DEF StopStream, StopTest, StartButton, StopButton, OffButton
    <3> QED  BY <1>3, <3>1, <3>2 DEF ButtonsFollow
  <2>2. CASE StartStream \/ StartTest
    <3>1. isStreaming' = TRUE  BY <2>2 DEF StartStream, StartTest
    <3>2. \/ streamButton' = StopButton /\ testButton' = OffButton
          \/ testButton' = StopButton /\ streamButton' = OffButton
      BY <1>4, <2>2 DEF StartStream, StartTest, StartButton, StopButton, OffButton
    <3> QED  BY <1>3, <3>1, <3>2 DEF ButtonsFollow
  <2>3. CASE SendModel \/ Reconnect
    <3>1. UNCHANGED <<isStreaming, streamButton, testButton>>
      BY <2>3 DEF SendModel, Reconnect, app, widgets, buttons
    <3> QED  BY <1>3, <3>1 DEF ButtonsFollow
  <2> QED  BY <2>1, <2>2, <2>3
\* The Tk thread has a command, or connects.
<1>7. PICK c \in Command \cup {"none"} :
        /\ Tk'.at = (IF c = "none" THEN "connect" ELSE "check")
        /\ Tk'.cmd = c
        /\ \A t \in Threads : t # "tk" => thread'[t] = thread[t]
        /\ c = "none" => ~isConnected
        /\ c \in StartCommands => ~isStreaming /\ isStreaming'
        /\ c \in Command \ StartCommands => isStreaming' = isStreaming \/ c = "STOP"
        /\ c = "none" => isStreaming' = isStreaming
  <2>1. "none" \notin Command /\ "tk" \in Threads  BY DEF Command, Threads
  <2>2. CASE Reconnect
    <3>1. ~isConnected  BY <1>1, <2>2 DEF Reconnect, OneListener
    <3>2. /\ thread' = [thread EXCEPT !["tk"] = Connecting] /\ isStreaming' = isStreaming
      BY <2>2 DEF Reconnect, app
    <3>3. thread'["tk"] = Connecting /\ \A t \in Threads : t # "tk" => thread'[t] = thread[t]
      BY <2>1, <3>2 DEF Threaded
    <3>4. Connecting.at = "connect" /\ Connecting.cmd = "none"  BY DEF Connecting, Idle
    <3>5. "none" \notin StartCommands  BY DEF StartCommands
    <3> QED  BY <2>1, <3>1, <3>2, <3>3, <3>4, <3>5 DEF Tk
  <2>3. ASSUME ~Reconnect
        PROVE  \E c \in Command :
                 /\ Commands(c)
                 /\ c \in StartCommands => ~isStreaming /\ isStreaming'
                 /\ c \notin StartCommands => isStreaming' = isStreaming \/ c = "STOP"
    <3>1. {"STOP", "STREAM", "TEST_STREAM", "MODEL"} \subseteq Command  BY DEF Command
    <3>2. "STOP" \notin StartCommands /\ "MODEL" \notin StartCommands  BY DEF StartCommands
    <3>3. CASE StopStream \/ StopTest
      <4>1. Commands("STOP")  BY <3>3 DEF StopStream, StopTest, StopSent
      <4> QED  BY <3>1, <3>2, <4>1
    <3>4. CASE StartStream
      <4>1. Commands("STREAM") /\ ~isStreaming /\ isStreaming'  BY <1>2, <3>4 DEF StartStream
      <4>2. "STREAM" \in StartCommands  BY DEF StartCommands
      <4> QED  BY <3>1, <4>1, <4>2
    <3>5. CASE StartTest
      <4>1. Commands("TEST_STREAM") /\ ~isStreaming /\ isStreaming'  BY <3>5 DEF StartTest
      <4>2. "TEST_STREAM" \in StartCommands  BY DEF StartCommands
      <4> QED  BY <3>1, <4>1, <4>2
    <3>6. CASE SendModel
      <4>1. Commands("MODEL") /\ isStreaming' = isStreaming  BY <3>6 DEF SendModel, app
      <4> QED  BY <3>1, <3>2, <4>1
    <3> QED  BY <2>3, <3>3, <3>4, <3>5, <3>6
  <2>4. CASE ~Reconnect
    <3>1. PICK c \in Command :
            /\ Commands(c)
            /\ c \in StartCommands => ~isStreaming /\ isStreaming'
            /\ c \notin StartCommands => isStreaming' = isStreaming \/ c = "STOP"
      BY <2>3, <2>4
    <3>2. /\ thread'["tk"].at = "check" /\ thread'["tk"].cmd = c
          /\ \A u \in Threads : u # "tk" => thread'[u] = thread[u]
      BY <3>1, TkCommands DEF Display
    <3> QED  BY <2>1, <3>1, <3>2 DEF Tk
  <2> QED  BY <2>2, <2>4
<1>8. Unconverted'
  BY <1>3, <1>7, PanelAssumption DEF Unconverted, Threads
<1>9. \A l \in Sockets : (Live(l)' <=> Live(l)) /\ (Attached(l)' <=> Attached(l))
  BY <1>3 DEF Live, Attached
<1>10. Tk'.at \in {"check", "connect"}  BY <1>7
<1>11. OneListener'  BY <1>1, <1>3, <1>9, <1>10 DEF OneListener, Alone
<1>12. OneClick'
  <2>1. \A l \in Sockets : listener[l].at # "ended"  BY <1>1 DEF Live
  <2>2. Tk'.at = "connect" => ~isConnected  BY <1>7
  <2> QED  BY <1>1, <1>3, <1>9, <1>10, <2>1, <2>2 DEF OneClick, Alone
<1>13. EngineFollows'
  <2>1. \A s : Waiting(s)' <=> Tk'.cmd \in s  BY <1>10 DEF Waiting, Tk
  <2>2. "none" \notin StartCommands  BY DEF StartCommands
  <2>3. Waiting(StartCommands)' => ~isStreaming /\ isStreaming'  BY <1>7, <2>1
  <2> SUFFICES ASSUME sock # 0
               PROVE  /\ chan[sock].cmds = << >>
                      /\ Running => /\ isStreaming' \/ Waiting({"STOP"})'
                                    /\ ~Waiting(StartCommands)'
                      /\ ~(EndUnderWay /\ Heard)'
                      /\ ~Sent(StartCommands)
    BY <1>3, <2>3 DEF EngineFollows, Running, Sent
  <2>4. sock \in Sockets  BY SocketNumbers DEF Wiring
  <2>5. chan[sock].cmds = << >> /\ \A s : ~Sent(s)  BY <1>1, <2>4 DEF Sent, Has
  <2>6. Running => isStreaming
    <3>1. ~Waiting({"STOP"})  BY <1>1 DEF Waiting, Tk
    <3> QED  BY <2>5, <3>1 DEF EngineFollows
  <2>7. Running => (isStreaming' \/ Waiting({"STOP"})') /\ ~Waiting(StartCommands)'
    <3>1. CASE c \in StartCommands  BY <1>7, <2>3, <2>6, <3>1
    <3>2. CASE c \notin StartCommands /\ c # "none"
      <4>1. isStreaming' = isStreaming \/ Waiting({"STOP"})'  BY <1>7, <2>1, <3>2
      <4>2. ~Waiting(StartCommands)'  BY <1>7, <2>1, <3>2
      <4> QED  BY <2>6, <4>1, <4>2
    <3>3. CASE c = "none"
      <4>1. isStreaming' = isStreaming /\ ~Waiting(StartCommands)'  BY <1>7, <2>1, <2>2, <3>3
      <4> QED  BY <2>6, <4>1
    <3> QED  BY <3>1, <3>2, <3>3
  <2>8. ~(EndUnderWay /\ Heard)'
    <3>1. EndUnderWay' <=> EndUnderWay  BY <1>3 DEF EndUnderWay
    <3>2. Heard' => Heard  BY <1>3, <1>10 DEF Heard, Live
    <3> QED  BY <1>1, <3>1, <3>2
  <2> QED  BY <2>5, <2>7, <2>8
<1> QED  BY <1>6, <1>8, <1>11, <1>12, <1>13

\* Such a user has no file that is converted (hft_frontend.py:421-427).
LEMMA SelectionFollows ==
  ASSUME PanelInv, CarefulInv, Careful, FileSelected \/ ModelSelected \/ UNCHANGED vars
  PROVE  CarefulInv'
<1> USE DEF CarefulInv
<1>1. UNCHANGED <<app, streamButton, testButton, reconnectOn, after, thread, listener, chan,
                  engine>>
  BY DEF FileSelected, ModelSelected, vars, widgets, buttons
<1>2. selected' \notin Convertible
  <2>1. CASE FileSelected  BY <2>1 DEF FileSelected, Careful
  <2>2. CASE ~FileSelected
    BY <2>2 DEF ModelSelected, vars, chosen, Unconverted
  <2> QED  BY <2>1, <2>2
<1>3. Unconverted'  BY <1>1, <1>2 DEF Unconverted
<1>4. \A l \in Sockets : (Live(l)' <=> Live(l)) /\ (Attached(l)' <=> Attached(l))
  BY <1>1 DEF Live, Attached, app
<1>5. OneListener' /\ OneClick'
  BY <1>1, <1>4 DEF OneListener, OneClick, Alone, Tk, app
<1>6. ButtonsFollow'  BY <1>1 DEF ButtonsFollow, app
<1>7. EngineFollows'
  <2>1. UNCHANGED <<sock, chan, isStreaming, serving, stream, listener, thread>>
    BY <1>1 DEF app, engine
  <2> QED
    BY <2>1 DEF EngineFollows, Running, EndUnderWay, Sent, Heard, Waiting, Live, Tk
<1> QED  BY <1>3, <1>5, <1>6, <1>7

\* A new panel follows whatever the old one did (hft_frontend.py:37-56).
LEMMA RestartFollows == ASSUME PanelInv, Restart PROVE CarefulInv'
<1>1. /\ selected' = "none" /\ isConnected' = FALSE /\ isStreaming' = FALSE /\ sock' = 0
      /\ streamButton' = StartButton /\ testButton' = StartButton /\ after' = << >>
      /\ thread' = [t \in Threads |-> IF t = "tk" THEN Connecting ELSE Idle]
  BY DEF Restart
<1>2. \A l \in Sockets : listener'[l].at \in {"none", "gone"}
  BY DEF Restart, NoListener
<1>3. /\ Tk'.at = "connect" /\ Tk'.cmd = "none"
      /\ \A t \in Converters : thread'[t].at = "idle"
  <2>1. Connecting.at = "connect" /\ Connecting.cmd = "none" /\ Idle.at = "idle"
    BY DEF Connecting, Idle
  <2> QED  BY <1>1, <2>1, PanelAssumption DEF Tk, Threads
<1>4. \A s : ~Has(after', s)  BY <1>1 DEF Has
<1>5. Alone' /\ \A l \in Sockets : ~Live(l)'  BY <1>2 DEF Alone, Live
<1>6. Unconverted'  BY <1>1, <1>3 DEF Unconverted, Convertible
<1>7. OneListener'  BY <1>1, <1>5 DEF OneListener
<1>8. OneClick'  BY <1>1, <1>2, <1>3, <1>4, <1>5 DEF OneClick
<1>9. ButtonsFollow'  BY <1>1, <1>4 DEF ButtonsFollow
<1>10. EngineFollows'
  <2>1. ~Waiting(StartCommands)'  BY <1>3 DEF Waiting, Tk, StartCommands
  <2> QED  BY <1>1, <2>1 DEF EngineFollows
<1> QED  BY <1>6, <1>7, <1>8, <1>9, <1>10 DEF CarefulInv

\* A callback brings the buttons to what the flag says (hft_frontend.py:222-241, 429-432).
LEMMA CallbackFollows == ASSUME PanelInv, CarefulInv, RunCallback PROVE CarefulInv'
<1> USE DEF CarefulInv
<1> DEFINE e == Head(after)
<1>1. /\ after # << >> /\ after' = Tail(after) /\ Tk.at = "idle" /\ Tk' = Tk
      /\ UNCHANGED <<selected, isConnected, sock, listener, chan, thread, serving, stream>>
  BY DEF RunCallback, TkIdle, Tk, chosen, engine
<1>2. \A s : Has(after, s) <=> e \in s \/ Has(after', s)
  BY <1>1, HasParts DEF PanelInv, Display
<1>3. ~Has(after, {"reset"}) /\ e # "reset"  BY <1>2 DEF ButtonsFollow
<1>4. isStreaming' = isStreaming  BY <1>3 DEF RunCallback, Disconnected
<1>5. OneListener'
  <2>1. reconnectOn' => reconnectOn \/ e = "disconnect"  BY <1>3 DEF RunCallback
  <2>2. reconnectOn' \/ Has(after', {"disconnect"}) => ~isConnected
    BY <1>1, <1>2, <2>1 DEF OneListener
  <2>3. \A l \in Sockets : (Live(l)' <=> Live(l)) /\ (Attached(l)' <=> Attached(l))
    BY <1>1 DEF Live, Attached
  <2> QED  BY <1>1, <2>2, <2>3 DEF OneListener, Alone
<1>6. OneClick' /\ Unconverted'  BY <1>1 DEF OneClick, Unconverted
<1>7. EngineFollows'
  BY <1>1, <1>4 DEF EngineFollows, Running, EndUnderWay, Sent, Heard, Waiting, Live, Tk
<1>8. ButtonsFollow'
  <2>1. CASE isStreaming
    <3>1. e \notin {"streamNormal", "testNormal", "disconnect"}
      BY <1>2, <2>1 DEF ButtonsFollow
    <3>2. UNCHANGED <<streamButton, testButton>>  BY <1>3, <3>1 DEF RunCallback
    <3> QED  BY <1>2, <1>4, <2>1, <3>2 DEF ButtonsFollow
  <2>2. CASE ~isStreaming
    <3>1. streamButton' = StartButton \/ Has(after', {"streamNormal", "disconnect"})
      <4>1. \/ streamButton' = StartButton
            \/ e \notin {"streamNormal", "disconnect"} /\ streamButton' = streamButton
        BY <1>3 DEF RunCallback, Disconnected
      <4> QED  BY <1>2, <2>2, <4>1 DEF ButtonsFollow
    <3>2. testButton' = StartButton \/ Has(after', {"testNormal", "disconnect"})
      <4>1. \/ testButton' = StartButton
            \/ e \notin {"testNormal", "disconnect"} /\ testButton' = testButton
        BY <1>3 DEF RunCallback, Disconnected
      <4> QED  BY <1>2, <2>2, <4>1 DEF ButtonsFollow
    <3> QED  BY <1>2, <1>4, <2>2, <3>1, <3>2 DEF ButtonsFollow
  <2>3. isStreaming \in BOOLEAN  BY DEF PanelInv, Display
  <2> QED  BY <2>1, <2>2, <2>3
<1> QED  BY <1>5, <1>6, <1>7, <1>8

-----------------------------------------------------------------------------
\* A step of the listener (hft_frontend.py:201-241). It marks the panel disconnected
\* only between two clicks: otherwise the user is not careful any more.
LEMMA ListenerFollows ==
  ASSUME PanelInv, CarefulInv, NEW l \in Sockets, Listener(l), Careful'
  PROVE  CarefulInv'
<1> USE DEF PanelInv, CarefulInv
<1> DEFINE here == listener[l]
<1>1. Live(l) /\ Attached(l) /\ sock = l /\ l # 0 /\ ~chan[l].closed /\ ~Alone /\ Heard
  <2>1. Live(l)
    BY DEF Listener, LoopTest, Call, Receive, Handle, Eof, MarkDisconnected, ListenerEnds, Live
  <2> QED  BY <2>1, SocketNumbers DEF OneListener, Attached, Linked, Alone, Heard
<1>2. /\ here \in ListenerState(opened) /\ here.buffer \in Seq(Message)
      /\ chan[l] \in Channel /\ chan[l].msgs \in Seq(Message)
  <2>1. here \in ListenerState(opened) /\ chan[l] \in Channel  BY DEF Wiring
  <2> QED  BY <2>1 DEF ListenerState, Channel
<1>3. UNCHANGED <<selected, sock, reconnectOn, streamButton, testButton, thread, serving, stream>>
  BY DEF Listener, LoopTest, Call, Receive, Handle, Eof, MarkDisconnected, ListenerEnds, app,
         widgets, buttons, engine, chosen
<1>4. Unconverted' /\ (\A k \in Sockets : Live(k) <=> k = l) /\ (Tk.at = "idle" \/ isConnected)
  BY <1>1, <1>3 DEF Unconverted, OneListener, OneClick, Attached
\* What the new state of the listener must be.
<1>5. ASSUME NEW state, listener' = [listener EXCEPT ![l] = state],
             state.at \notin {"none", "gone"},
             \A g \in Sockets : chan'[g].open = chan[g].open,
             state.at \in {"call", "recv", "handle"} => state.on = l,
             state.at \in {"ending", "ended"} => ~chan[l].open,
             state.at = "ended" => ~isConnected',
             \/ isConnected' = isConnected /\ state.at # "ended"
             \/ Tk.at = "idle" /\ ~isConnected',
             ~isConnected' => ~chan[l].open,
             Has(after', {"disconnect"}) => Has(after, {"disconnect"})
      PROVE  OneListener' /\ OneClick'
  <2>1. listener'[l] = state /\ \A k \in Sockets : k # l => listener'[k] = listener[k]
    BY <1>5 DEF Wiring
  <2>2. \A k \in Sockets : Live(k)' <=> k = l  BY <1>4, <1>5, <2>1 DEF Live
  <2>3. Attached(l)'  BY <1>1, <1>3, <1>5, <2>1 DEF Attached
  <2>4. ~Alone'  BY <2>2 DEF Alone
  <2>5. OneListener'  BY <1>3, <1>5, <2>2, <2>3, <2>4 DEF OneListener, Tk
  <2>6. OneClick'
    <3>1. CASE Tk.at = "idle"  BY <1>3, <3>1 DEF OneClick, Tk
    <3>2. CASE Tk.at # "idle"
      <4>1. isConnected' = isConnected /\ state.at # "ended"  BY <1>5, <3>2
      <4>2. \A k \in Sockets : listener'[k].at # "ended"
        BY <2>1, <3>2, <4>1 DEF OneClick
      <4> QED  BY <1>1, <1>3, <1>4, <1>5, <4>1, <4>2 DEF OneClick, Tk
    <3> QED  BY <3>1, <3>2
  <2> QED  BY <2>5, <2>6
\* The flag stays, and no end of a stream is new.
<1>6. ASSUME isStreaming' = isStreaming, chan'[sock].cmds = chan[sock].cmds,
             EndUnderWay' => EndUnderWay
      PROVE  EngineFollows'
  BY <1>1, <1>3, <1>6 DEF EngineFollows, Running, Sent, Waiting, Tk
<1>7. CASE LoopTest(l) \/ Call(l) \/ Eof(l)
  <2>1. UNCHANGED <<app, widgets, after, chan>>  BY <1>7 DEF LoopTest, Call, Eof
  <2>2. PICK state :
          /\ listener' = [listener EXCEPT ![l] = state]
          /\ state.at \in {"call", "recv", "ending"}
          /\ state.at \in {"call", "recv"} => state.on = l
          /\ state.at = "ending" => ~chan[l].open
    <3>1. CASE LoopTest(l) /\ isConnected
      <4> DEFINE state == [here EXCEPT !.at = "call", !.on = sock]
      <4>1. listener' = [listener EXCEPT ![l] = state]  BY <3>1 DEF LoopTest
      <4>2. state.at = "call" /\ state.on = l  BY <1>1, <1>2 DEF ListenerState
      <4> HIDE DEF state
      <4> QED  BY <4>1, <4>2
    <3>2. CASE Eof(l) \/ (LoopTest(l) /\ ~isConnected)
      <4>1. ~chan[l].open  BY <1>1, <3>2 DEF Eof, AtEof, Attached
      <4> DEFINE state == [here EXCEPT !.at = "ending"]
      <4>2. listener' = [listener EXCEPT ![l] = state]  BY <3>2 DEF Eof, LoopTest, Wiring
      <4>3. state.at = "ending"  BY <1>2 DEF ListenerState
      <4> HIDE DEF state
      <4> QED  BY <4>1, <4>2, <4>3
    <3>3. CASE Call(l)
      <4>1. here.on = l  BY <1>1, <3>3 DEF Call, Attached
      <4> DEFINE state == [here EXCEPT !.on = l, !.at = "recv"]
      <4>2. listener' = [listener EXCEPT ![l].on = l, ![l].at = "recv"]
        BY <1>1, <3>3, <4>1 DEF Call
      <4>3. listener' = [listener EXCEPT ![l] = state]  BY <4>2 DEF Wiring
      <4>4. state.at = "recv" /\ state.on = l  BY <1>2 DEF ListenerState
      <4> HIDE DEF state
      <4> QED  BY <4>3, <4>4
    <3> QED  BY <1>7, <3>1, <3>2, <3>3
  <2>3. OneListener' /\ OneClick'
    <3>1. UNCHANGED <<isConnected, chan, after>>  BY <2>1 DEF app
    <3>2. ~isConnected' => ~chan[l].open  BY <1>1, <3>1 DEF Attached
    <3>3. state.at # "ended" /\ state.at \notin {"none", "gone"}
          /\ (state.at \in {"call", "recv", "handle"} => state.on = l)
          /\ (state.at \in {"ending", "ended"} => ~chan[l].open)
      BY <2>2
    <3> QED  BY <1>5, <2>2, <3>1, <3>2, <3>3
  <2>4. ButtonsFollow'  BY <2>1 DEF ButtonsFollow, app, widgets, buttons
  <2>5. EngineFollows'
    <3>1. listener'[l].at # "handle"  BY <2>2 DEF Wiring
    <3>2. EndUnderWay' => EndUnderWay  BY <1>1, <2>1, <3>1 DEF EndUnderWay, app
    <3> QED  BY <1>6, <2>1, <3>2 DEF app
  <2> QED  BY <1>4, <2>3, <2>4, <2>5
<1>8. CASE Receive(l)
  <2> DEFINE ms == chan[l].msgs
  <2>1. here.at = "recv" /\ here.on = l  BY <1>1, <1>8 DEF Receive, Attached
  <2>2. PICK n \in 1..Len(ms) :
          /\ listener' = [listener EXCEPT ![l].at = "handle", ![l].buffer = SubSeq(ms, 1, n)]
          /\ chan' = [chan EXCEPT ![l].msgs = SubSeq(@, n + 1, Len(@))]
    BY <1>8, <2>1 DEF Receive
  <2>3. UNCHANGED <<app, widgets, after>>  BY <1>8 DEF Receive
  <2> DEFINE got == SubSeq(ms, 1, n)
             left == SubSeq(ms, n + 1, Len(ms))
             state == [here EXCEPT !.at = "handle", !.buffer = got]
             rec == [chan[l] EXCEPT !.msgs = left]
  <2>4. Has(ms, EndNews) <=> Has(got, EndNews) \/ Has(left, EndNews)  BY <1>2, HasParts
  <2>5. listener' = [listener EXCEPT ![l] = state] /\ chan' = [chan EXCEPT ![l] = rec]
    BY <2>2 DEF Wiring
  <2> HIDE DEF got, left
  <2>6. state.at = "handle" /\ state.on = l /\ state.buffer = got
    BY <1>2, <2>1 DEF ListenerState
  <2>7. rec.msgs = left /\ rec.open = chan[l].open /\ rec.cmds = chan[l].cmds
    BY <1>2 DEF Channel
  <2> HIDE DEF state, rec
  <2>8. listener'[l] = state /\ chan'[l] = rec /\ \A g \in Sockets : g # l => chan'[g] = chan[g]
    BY <2>5 DEF Wiring
  <2>9. OneListener' /\ OneClick'
    <3>1. \A g \in Sockets : chan'[g].open = chan[g].open  BY <2>7, <2>8
    <3>2. isConnected' = isConnected /\ after' = after  BY <2>3 DEF app
    <3>3. ~isConnected' => ~chan[l].open  BY <1>1, <3>2 DEF Attached
    <3> QED  BY <1>5, <2>5, <2>6, <3>1, <3>2, <3>3
  <2>10. ButtonsFollow'  BY <2>3 DEF ButtonsFollow, app, widgets, buttons
  <2>11. EngineFollows'
    <3>1. EndUnderWay' => Has(got, EndNews) \/ Has(left, EndNews)
      BY <1>1, <1>3, <2>6, <2>7, <2>8 DEF EndUnderWay
    <3>2. EndUnderWay' => EndUnderWay  BY <1>1, <2>4, <3>1 DEF EndUnderWay
    <3>3. chan'[sock].cmds = chan[sock].cmds  BY <1>1, <2>7, <2>8
    <3> QED  BY <1>6, <2>3, <3>2, <3>3 DEF app
  <2> QED  BY <1>4, <2>9, <2>10, <2>11
<1>9. CASE Handle(l)
  <2> DEFINE m == Head(here.buffer)
             to == IF Len(here.buffer) = 1 THEN "loop" ELSE "handle"
             rest == Tail(here.buffer)
             state == [here EXCEPT !.buffer = rest, !.at = to]
             more == CASE EnablesModel(m) -> <<"modelNormal">>
                       [] EndsStream(m) -> <<"streamNormal", "testNormal">>
                       [] OTHER -> << >>
  <2>1. here.at = "handle" /\ here.buffer # << >> /\ here.on = l
    BY <1>1, <1>9 DEF Handle, Linked, Attached
  <2>2. /\ listener' = [listener EXCEPT ![l] = state]
        /\ isStreaming' = (isStreaming /\ ~EndsStream(m))
        /\ after' = after \o more
        /\ UNCHANGED <<isConnected, sock, widgets, chan, engine>>
    BY <1>9 DEF Handle, Wiring
  <2>3. Has(here.buffer, EndNews) <=> m \in EndNews \/ Has(rest, EndNews)
    BY <1>2, <2>1, HasParts
  <2>4. m \in EndNews <=> EndsStream(m)  BY DEF EndNews, EndsStream
  <2>5. more \in Seq(Callback) /\ \A s : Has(after', s) <=> Has(after, s) \/ Has(more, s)
    <3>1. {"modelNormal", "streamNormal", "testNormal"} \subseteq Callback  BY DEF Callback
    <3>2. /\ <<"modelNormal">> \in Seq(Callback) /\ << >> \in Seq(Callback)
          /\ <<"streamNormal", "testNormal">> \in Seq(Callback)
      BY <3>1
    <3>3. more \in {<<"modelNormal">>, <<"streamNormal", "testNormal">>, << >>}
      <4>1. CASE EnablesModel(m)
        <5>1. ~EndsStream(m)  BY <4>1 DEF EnablesModel, EndsStream
        <5> QED  BY <4>1, <5>1
      <4>2. CASE EndsStream(m)
        <5>1. ~EnablesModel(m)  BY <4>2 DEF EnablesModel, EndsStream
        <5> QED  BY <4>2, <5>1
      <4>3. CASE ~EnablesModel(m) /\ ~EndsStream(m)  BY <4>3
      <4> QED  BY <4>1, <4>2, <4>3
    <3> HIDE DEF more
    <3>4. more \in Seq(Callback)  BY <3>2, <3>3, Zenon
    <3>5. after \in Seq(Callback)  BY DEF Display
    <3> QED  BY <2>2, <3>4, <3>5, HasParts
  <2>6. /\ EndsStream(m) => more = <<"streamNormal", "testNormal">>
        /\ ~EndsStream(m) => more \in {<<"modelNormal">>, << >>}
    <3>1. ~(EndsStream(m) /\ EnablesModel(m))  BY DEF EndsStream, EnablesModel
    <3>2. EndsStream(m) => more = <<"streamNormal", "testNormal">>  BY <3>1
    <3>3. CASE ~EndsStream(m) /\ EnablesModel(m)  BY <3>3
    <3>4. CASE ~EndsStream(m) /\ ~EnablesModel(m)  BY <3>4
    <3> QED  BY <3>2, <3>3, <3>4
  <2> HIDE DEF more, rest, m
  <2>7. /\ EndsStream(m) => Has(more, {"streamNormal", "disconnect"})
                            /\ Has(more, {"testNormal", "disconnect"})
        /\ ~EndsStream(m) => ~Has(more, {"streamNormal", "testNormal", "disconnect"})
        /\ ~Has(more, {"reset"}) /\ ~Has(more, {"disconnect"})
    <3>1. CASE more = <<"streamNormal", "testNormal">>
      <4>1. EndsStream(m)  BY <2>6, <3>1
      <4>2. Len(more) = 2 /\ more[1] = "streamNormal" /\ more[2] = "testNormal"  BY <3>1
      <4>3. 1 \in 1..Len(more) /\ 2 \in 1..Len(more)  BY <4>2
      <4>4. \A k \in 1..Len(more) : k = 1 \/ k = 2  BY <4>2
      <4> QED  BY <4>1, <4>2, <4>3, <4>4 DEF Has
    <3>2. CASE more = <<"modelNormal">>
      <4>1. ~EndsStream(m)  BY <2>6, <3>2
      <4>2. \A k \in 1..Len(more) : more[k] = "modelNormal"  BY <3>2
      <4> QED  BY <4>1, <4>2 DEF Has
    <3>3. CASE more = << >>
      <4>1. ~EndsStream(m)  BY <2>6, <3>3
      <4> QED  BY <3>3, <4>1 DEF Has
    <3> QED  BY <2>6, <3>1, <3>2, <3>3
  <2>8. state.at = to /\ state.on = l /\ state.buffer = rest
    BY <1>2, <2>1 DEF ListenerState
  <2>9. to \in {"loop", "handle"}  OBVIOUS
  <2> HIDE DEF state, to
  <2>10. OneListener' /\ OneClick'
    <3>1. Has(after', {"disconnect"}) => Has(after, {"disconnect"})  BY <2>5, <2>7
    <3>2. isConnected' = isConnected /\ chan' = chan  BY <2>2
    <3>3. state.at \notin {"none", "gone", "ending", "ended"} /\ state.on = l
      BY <2>8, <2>9
    <3>4. ~isConnected' => ~chan[l].open  BY <1>1, <3>2 DEF Attached
    <3>5. listener' = [listener EXCEPT ![l] = state]  BY <2>2
    <3>6. \A g \in Sockets : chan'[g].open = chan[g].open  BY <3>2
    <3> QED  BY <1>5, <3>1, <3>2, <3>3, <3>4, <3>5, <3>6
  <2>11. ButtonsFollow'
    <3>1. UNCHANGED <<streamButton, testButton>>  BY <1>3
    <3>2. ~Has(after', {"reset"})  BY <2>5, <2>7 DEF ButtonsFollow
    <3>3. CASE EndsStream(m)
      <4>1. ~isStreaming'  BY <2>2, <3>3
      <4> QED  BY <2>5, <2>7, <3>2, <3>3, <4>1 DEF ButtonsFollow
    <3>4. CASE ~EndsStream(m) /\ isStreaming
      <4>1. isStreaming'  BY <2>2, <3>4
      <4> QED  BY <2>5, <2>7, <3>1, <3>2, <3>4, <4>1 DEF ButtonsFollow
    <3>5. CASE ~EndsStream(m) /\ ~isStreaming
      <4>1. ~isStreaming'  BY <2>2, <3>5
      <4> QED  BY <2>5, <3>1, <3>2, <3>5, <4>1 DEF ButtonsFollow
    <3>6. isStreaming \in BOOLEAN  BY DEF Display
    <3> QED  BY <3>3, <3>4, <3>5, <3>6
  <2>12. EngineFollows'
    <3>1. EndUnderWay' => EndUnderWay
      <4>1. listener'[l] = state  BY <2>2 DEF Wiring
      <4> QED  BY <1>1, <2>1, <2>2, <2>3, <2>8, <4>1 DEF EndUnderWay
    <3>2. CASE EndsStream(m)
      <4>1. EndUnderWay  BY <1>1, <2>1, <2>3, <2>4, <3>2 DEF EndUnderWay
      <4>2. ~Sent(StartCommands) /\ ~Running /\ ~Waiting(StartCommands)
        BY <1>1, <4>1 DEF EngineFollows
      <4> QED
        BY <1>1, <1>3, <2>2, <3>1, <4>2 DEF EngineFollows, Running, Sent, Waiting, Tk
    <3>3. CASE ~EndsStream(m)
      <4>1. isStreaming' = isStreaming
        <5>1. isStreaming \in BOOLEAN  BY DEF Display
        <5> QED  BY <2>2, <3>3, <5>1
      <4> QED  BY <1>6, <2>2, <3>1, <4>1
    <3> QED  BY <3>2, <3>3
  <2> QED  BY <1>4, <2>10, <2>11, <2>12
<1>10. CASE MarkDisconnected(l)
  <2> DEFINE state == [here EXCEPT !.at = "ended"]
  <2>1. /\ here.at = "ending" /\ ~chan[l].open
        /\ listener' = [listener EXCEPT ![l] = state] /\ isConnected' = FALSE
        /\ crossed' = (crossed \/ ~TkIdle)
        /\ UNCHANGED <<isStreaming, sock, after, chan>>
    BY <1>1, <1>10 DEF MarkDisconnected, Attached
  <2>2. state.at = "ended"  BY <1>2 DEF ListenerState
  <2> HIDE DEF state
  <2>3. Tk.at = "idle"  BY <2>1 DEF Careful, TkIdle, Tk
  <2>4. OneListener' /\ OneClick'  BY <1>5, <2>1, <2>2, <2>3
  <2>5. ButtonsFollow'  BY <1>3, <2>1 DEF ButtonsFollow
  <2>6. EngineFollows'
    <3>1. listener'[l].at # "handle"  BY <2>1, <2>2 DEF Wiring
    <3>2. EndUnderWay' => EndUnderWay  BY <1>1, <2>1, <3>1 DEF EndUnderWay
    <3> QED  BY <1>6, <2>1, <3>2
  <2> QED  BY <1>4, <2>4, <2>5, <2>6
<1>11. CASE ListenerEnds(l)
  <2> DEFINE state == [here EXCEPT !.at = "gone"]
  <2>1. /\ here.at = "ended" /\ ~chan[l].open /\ ~isConnected /\ Tk.at = "idle"
        /\ listener' = [listener EXCEPT ![l] = state] /\ isStreaming' = FALSE
        /\ after' = Append(after, "disconnect")
        /\ UNCHANGED <<isConnected, sock, chan>>
    BY <1>1, <1>11 DEF ListenerEnds, Attached, OneClick
  <2>2. state.at = "gone"  BY <1>2 DEF ListenerState
  <2> HIDE DEF state
  <2>3. listener'[l] = state /\ \A k \in Sockets : k # l => listener'[k] = listener[k]
    BY <2>1 DEF Wiring
  <2>4. \A s : Has(after', s) <=> Has(after, s) \/ "disconnect" \in s
    <3>1. "disconnect" \in Callback /\ after \in Seq(Callback)  BY DEF Callback, Display
    <3> QED  BY <2>1, <3>1, HasParts
  <2>5. OneListener'
    <3>1. \A k \in Sockets : ~Live(k)'  BY <1>4, <2>2, <2>3 DEF Live
    <3> QED  BY <2>1, <3>1 DEF OneListener
  <2>6. OneClick'  BY <1>3, <2>1 DEF OneClick, Tk
  <2>7. ButtonsFollow'
    <3>1. ~Has(after', {"reset"})  BY <2>4 DEF ButtonsFollow
    <3> QED  BY <2>1, <2>4, <3>1 DEF ButtonsFollow
  <2>8. EngineFollows'
    <3>1. chan[sock].cmds = << >> /\ serving # sock  BY <1>1, <2>1 DEF Linked
    <3>2. ~Has(<< >>, StartCommands)  BY DEF Has
    <3>3. ~Waiting(StartCommands)'  BY <1>3, <2>1 DEF Waiting, Tk
    <3> QED  BY <1>1, <1>3, <2>1, <3>1, <3>2, <3>3 DEF EngineFollows, Running, Sent
  <2> QED  BY <1>4, <2>5, <2>6, <2>7, <2>8
<1> QED  BY <1>7, <1>8, <1>9, <1>10, <1>11 DEF Listener

-----------------------------------------------------------------------------
\* A step of the engine (hft_engine_linux.cpp:353-600, as the panel meets it).
LEMMA EngineStepFollows == ASSUME PanelInv, CarefulInv, Engine PROVE CarefulInv'
<1> USE DEF PanelInv, CarefulInv
<1>1. UNCHANGED panel
  BY DEF Engine, EngineWorks, EngineRow, EngineDies, EngineStarts, EngineAccept,
         EngineCommand, EngineFinish, EngineEnded, EngineHangup
<1>2. UNCHANGED <<selected, isConnected, isStreaming, sock, reconnectOn, streamButton, testButton,
                  after, listener, thread>>
  BY <1>1 DEF panel, app, widgets, buttons, chosen
<1>3. ButtonsFollow' /\ Unconverted'  BY <1>2 DEF ButtonsFollow, Unconverted
<1>4. sock # 0 => sock \in Sockets  BY SocketNumbers DEF Wiring
<1>5. \A g \in Sockets : chan[g].msgs \in Seq(Message) /\ chan[g].cmds \in Seq(Command)
  BY DEF Wiring, Channel
<1>6. \A s : (Waiting(s)' <=> Waiting(s)) /\ ~Has(<< >>, s)  BY <1>2 DEF Waiting, Has
\* The panel does not mind what the engine says, nor that it closes.
<1>7. ASSUME \A g \in Sockets : chan'[g].open => chan[g].open
      PROVE  OneListener' /\ OneClick' /\ (sock # 0 => (Heard' => Heard))
  <2>1. \A l \in Sockets : Live(l)' <=> Live(l)  BY <1>2 DEF Live
  <2>2. \A l \in Sockets : Attached(l) => Attached(l)'  BY <1>2, <1>7 DEF Attached
  <2>3. OneListener'  BY <1>2, <2>1, <2>2 DEF OneListener, Alone, Tk
  <2>4. OneClick'  BY <1>2, <1>4, <1>7, <2>1 DEF OneClick, Alone, Tk
  <2>5. sock # 0 => (Heard' => Heard)  BY <1>2, <1>4, <1>7, <2>1 DEF Heard, Tk
  <2> QED  BY <2>3, <2>4, <2>5
\* No stream and no end of one is new, nor is a command.
<1>8. ASSUME Running' => Running, \A g \in Sockets : chan'[g].open => chan[g].open,
             sock # 0 =>
               /\ chan'[sock].cmds = chan[sock].cmds \/ (chan'[sock].cmds = << >> /\ ~Running')
               /\ chan'[sock].msgs \in {chan[sock].msgs, << >>}
      PROVE  CarefulInv'
  <2>1. sock # 0 => (EndUnderWay' => EndUnderWay)  BY <1>2, <1>6, <1>8 DEF EndUnderWay
  <2>2. sock # 0 => (Heard' => Heard)  BY <1>7, <1>8
  <2>3. EngineFollows'
    <3> SUFFICES ASSUME sock # 0 PROVE EngineFollows'  BY <1>2, <1>6 DEF EngineFollows
    <3>1. CASE chan'[sock].cmds = chan[sock].cmds
      <4>1. \A s : Sent(s)' <=> Sent(s)  BY <1>2, <3>1 DEF Sent
      <4> QED  BY <1>2, <1>6, <1>8, <2>1, <2>2, <3>1, <4>1 DEF EngineFollows, Tk
    <3>2. CASE chan'[sock].cmds = << >> /\ ~Running'
      <4>1. \A s : ~Sent(s)'  BY <1>2, <1>6, <3>2 DEF Sent
      <4> QED  BY <1>2, <1>6, <2>1, <2>2, <3>2, <4>1 DEF EngineFollows, Tk
    <3> QED  BY <1>8, <3>1, <3>2
  <2> QED  BY <1>3, <1>7, <1>8, <2>3
<1>9. CASE Dies
  <2>1. \A g \in Sockets : /\ ~chan'[g].open /\ chan'[g].cmds = << >>
                           /\ chan'[g].msgs \in {chan[g].msgs, << >>}
    BY <1>9, DeadFields
  <2>2. ~Running' \/ sock = 0  BY <1>2, <1>9 DEF Dies, Running
  <2>3. Running' => Running  BY <1>2, <1>9 DEF Dies, Running
  <2> QED  BY <1>4, <1>8, <2>1, <2>2, <2>3
<1>10. CASE EngineAccept \/ EngineEnded \/ EngineStarts
  <2>1. UNCHANGED chan /\ (Running' => Running)
    BY <1>2, <1>10 DEF EngineAccept, EngineEnded, EngineStarts, Running, Served
  <2> QED  BY <1>8, <2>1
<1>11. CASE EngineHangup
  <2>1. /\ \A g \in Sockets :
             /\ chan'[g].cmds = chan[g].cmds
             /\ g # serving => chan'[g].open = chan[g].open /\ chan'[g].msgs = chan[g].msgs
        /\ serving # 0 /\ ~chan'[serving].open /\ chan'[serving].msgs = << >>
    BY <1>11, HangupFields
  <2>2. Running' => Running  BY <1>2, <1>11 DEF EngineHangup, WorkerJoined, Running
  <2>3. \A g \in Sockets : chan'[g].open => chan[g].open  BY <2>1
  <2> QED  BY <1>4, <1>8, <2>1, <2>2, <2>3
<1>12. CASE EngineRow \/ EngineFinish
  <2>1. /\ serving' = serving /\ serving # 0
        /\ \/ EngineRow /\ stream' = stream
           \/ EngineFinish /\ stream = "file" /\ stream' = "finishing"
    BY <1>12 DEF EngineRow, EngineFinish, Served
  <2>2. PICK ms \in {<<"ROW">>, <<"TIMEOUT">>, <<"STREAM_FINISHED">>, <<"ERROR">>} :
          chan' = Told(ms) /\ (EngineRow => ms \in {<<"ROW">>, <<"TIMEOUT">>})
    <3>1. CASE EngineRow  BY <3>1 DEF EngineRow
    <3>2. CASE ~EngineRow  BY <1>12, <3>2 DEF EngineFinish
    <3> QED  BY <3>1, <3>2
  <2>3. ms \in Seq(Message)
    <3>1. {"ROW", "TIMEOUT", "STREAM_FINISHED", "ERROR"} \subseteq Message  BY DEF Message
    <3>2. /\ <<"ROW">> \in Seq(Message) /\ <<"TIMEOUT">> \in Seq(Message)
          /\ <<"STREAM_FINISHED">> \in Seq(Message) /\ <<"ERROR">> \in Seq(Message)
      BY <3>1
    <3> QED  BY <2>2, <3>2, Zenon
  <2>4. EngineRow => ~Has(ms, EndNews)
    <3>1. ~Has(<<"ROW">>, EndNews) /\ ~Has(<<"TIMEOUT">>, EndNews)  BY DEF Has, EndNews
    <3> QED  BY <2>2, <3>1
  <2>5. /\ \A g \in Sockets : /\ chan'[g].open = chan[g].open /\ chan'[g].cmds = chan[g].cmds
                              /\ g # serving => chan'[g].msgs = chan[g].msgs
        /\ chan'[serving].msgs = chan[serving].msgs \o ms
    BY <2>1, <2>2, <2>3, ToldFields
  <2>6. Running' => Running  BY <1>2, <2>1 DEF Running
  <2>7. CASE serving # sock  BY <1>4, <1>8, <2>5, <2>6, <2>7
  <2>8. CASE serving = sock
    <3>1. sock # 0 /\ sock \in Sockets /\ chan'[sock].cmds = chan[sock].cmds
          /\ chan'[sock].msgs = chan[sock].msgs \o ms
      BY <1>4, <2>1, <2>5, <2>8
    <3>2. \A s : Sent(s)' <=> Sent(s)  BY <1>2, <3>1 DEF Sent
    <3>3. Heard' => Heard  BY <1>7, <2>5, <3>1
    <3>4. EndUnderWay' /\ Heard' => ~Running' /\ ~Sent(StartCommands) /\ ~Waiting(StartCommands)
      <4>1. CASE EngineFinish /\ stream = "file" /\ stream' = "finishing"
        <5>1. Running /\ ~Running'  BY <2>8, <4>1 DEF Running
        <5> QED  BY <3>1, <5>1 DEF EngineFollows
      <4>2. CASE EngineRow
        <5>1. Has(chan[sock].msgs \o ms, EndNews)
                <=> Has(chan[sock].msgs, EndNews) \/ Has(ms, EndNews)
          BY <1>5, <2>3, <3>1, HasParts
        <5>2. EndUnderWay' => EndUnderWay  BY <1>2, <2>4, <3>1, <4>2, <5>1 DEF EndUnderWay
        <5> QED  BY <2>6, <3>1, <3>3, <5>2 DEF EngineFollows
      <4> QED  BY <2>1, <4>1, <4>2
    <3>5. EngineFollows'
      BY <1>2, <1>6, <2>6, <3>1, <3>2, <3>4 DEF EngineFollows, Tk
    <3> QED  BY <1>3, <1>7, <2>5, <3>5
  <2> QED  BY <2>7, <2>8
<1>13. CASE EngineCommand /\ ~Dies
  <2> DEFINE c == Head(chan[serving].cmds)
  <2>1. serving # 0 /\ serving' = serving /\ chan[serving].cmds # << >>
    BY <1>13 DEF EngineCommand
  <2>2. PICK ms \in {<<"MODEL_OK">>, <<"TIMEOUT">>, <<"ERROR">>, <<"STOPPED">>, << >>} :
          /\ chan' = Answered(ms)
          /\ \/ c = "MODEL" /\ stream' = stream
                /\ ms \in {<<"MODEL_OK">>, <<"TIMEOUT">>, <<"ERROR">>}
             \/ c = "STOP" /\ stream' \notin {"file", "test"}
             \/ c \in StartCommands /\ ms = << >>
    <3>1. CASE c = "MODEL"  BY <1>13, <3>1 DEF EngineCommand
    <3>2. CASE c = "STOP"
      <4>1. CASE stream \in Streaming  BY <1>13, <3>2, <4>1 DEF EngineCommand
      <4>2. CASE stream \notin Streaming  BY <1>13, <3>2, <4>2 DEF EngineCommand, Streaming
      <4> QED  BY <4>1, <4>2
    <3>3. CASE c \in StartCommands
      BY <1>13, <3>3 DEF EngineCommand, StartCommands
    <3> QED  BY <1>13, <3>1, <3>2, <3>3 DEF EngineCommand, StartCommands
  <2>3. ms \in Seq(Message)
    <3>1. {"MODEL_OK", "TIMEOUT", "ERROR", "STOPPED"} \subseteq Message  BY DEF Message
    <3>2. /\ <<"MODEL_OK">> \in Seq(Message) /\ <<"TIMEOUT">> \in Seq(Message)
          /\ <<"ERROR">> \in Seq(Message) /\ <<"STOPPED">> \in Seq(Message)
          /\ << >> \in Seq(Message)
      BY <3>1
    <3> QED  BY <2>2, <3>2, Zenon
  <2>4. c # "STOP" => ~Has(ms, EndNews)
    <3>1. /\ ~Has(<<"MODEL_OK">>, EndNews) /\ ~Has(<<"TIMEOUT">>, EndNews)
          /\ ~Has(<<"ERROR">>, EndNews) /\ ~Has(<< >>, EndNews)
      BY DEF Has, EndNews
    <3> QED  BY <2>2, <3>1
  <2>5. /\ \A g \in Sockets : /\ chan'[g].open = chan[g].open
                              /\ g # serving => /\ chan'[g].msgs = chan[g].msgs
                                                /\ chan'[g].cmds = chan[g].cmds
        /\ chan'[serving].msgs = chan[serving].msgs \o ms
        /\ chan'[serving].cmds = Tail(chan[serving].cmds)
    BY <2>1, <2>2, <2>3, AnsweredFields
  <2>6. CASE serving # sock
    <3>1. Running' => Running  BY <1>2, <2>1, <2>6 DEF Running
    <3> QED  BY <1>4, <1>8, <2>5, <2>6, <3>1
  <2>7. CASE serving = sock
    <3>1. sock # 0 /\ sock \in Sockets /\ Heard
      BY <1>4, <2>1, <2>7 DEF Linked, Heard
    <3>2. chan[sock].cmds = <<c>> /\ chan'[sock].cmds = << >> /\ Tk.at = "idle"
      <4>1. PICK d \in Command : Tk.at = "idle" /\ chan[sock].cmds = <<d>>
        BY <2>1, <2>7, <3>1 DEF EngineFollows
      <4>2. Head(<<d>>) = d /\ Tail(<<d>>) = << >>  OBVIOUS
      <4> QED  BY <2>5, <2>7, <4>1, <4>2
    <3>3. \A s : ~Waiting(s)  BY <3>2 DEF Waiting, Tk
    <3>4. \A s : ~Sent(s)' /\ (Sent(s) <=> c \in s)
      <4>1. \A s : Has(<<c>>, s) <=> c \in s  BY DEF Has
      <4> QED  BY <1>2, <1>6, <3>2, <4>1 DEF Sent
    <3>5. EndUnderWay' <=> EndUnderWay \/ Has(ms, EndNews)
      <4>1. Has(chan[sock].msgs \o ms, EndNews)
              <=> Has(chan[sock].msgs, EndNews) \/ Has(ms, EndNews)
        BY <1>5, <2>3, <3>1, HasParts
      <4> QED  BY <1>2, <2>5, <2>7, <4>1 DEF EndUnderWay
    <3>6. (Running' => isStreaming) /\ (EndUnderWay' => ~Running')
      <4>1. CASE c = "MODEL"
        <5>1. "MODEL" \notin {"STOP"} /\ c # "STOP" /\ stream' = stream
          BY <2>2, <4>1 DEF StartCommands
        <5>2. Running' <=> Running  BY <1>2, <2>1, <5>1 DEF Running
        <5>3. Running => isStreaming  BY <3>1, <3>3, <3>4, <4>1, <5>1 DEF EngineFollows
        <5>4. EndUnderWay => ~Running  BY <3>1 DEF EngineFollows
        <5> QED  BY <2>4, <3>5, <5>1, <5>2, <5>3, <5>4
      <4>2. CASE c = "STOP"
        <5>1. ~Running'  BY <2>2, <4>2 DEF StartCommands, Running
        <5> QED  BY <5>1
      <4>3. CASE c \in StartCommands
        <5>1. isStreaming /\ ~EndUnderWay  BY <3>1, <3>4, <4>3 DEF EngineFollows
        <5>2. c # "STOP"  BY <4>3 DEF StartCommands
        <5> QED  BY <2>4, <3>5, <5>1, <5>2
      <4> QED  BY <2>2, <4>1, <4>2, <4>3
    <3>7. EngineFollows'
      BY <1>2, <1>6, <3>2, <3>3, <3>4, <3>6 DEF EngineFollows
    <3> QED  BY <1>3, <1>7, <2>5, <3>7
  <2> QED  BY <2>6, <2>7
<1> QED
  BY <1>9, <1>10, <1>11, <1>12, <1>13
  DEF Engine, EngineWorks, EngineDies

-----------------------------------------------------------------------------
\* What makes a user careful is lost or kept; only a new panel gives it back.
LEMMA StaysCareful ==
  ASSUME PanelInv, [Next]_vars, ~Restart, Careful'
  PROVE  Careful
<1>1. profile' = profile
  <2>1. CASE Next  BY <2>1, SameUser
  <2>2. CASE UNCHANGED vars  BY <2>2 DEF vars, chosen
  <2> QED  BY <2>1, <2>2
<1>2. crossed => crossed'
  BY DEF Next, Buttons, SelectFile, SelectModel, Drop, FileSelected, ModelSelected, StartStream,
         StopStream, StartTest, StopTest, SendModel, Reconnect, RunCallback, Conversion,
         BeginWriting, Converted, ConversionFails, Engine, EngineWorks, EngineAccept,
         EngineCommand, EngineFinish, EngineEnded, EngineHangup, EngineRow, EngineDies,
         EngineStarts, panel, Listener, LoopTest, Call, Receive, Handle, Eof,
         MarkDisconnected, ListenerEnds, user, vars, Sending, Check, Connect, Dial, Flag,
         Listen, Refused, Test, Send, Broken
<1> QED  BY <1>1, <1>2 DEF Careful

\* The invariant is inductive, from any state in which the user is careful; a new
\* panel makes any patient user careful again.
LEMMA CarefulStep ==
  ASSUME PanelInv, Careful => CarefulInv, [Next]_vars
  PROVE  (Careful => CarefulInv)'
<1> SUFFICES ASSUME Careful' PROVE CarefulInv'  OBVIOUS
<1>1. CASE Restart  BY <1>1, RestartFollows
<1>2. CASE ~Restart
  <2>1. Careful /\ CarefulInv  BY <1>2, StaysCareful
  <2>2. CASE StartStream \/ StopStream \/ StartTest \/ StopTest \/ SendModel \/ Reconnect
    <3>1. Click
      BY <2>2 DEF StartStream, StopStream, StartTest, StopTest, SendModel, Reconnect
    <3>2. Quiet  BY <2>1, <3>1 DEF Click, Careful
    <3> QED  BY <2>1, <2>2, <3>2, ClickFollows
  <2>3. CASE FileSelected \/ ModelSelected \/ UNCHANGED vars  BY <2>1, <2>3, SelectionFollows
  <2>4. CASE RunCallback  BY <2>1, <2>4, CallbackFollows
  <2>5. CASE \E t \in Threads : Sending(t)  BY <2>1, <2>5, SendingFollows
  <2>6. ~\E t \in Converters : Conversion(t)
    BY <2>1 DEF CarefulInv, Unconverted, Conversion, BeginWriting, Converted, ConversionFails
  <2>7. CASE Engine  BY <2>1, <2>7, EngineStepFollows
  <2>8. CASE \E l \in Sockets : Listener(l)  BY <2>1, <2>8, ListenerFollows
  <2> QED
    BY <1>2, <2>2, <2>3, <2>4, <2>5, <2>6, <2>7, <2>8
    DEF Next, Buttons, SelectFile, SelectModel, Drop
<1> QED  BY <1>1, <1>2

\* The panel begins without a connection, and connects (hft_frontend.py:46-56).
LEMMA CarefulInit == Init => CarefulInv
<1> SUFFICES ASSUME Init PROVE CarefulInv  OBVIOUS
<1>1. /\ selected = "none" /\ ~isConnected /\ ~isStreaming /\ sock = 0
      /\ streamButton = StartButton /\ testButton = StartButton /\ after = << >>
      /\ thread = [t \in Threads |-> IF t = "tk" THEN Connecting ELSE Idle]
      /\ \A l \in Sockets : listener[l].at = "none"
  BY DEF Init, NoListener
<1>2. /\ Tk.at = "connect" /\ Tk.cmd = "none"
      /\ \A t \in Converters : thread[t].at = "idle"
  <2>1. Connecting.at = "connect" /\ Connecting.cmd = "none" /\ Idle.at = "idle"
    BY DEF Connecting, Idle
  <2> QED  BY <1>1, <2>1, PanelAssumption DEF Tk, Threads
<1>3. \A s : ~Has(after, s)  BY <1>1 DEF Has
<1>4. Alone /\ \A l \in Sockets : ~Live(l)  BY <1>1 DEF Alone, Live
<1>5. Unconverted /\ OneListener
  BY <1>1, <1>2, <1>3, <1>4 DEF Unconverted, Convertible, OneListener
<1>6. OneClick  BY <1>1, <1>2, <1>3, <1>4 DEF OneClick
<1>7. ButtonsFollow  BY <1>1, <1>3 DEF ButtonsFollow
<1>8. EngineFollows
  <2>1. ~Waiting(StartCommands)  BY <1>2 DEF Waiting, Tk, StartCommands
  <2> QED  BY <1>1, <2>1 DEF EngineFollows
<1> QED  BY <1>5, <1>6, <1>7, <1>8 DEF CarefulInv

\* A careful user's panel keeps one listener and one command under way, its buttons follow
\* the flag and the engine follows it too, for any number of clicks, connections and
\* engine processes.
THEOREM CarefulInvariant == Spec => [](Careful => CarefulInv)
<1>1. Init => (Careful => CarefulInv)  BY CarefulInit
<1>2. PanelInv /\ (Careful => CarefulInv) /\ [Next]_vars => (Careful => CarefulInv)'
  BY CarefulStep
<1> QED  BY <1>1, <1>2, PanelInvariant, PTL DEF Spec

\* Once everything has been said, a careful user's panel that shows no stream has an
\* engine that runs none, whatever ended it or died before (hft_frontend.py:218-241,
\* 429-505).
THEOREM IdleIsTrue == Spec => []CarefulIdleIsIdle
<1>1. PanelInv /\ (Careful => CarefulInv) => CarefulIdleIsIdle
  <2> SUFFICES ASSUME PanelInv, CarefulInv, AtRest, ~isStreaming
               PROVE  stream \notin {"file", "test"}
    BY DEF CarefulIdleIsIdle, IdlePanelIdleEngine
  <2>1. serving = sock /\ Quiet /\ isConnected  BY DEF AtRest
  <2>2. /\ \A g \in Sockets : chan[g].cmds = << >>
        /\ Tk.at = "idle"
    BY <2>1, QuietMeans DEF CarefulInv
  <2>3. ~Alone  BY <2>1, <2>2 DEF CarefulInv, OneListener
  <2>4. sock \in Sockets /\ sock # 0
    BY <2>3, SocketNumbers DEF Alone, CarefulInv, OneListener, Attached
  <2>5. ~Sent({"STOP"}) /\ ~Waiting({"STOP"})
    BY <2>2, <2>4 DEF Sent, Has, Waiting, Tk
  <2> QED  BY <2>1, <2>4, <2>5 DEF CarefulInv, EngineFollows, Running
<1> QED  BY <1>1, PanelInvariant, CarefulInvariant, PTL

\* For the same user one of the two buttons offers Stop exactly if a click on it will
\* stop (hft_frontend.py:222-241, 434-505).
THEOREM TextIsTrue == Spec => []TextMatchesAction
<1>1. PanelInv /\ (Careful => CarefulInv) => TextMatchesAction
  <2> SUFFICES ASSUME PanelInv, CarefulInv, AtRest
               PROVE  isStreaming <=> "stop" \in {streamButton.text, testButton.text}
    BY DEF TextMatchesAction
  <2>1. \A s : ~Has(after, s)  BY QuietMeans DEF AtRest, CarefulInv, Has
  <2>2. isStreaming => streamButton = StopButton \/ testButton = StopButton
    BY DEF CarefulInv, ButtonsFollow
  <2>3. ~isStreaming => streamButton = StartButton /\ testButton = StartButton
    BY <2>1 DEF CarefulInv, ButtonsFollow
  <2> QED  BY <2>2, <2>3 DEF StartButton, StopButton
<1> QED  BY <1>1, PanelInvariant, CarefulInvariant, PTL
=============================================================================
