---------------------------- MODULE HostEngine ----------------------------
(***************************************************************************)
(* The Linux host engine, pc_test/linux/hft_engine_linux.cpp: the command   *)
(* thread (main and process_command), the streaming worker (stream_task     *)
(* and test_stream_task), the one UDP socket both of them use, the link to  *)
(* the board, the frontend's end of the TCP connection, and the decision    *)
(* log on disk, which outlives the process.                                 *)
(*                                                                          *)
(* Atomicity.  One action is the code between two points where the other    *)
(* thread, the board or the frontend can make a difference: a sendto, a     *)
(* recvfrom, a send on the TCP socket, a write to the log, a read or write  *)
(* of is_streaming, a join.  A test of is_streaming followed by its reset   *)
(* is one step: all that the worker can do to the flag in between is to     *)
(* reset it as well.  A datagram that recvfrom returned is private to its   *)
(* thread, so recvfrom and the status message it leads to are one step.     *)
(* The pacing sleep changes nothing and is a stuttering step.               *)
(***************************************************************************)
EXTENDS Integers, Sequences

CONSTANTS
  FileLines,      \* the stream file: a sequence over {"row", "blank"}
  Commands,       \* the commands the frontend of the instance sends
  MaxRequests,    \* bound on the inference requests sent
  MaxCommands,    \* bound on the commands the frontend sends
  MaxQueued,      \* bound on the commands sent and not yet read
  MaxConnections, \* bound on the connections accepted
  MaxRuns         \* bound on the starts of the engine process

\* What the frontend can send.  The argument stands for the file's content:
\* a model file that holds no float, that has the board's size or another one;
\* a stream file that exists or not.  "OTHER" is a line that process_command has
\* no branch for, or a STREAM without the colon before its delay.
Command ==
       [op : {"MODEL"}, arg : {"empty", "fits", "short"}]
  \cup [op : {"STREAM"}, arg : {"file", "missing"}]
  \cup [op : {"TEST_MODEL", "TEST_STREAM", "STOP", "OTHER"}, arg : {"none"}]

ASSUME ConstantsAssumption ==
  /\ FileLines \in Seq({"row", "blank"})
  /\ Commands \subseteq Command
  /\ {MaxRequests, MaxCommands, MaxQueued, MaxConnections, MaxRuns} \subseteq Nat

VARIABLES
  alive,       \* the process: "running", or how it ended
  run,         \* which start of the process this is (a new one has new sockets)
  isStreaming, \* atomic<bool> is_streaming
  joinable,    \* stream_thread.joinable()
  cpc, cmd,    \* command thread: where it is, the command it is executing
  wpc, job,    \* worker: where it is, the stream it runs
  line,        \* worker: the next line of the file
  req,         \* worker: the request it sent last
  got,         \* worker: the reply recvfrom returned for it
  nreq, nmodel,     \* inference requests and model packets sent so far
  toBoard, toHost,  \* datagrams in flight; toHost includes the socket's queue
  boardModel,       \* the model packet the board's network comes from; 0 at boot
  peer,        \* the frontend's end of the connection
  conn,        \* the number of the connection
  tcpIn,       \* commands the frontend sent that the engine has not read
  toClient,    \* status messages sent on this connection, in order
  ncmd,        \* commands sent so far
  log,         \* the rows of the log file
  okModel,     \* history: the last model packet if MODEL_OK was sent for it, else 0
  unanswered   \* history: a model packet was once given up on

process  == <<alive, run>>
flags    == <<isStreaming, joinable>>
commander == <<cpc, cmd>>
worker   == <<wpc, job, line, req, got>>
counters == <<nreq, nmodel, ncmd>>
link     == <<toBoard, toHost>>
tcp      == <<peer, conn, tcpIn, toClient>>
history  == <<okModel, unanswered>>
vars == <<process, flags, commander, worker, counters, link, boardModel, tcp,
          log, history>>

-----------------------------------------------------------------------------
(* Commands, stream jobs, datagrams, status messages and log rows.          *)

NoCommand == [op |-> "none", arg |-> "none"]

\* A stream: its number, what it reads, and the connection that asked for it.
Job == [n : Nat, source : {"none", "file", "missing", "test"}, conn : Nat]
NoJob == [n |-> 0, source |-> "none", conn |-> 0]

\* A datagram to the board: 'M' is 0x01, 'D' is 0x02.  id numbers the packets
\* of a kind, which the real packets do not carry.  run stands for the source
\* port, which a new process does not share with the old one.
Request == [kind : {"M", "D"}, id : Nat, fits : BOOLEAN, run : Nat]

\* A datagram to the host: the one-byte 0xFF, or a decision.  (The engine would
\* show the text after a 0xDD; the firmware sends none.)
Reply == [kind : {"ack", "decision"}, id : Nat]
NoReply == [kind |-> "timeout", id |-> 0]

StatusKind ==
  {"MODEL_OK", "TIMEOUT", "ERROR_EMPTY_MODEL", "PING_CHECKING", "PING_OK",
   "WARNING_PING_FAILED", "STOPPED", "ERROR_FILE", "DECISION", "UNKNOWN",
   "STREAM_FINISHED"}

\* A status message; from and job are history: the thread that sent it, the
\* stream it is about, and the connection that asked for that stream.
Status == [kind : StatusKind, from : {"command", "worker"}, job : Job]

\* A row of the log; req and of are history: the request the worker was
\* waiting on when it wrote the row, and the one the decision answers.
Row == [kind : {"header", "decision", "unknown", "timeout"},
        req : Nat, of : Nat, run : Nat]
Header == [kind |-> "header", req |-> 0, of |-> 0, run |-> 0]

-----------------------------------------------------------------------------
Running == alive = "running"

\* send_tcp_message.  The first send after the frontend closed is accepted by
\* the kernel and answered with a reset; the next one raises SIGPIPE, which
\* nothing ignores.  With tcp_client_sock = -1 nothing is sent.
Send(kind, from) ==
  LET s == [kind |-> kind, from |-> from, job |-> job]
  IN  \/ /\ peer = "none"
         /\ UNCHANGED <<alive, peer, toClient>>
      \/ /\ peer = "open"
         /\ toClient' = Append(toClient, s)
         /\ UNCHANGED <<alive, peer>>
      \/ /\ peer = "closed"
         /\ peer' = "broken"
         /\ UNCHANGED <<alive, toClient>>
      \/ /\ peer = "broken"
         /\ alive' = "sigpipe"
         /\ UNCHANGED <<peer, toClient>>

\* After Send, what it left alone of the TCP connection and the process.
AfterSend == UNCHANGED <<run, conn, tcpIn>>

\* Fault: detach() for join().
Detached == joinable' = FALSE /\ UNCHANGED wpc

\* stream_thread.join(): returns when the worker function has.
Joined ==
  /\ wpc = "exited"
  /\ wpc' = "none"
  /\ joinable' = FALSE

\* Fault: recvfrom blocks for ever, the option is not set.
NoReceiveTimeout == FALSE

\* SO_RCVTIMEO is set on the UDP socket before anything uses it.
ReceiveTimeout == TRUE

\* Fault: any reply is taken for the ACK.
IsReply(d) == TRUE

\* The first byte of the reply is 0xFF.
IsAck(d) == d.kind = "ack"

-----------------------------------------------------------------------------
(* The streaming worker: stream_task and test_stream_task.                  *)

\* The file does not open: say so.
WorkerNoFile ==
  /\ Running
  /\ wpc = "open"
  /\ job.source = "missing"
  /\ Send("ERROR_FILE", "worker")
  /\ wpc' = "clear"
  /\ AfterSend
  /\ UNCHANGED <<flags, commander, job, line, req, got, counters, link,
                 boardModel, log, history>>

\* The log opens in append mode; an empty file gets the header.
WorkerOpenLog ==
  /\ Running
  /\ wpc = "open"
  /\ job.source # "missing"
  /\ log' = IF log = <<>> THEN <<Header>> ELSE log
  /\ wpc' = "loop"
  /\ line' = 1
  /\ UNCHANGED <<process, flags, commander, job, req, got, counters, link,
                 boardModel, tcp, history>>

AtEnd == job.source = "file" /\ line > Len(FileLines)
AtBlank == job.source = "file" /\ ~AtEnd /\ FileLines[line] = "blank"

\* A blank line of the file is read and nothing is sent for it.
WorkerBlank ==
  /\ Running
  /\ wpc = "loop"
  /\ isStreaming
  /\ AtBlank
  /\ line' = line + 1
  /\ UNCHANGED <<process, flags, commander, wpc, job, req, got, counters, link,
                 boardModel, tcp, log, history>>

\* A row, of the file or random, becomes one request.
WorkerRequest ==
  /\ Running
  /\ wpc = "loop"
  /\ isStreaming
  /\ ~AtEnd
  /\ ~AtBlank
  /\ nreq < MaxRequests
  /\ nreq' = nreq + 1
  /\ req' = nreq + 1
  /\ toBoard' = toBoard \cup
       {[kind |-> "D", id |-> nreq + 1, fits |-> TRUE, run |-> run]}
  /\ line' = IF job.source = "file" THEN line + 1 ELSE line
  /\ wpc' = "wait"
  /\ UNCHANGED <<process, flags, commander, job, got, nmodel, ncmd, toHost,
                 boardModel, tcp, log, history>>

\* recvfrom returns whatever datagram the socket holds.  A decision byte is
\* shown as it is, any other byte (an ACK is 0xFF) as UNKNOWN.
WorkerReceive ==
  /\ Running
  /\ wpc = "wait"
  /\ \E d \in toHost :
       /\ toHost' = toHost \ {d}
       /\ got' = d
       /\ Send(IF d.kind = "decision" THEN "DECISION" ELSE "UNKNOWN", "worker")
  /\ wpc' = "log"
  /\ AfterSend
  /\ UNCHANGED <<flags, commander, job, line, req, counters, toBoard,
                 boardModel, log, history>>

\* SO_RCVTIMEO expires: two seconds without a datagram.
WorkerTimeout ==
  /\ Running
  /\ wpc = "wait"
  /\ ReceiveTimeout
  /\ got' = NoReply
  /\ Send("TIMEOUT", "worker")
  /\ wpc' = "log"
  /\ AfterSend
  /\ UNCHANGED <<flags, commander, job, line, req, counters, link, boardModel,
                 log, history>>

\* Fault: the reply is written as it came, undecoded.
RawRow(d) == [kind |-> d.kind, req |-> req, of |-> d.id, run |-> run]

\* The row the worker writes for what it received.
RowOf(d) ==
  [kind |-> CASE d.kind = "decision" -> "decision"
              [] d.kind = "ack"      -> "unknown"
              [] OTHER               -> "timeout",
   req |-> req, of |-> d.id, run |-> run]

\* Fault: only a reply is worth a row.
LoggedIfAnswered(d) ==
  log' = IF d.kind = "timeout" THEN log ELSE Append(log, RowOf(d))

\* A row for each request, answered or not.
Logged(d) == log' = Append(log, RowOf(d))

\* The row is written and flushed.
WorkerLog ==
  /\ Running
  /\ wpc = "log"
  /\ Logged(got)
  /\ wpc' = "loop"
  /\ UNCHANGED <<process, flags, commander, job, line, req, got, counters,
                 link, boardModel, tcp, history>>

\* Fault: a file that is at its end is waited on for more.
OnlyStopped == ~isStreaming

\* The loop ends with the file, or when is_streaming is found reset.
LoopOver == AtEnd \/ ~isStreaming

WorkerLeaveLoop ==
  /\ Running
  /\ wpc = "loop"
  /\ LoopOver
  /\ wpc' = "finish"
  /\ UNCHANGED <<process, flags, commander, job, line, req, got, counters,
                 link, boardModel, tcp, log, history>>

\* STREAM_FINISHED, unless the stream was stopped.
WorkerFinish ==
  /\ Running
  /\ wpc = "finish"
  /\ IF isStreaming
     THEN Send("STREAM_FINISHED", "worker") /\ AfterSend
     ELSE UNCHANGED <<process, tcp>>
  /\ wpc' = "clear"
  /\ UNCHANGED <<flags, commander, job, line, req, got, counters, link,
                 boardModel, log, history>>

\* Fault: the worker returns without resetting the flag.
StreamingLeftOn == UNCHANGED isStreaming

\* is_streaming = false
StreamingOff == isStreaming' = FALSE

\* The last thing the thread function does before it returns.
WorkerClear ==
  /\ Running
  /\ wpc = "clear"
  /\ StreamingOff
  /\ wpc' = "exited"
  /\ UNCHANGED <<process, joinable, commander, job, line, req, got, counters,
                 link, boardModel, tcp, log, history>>

Worker ==
  \/ WorkerNoFile \/ WorkerOpenLog \/ WorkerBlank \/ WorkerRequest
  \/ WorkerReceive \/ WorkerTimeout \/ WorkerLog
  \/ WorkerLeaveLoop \/ WorkerFinish \/ WorkerClear

-----------------------------------------------------------------------------
(* The command thread: main's accept and recv loops, process_command.       *)

\* accept returns: a new connection, nothing sent on it yet.
Accept ==
  /\ Running
  /\ cpc = "accept"
  /\ conn < MaxConnections
  /\ conn' = conn + 1
  /\ peer' = "open"
  /\ tcpIn' = <<>>
  /\ toClient' = <<>>
  /\ cpc' = "idle"
  /\ UNCHANGED <<process, flags, cmd, worker, counters, link, boardModel, log,
                 history>>

\* The next command of what recv returned goes to process_command, which does
\* nothing for a line it does not know.
ReadCommand ==
  /\ Running
  /\ cpc = "idle"
  /\ tcpIn # <<>>
  /\ cmd' = Head(tcpIn)
  /\ tcpIn' = Tail(tcpIn)
  /\ cpc' = CASE cmd'.op = "MODEL"      -> "model"
              [] cmd'.op = "TEST_MODEL" -> "ping"
              [] cmd'.op = "STOP"       -> "stop"
              [] cmd'.op = "OTHER"      -> "idle"
              [] OTHER                  -> "stream"
  /\ UNCHANGED <<process, flags, worker, counters, link, boardModel, peer,
                 conn, toClient, log, history>>

\* MODEL: an empty list of floats is refused, any other one is sent, whatever
\* its size.
ReadModel ==
  /\ Running
  /\ cpc = "model"
  /\ IF cmd.arg = "empty"
     THEN Send("ERROR_EMPTY_MODEL", "command") /\ AfterSend /\ cpc' = "idle"
     ELSE cpc' = "sendModel" /\ UNCHANGED <<process, tcp>>
  /\ UNCHANGED <<flags, cmd, worker, counters, link, boardModel, log, history>>

\* TEST_MODEL first pings the board and reports either outcome.
PingChecking ==
  /\ Running
  /\ cpc = "ping"
  /\ Send("PING_CHECKING", "command")
  /\ cpc' = "pinged"
  /\ AfterSend
  /\ UNCHANGED <<flags, cmd, worker, counters, link, boardModel, log, history>>

Pinged ==
  /\ Running
  /\ cpc = "pinged"
  /\ \E answer \in {"PING_OK", "WARNING_PING_FAILED"} : Send(answer, "command")
  /\ cpc' = "sendModel"
  /\ AfterSend
  /\ UNCHANGED <<flags, cmd, worker, counters, link, boardModel, log, history>>

\* The packet goes out; a random model always has the board's size.
SendModel ==
  /\ Running
  /\ cpc = "sendModel"
  /\ nmodel' = nmodel + 1
  /\ toBoard' = toBoard \cup
       {[kind |-> "M", id |-> nmodel + 1, fits |-> cmd.arg # "short", run |-> run]}
  /\ okModel' = 0
  /\ cpc' = "modelWait"
  /\ UNCHANGED <<process, flags, cmd, worker, nreq, ncmd, toHost, boardModel,
                 tcp, log, unanswered>>

\* The same socket as the worker's: recvfrom returns any datagram it holds, and
\* whatever is not an ACK counts as a timeout.
ModelReceive ==
  /\ Running
  /\ cpc = "modelWait"
  /\ \E d \in toHost :
       /\ toHost' = toHost \ {d}
       /\ Send(IF IsAck(d) THEN "MODEL_OK" ELSE "TIMEOUT", "command")
       /\ okModel' = IF IsAck(d) THEN nmodel ELSE okModel
       /\ unanswered' = (unanswered \/ ~IsAck(d))
  /\ cpc' = "idle"
  /\ AfterSend
  /\ UNCHANGED <<flags, cmd, worker, counters, toBoard, boardModel, log>>

ModelTimeout ==
  /\ Running
  /\ cpc = "modelWait"
  /\ ReceiveTimeout
  /\ Send("TIMEOUT", "command")
  /\ unanswered' = TRUE
  /\ cpc' = "idle"
  /\ AfterSend
  /\ UNCHANGED <<flags, cmd, worker, counters, link, boardModel, log, okModel>>

\* STREAM and TEST_STREAM end a stream that still runs, and only such a one.
StreamCommand ==
  /\ Running
  /\ cpc = "stream"
  /\ isStreaming' = FALSE
  /\ cpc' = IF isStreaming /\ joinable THEN "joinStream" ELSE "launch"
  /\ UNCHANGED <<process, joinable, cmd, worker, counters, link, boardModel,
                 tcp, log, history>>

JoinStream ==
  /\ Running
  /\ cpc = "joinStream"
  /\ Joined
  /\ cpc' = "launch"
  /\ UNCHANGED <<process, isStreaming, cmd, job, line, req, got, counters,
                 link, boardModel, tcp, log, history>>

\* is_streaming = true; stream_thread = thread(...).  Assigning to a thread
\* object that is still joinable calls std::terminate.
Launch ==
  /\ Running
  /\ cpc = "launch"
  /\ isStreaming' = TRUE
  /\ IF joinable
     THEN alive' = "terminated" /\ UNCHANGED <<joinable, wpc, job>>
     ELSE /\ joinable' = TRUE
          /\ wpc' = "open"
          /\ job' = [n |-> job.n + 1, conn |-> conn,
                     source |-> IF cmd.op = "STREAM" THEN cmd.arg ELSE "test"]
          /\ UNCHANGED alive
  /\ cpc' = "idle"
  /\ UNCHANGED <<run, cmd, line, req, got, counters, link, boardModel, tcp,
                 log, history>>

\* STOP does nothing, and says nothing, unless is_streaming is set.
StopCommand ==
  /\ Running
  /\ cpc = "stop"
  /\ isStreaming' = FALSE
  /\ cpc' = CASE ~isStreaming -> "idle"
              [] isStreaming /\ joinable -> "joinStop"
              [] OTHER -> "stopped"
  /\ UNCHANGED <<process, joinable, cmd, worker, counters, link, boardModel,
                 tcp, log, history>>

JoinStop ==
  /\ Running
  /\ cpc = "joinStop"
  /\ Joined
  /\ cpc' = "stopped"
  /\ UNCHANGED <<process, isStreaming, cmd, job, line, req, got, counters,
                 link, boardModel, tcp, log, history>>

Stopped ==
  /\ Running
  /\ cpc = "stopped"
  /\ Send("STOPPED", "command")
  /\ cpc' = "idle"
  /\ AfterSend
  /\ UNCHANGED <<flags, cmd, worker, counters, link, boardModel, log, history>>

\* recv returns 0 or an error: main resets is_streaming ...
Hangup ==
  /\ Running
  /\ cpc = "idle"
  /\ tcpIn = <<>>
  /\ peer \in {"closed", "broken"}
  /\ isStreaming' = FALSE
  /\ cpc' = IF joinable THEN "joinClose" ELSE "close"
  /\ UNCHANGED <<process, joinable, cmd, worker, counters, link, boardModel,
                 tcp, log, history>>

\* ... joins the worker, if a stream was ever started and not joined ...
JoinClose ==
  /\ Running
  /\ cpc = "joinClose"
  /\ Joined
  /\ cpc' = "close"
  /\ UNCHANGED <<process, isStreaming, cmd, job, line, req, got, counters,
                 link, boardModel, tcp, log, history>>

\* ... and closes the socket, tcp_client_sock = -1, to accept again.
Close ==
  /\ Running
  /\ cpc = "close"
  /\ peer' = "none"
  /\ cpc' = "accept"
  /\ UNCHANGED <<process, flags, cmd, worker, counters, link, boardModel, conn,
                 tcpIn, toClient, log, history>>

Commander ==
  \/ Accept \/ ReadCommand \/ ReadModel \/ PingChecking \/ Pinged \/ SendModel
  \/ ModelReceive \/ ModelTimeout \/ StreamCommand \/ JoinStream \/ Launch
  \/ StopCommand \/ JoinStop \/ Stopped \/ Hangup \/ JoinClose \/ Close

-----------------------------------------------------------------------------
(* The frontend, the link, the board and the operator.                      *)

ClientCommand ==
  /\ Running
  /\ peer = "open"
  /\ ncmd < MaxCommands /\ Len(tcpIn) < MaxQueued
  /\ ncmd' = ncmd + 1
  /\ \E c \in Commands : tcpIn' = Append(tcpIn, c)
  /\ UNCHANGED <<process, flags, commander, worker, nreq, nmodel, link,
                 boardModel, peer, conn, toClient, log, history>>

ClientClose ==
  /\ Running
  /\ peer = "open"
  /\ peer' = "closed"
  /\ UNCHANGED <<process, flags, commander, worker, counters, link, boardModel,
                 conn, tcpIn, toClient, log, history>>

\* A reply goes to the port the request came from; a new process has another.
Answered(d, kind) ==
  toHost' = IF d.run = run /\ Running
            THEN toHost \cup {[kind |-> kind, id |-> d.id]}
            ELSE toHost

\* The firmware takes an 'M' packet of its size (a shorter one is dropped),
\* loads it, and acknowledges it with 0xFF.
BoardModel ==
  \E d \in toBoard :
    /\ d.kind = "M"
    /\ toBoard' = toBoard \ {d}
    /\ IF d.fits
       THEN boardModel' = d.id /\ Answered(d, "ack")
       ELSE UNCHANGED <<boardModel, toHost>>
    /\ UNCHANGED <<process, flags, commander, worker, counters, tcp, log,
                   history>>

\* It answers a 'D' packet with the decision for that packet.
BoardDecision ==
  \E d \in toBoard :
    /\ d.kind = "D"
    /\ toBoard' = toBoard \ {d}
    /\ Answered(d, "decision")
    /\ UNCHANGED <<process, flags, commander, worker, counters, boardModel,
                   tcp, log, history>>

\* A datagram is lost on the wire, or the board has no buffer or no DMA for it.
LoseRequest ==
  \E d \in toBoard :
    /\ toBoard' = toBoard \ {d}
    /\ UNCHANGED <<process, flags, commander, worker, counters, toHost,
                   boardModel, tcp, log, history>>

LoseReply ==
  \E d \in toHost :
    /\ toHost' = toHost \ {d}
    /\ UNCHANGED <<process, flags, commander, worker, counters, toBoard,
                   boardModel, tcp, log, history>>

\* The operator ends the engine at any point.
Kill ==
  /\ Running
  /\ run < MaxRuns
  /\ alive' = "killed"
  /\ UNCHANGED <<run, flags, commander, worker, counters, link, boardModel,
                 tcp, log, history>>

\* The operator starts it again: new sockets, the old log or, with another
\* HFT_LOG, an empty one.
Restart ==
  /\ ~Running
  /\ run < MaxRuns
  /\ alive' = "running"
  /\ run' = run + 1
  /\ isStreaming' = FALSE
  /\ joinable' = FALSE
  /\ cpc' = "accept" /\ cmd' = NoCommand
  /\ wpc' = "none" /\ job' = [NoJob EXCEPT !.n = job.n]
  /\ line' = 1 /\ req' = 0 /\ got' = NoReply
  /\ toHost' = {}
  /\ peer' = "none" /\ tcpIn' = <<>> /\ toClient' = <<>>
  /\ log' \in {log, <<>>}
  /\ unanswered' = (unanswered \/ cpc = "modelWait")
  /\ UNCHANGED <<counters, toBoard, boardModel, conn, okModel>>

Environment ==
  \/ ClientCommand \/ ClientClose
  \/ BoardModel \/ BoardDecision \/ LoseRequest \/ LoseReply
  \/ Kill \/ Restart

Init ==
  /\ alive = "running" /\ run = 1
  /\ isStreaming = FALSE /\ joinable = FALSE
  /\ cpc = "accept" /\ cmd = NoCommand
  /\ wpc = "none" /\ job = NoJob
  /\ line = 1 /\ req = 0 /\ got = NoReply
  /\ nreq = 0 /\ nmodel = 0 /\ ncmd = 0
  /\ toBoard = {} /\ toHost = {}
  /\ boardModel = 0
  /\ peer = "none" /\ conn = 0 /\ tcpIn = <<>> /\ toClient = <<>>
  /\ log = <<>>
  /\ okModel = 0 /\ unanswered = FALSE

Next == Worker \/ Commander \/ Environment

Spec == Init /\ [][Next]_vars

\* The operating system schedules both threads, and a recvfrom returns after at
\* most two seconds.  Nothing is assumed of the link, the board, the frontend
\* or the operator.
FairSpec == Spec /\ WF_vars(Worker) /\ WF_vars(Commander)

-----------------------------------------------------------------------------
(* Properties.                                                              *)

WorkerPc == {"none", "open", "loop", "wait", "log", "finish", "clear", "exited"}
CommandPc ==
  {"accept", "idle", "model", "ping", "pinged", "sendModel", "modelWait",
   "stream", "joinStream", "launch", "stop", "joinStop", "stopped",
   "joinClose", "close"}

\* Every variable keeps its type; in particular every row of the log is one of
\* the four kinds the engine writes (hft_engine_linux.cpp:168-225).
TypeOK ==
  /\ alive \in {"running", "terminated", "sigpipe", "killed"}
  /\ run \in Nat
  /\ isStreaming \in BOOLEAN /\ joinable \in BOOLEAN
  /\ cpc \in CommandPc /\ cmd \in Command \cup {NoCommand}
  /\ wpc \in WorkerPc /\ job \in Job
  /\ line \in Nat \ {0} /\ req \in Nat /\ got \in Reply \cup {NoReply}
  /\ nreq \in Nat /\ nmodel \in Nat /\ ncmd \in Nat
  /\ toBoard \subseteq Request /\ toHost \subseteq Reply
  /\ boardModel \in Nat
  /\ peer \in {"none", "open", "closed", "broken"} /\ conn \in Nat
  /\ tcpIn \in Seq(Command) /\ toClient \in Seq(Status)
  /\ log \in Seq(Row)
  /\ okModel \in Nat /\ unanswered \in BOOLEAN

\* Decision rows follow their requests although no packet carries a number: up
\* to the first TIMEOUT or UNKNOWN row, every decision in the log answers the
\* very request it was logged for (recvfrom at 159 and 276 against the other
\* recvfrom on the same socket, at 409 and 479, and late replies).
Clean(row) == row.kind \in {"header", "decision"}
PrefixAligned ==
  \A i \in 1..Len(log) :
    (\A j \in 1..i : Clean(log[j])) => log[i].of = log[i].req

\* The log has its header in the first row and nowhere else, however many
\* streams and engine runs appended to it (102-109), and after it one row per
\* request of each run, in the order the requests were sent.
LogComplete ==
  \A i \in 1..Len(log) :
    /\ (log[i].kind = "header") <=> (i = 1)
    /\ (i > 1 /\ log[i].run = run) =>
         log[i].req =
           nreq - (Len(log) - i) - (IF wpc \in {"wait", "log"} THEN 1 ELSE 0)

\* While the process runs, is_streaming and the worker agree whenever the
\* command thread is not in the middle of ending a stream: the flag is never
\* left on without a worker to reset it, and no worker goes on streaming, or is
\* cut short, with the flag off (113, 233-236 against 429-436 and 439-442).
FlagMatchesWorker ==
  Running =>
    /\ isStreaming => wpc \notin {"none", "exited"}
    /\ ~isStreaming /\ wpc \in {"open", "loop", "wait", "log"} =>
         cpc \in {"joinStream", "joinStop", "joinClose"}

\* STATUS:STOPPED is the last the frontend hears of a stream (438-444): what a
\* worker says after it belongs to a later stream.
StopIsFinal ==
  \A i, j \in 1..Len(toClient) :
    i < j /\ toClient[i].kind = "STOPPED" /\ toClient[j].from = "worker" =>
      toClient[j].job.n > toClient[i].job.n

\* A worker reports to the connection that asked for its stream and to no later
\* one, although tcp_client_sock is a global (586-594 before 559).
StatusToOwner ==
  \A i \in 1..Len(toClient) :
    toClient[i].from = "worker" => toClient[i].job.conn = conn

\* As long as every model packet was answered with its ACK, MODEL_OK means that
\* the board's network is the one just sent (403-413).
ModelOkTruth == ~unanswered /\ okModel # 0 => boardModel = okModel

\* A command that reached process_command, and a hangup, are dealt with: no join
\* and no recvfrom holds the command thread for ever (441, 409, 588).
Responsive ==
  cpc \notin {"accept", "idle"} ~> (cpc \in {"accept", "idle"} \/ ~Running)

\* A file stream reaches its end or is stopped, whatever the link loses: the
\* receive timeout keeps the worker going from line to line (113-231, 514-518).
\* Only a row that the bound leaves no request for excuses it.
OutOfRequests == wpc = "loop" /\ isStreaming /\ ~AtEnd /\ ~AtBlank /\ nreq = MaxRequests
StreamEnds ==
  (wpc = "open" /\ job.source = "file")
    ~> (wpc \in {"none", "exited"} \/ ~Running \/ OutOfRequests)

\* The frontend offers "Start Live Data Stream" again once a stream has finished
\* (hft_frontend.py:237-240), and the engine is to serve it: it does not end
\* itself.
NeverTerminated == alive # "terminated"

\* "Connection closed." (570) ends a connection, and the daemon goes back to
\* "Wait for connections from the Python frontend" (555): a frontend that leaves
\* does not end the engine.
SurvivesHangup == alive # "sigpipe"
=============================================================================
