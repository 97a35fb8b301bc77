------------------------- MODULE HostEngine_proofs -------------------------
(***************************************************************************)
(* Theorems about HostEngine, for every stream file and every bound: types, *)
(* the alignment of decision rows with their requests, the truth of MODEL_OK, *)
(* the agreement of the flag with the worker, that a worker reports only to  *)
(* the connection of its stream and never after STOPPED, and that the log is *)
(* complete.                                                                *)
(***************************************************************************)
EXTENDS HostEngine, TLAPS

-----------------------------------------------------------------------------
(* Types.                                                                   *)

\* Send appends a status message of a declared kind, or changes only the
\* process's and the peer's state.
LEMMA SendType ==
  ASSUME TypeOK, NEW kind \in StatusKind, NEW from \in {"command", "worker"},
         Send(kind, from)
  PROVE  /\ alive' \in {"running", "terminated", "sigpipe", "killed"}
         /\ peer' \in {"none", "open", "closed", "broken"}
         /\ toClient' \in Seq(Status)
<1> DEFINE s == [kind |-> kind, from |-> from, job |-> job]
<1>1. s \in Status
  BY DEF TypeOK, Status
<1>2. Append(toClient, s) \in Seq(Status)
  BY <1>1 DEF TypeOK
<1> QED
  BY <1>2 DEF TypeOK, Send

\* The worker's steps preserve the types.
LEMMA WorkerType == ASSUME TypeOK, Worker PROVE TypeOK'
<1> USE DEF process, flags, commander, worker, counters, link, tcp, history,
            WorkerPc, AfterSend
<1>1. CASE WorkerNoFile
  <2>1. "ERROR_FILE" \in StatusKind  BY DEF StatusKind
  <2> QED  BY <1>1, <2>1, SendType DEF WorkerNoFile, TypeOK
<1>2. CASE WorkerOpenLog
  <2>1. Header \in Row  BY DEF Header, Row
  <2>2. <<Header>> \in Seq(Row)  BY <2>1
  <2>3. log' \in Seq(Row)  BY <1>2, <2>2 DEF WorkerOpenLog, TypeOK
  <2> QED  BY <1>2, <2>3 DEF WorkerOpenLog, TypeOK
<1>3. CASE WorkerBlank  BY <1>3 DEF WorkerBlank, TypeOK
<1>4. CASE WorkerRequest
  <2>1. [kind |-> "D", id |-> nreq + 1, fits |-> TRUE, run |-> run] \in Request
    BY DEF TypeOK, Request
  <2>2. toBoard' \subseteq Request
    <3>1. toBoard \subseteq Request  BY DEF TypeOK
    <3> QED  BY <1>4, <2>1, <3>1 DEF WorkerRequest
  <2>4. line' \in Nat \ {0}
    <3>1. line \in Nat \ {0}  BY DEF TypeOK
    <3> QED  BY <1>4, <3>1 DEF WorkerRequest
  <2>3. nreq' \in Nat /\ req' \in Nat
    BY <1>4 DEF WorkerRequest, TypeOK
  <2> QED  BY <1>4, <2>2, <2>3, <2>4 DEF WorkerRequest, TypeOK
<1>5. CASE WorkerReceive
  <2>1. {"DECISION", "UNKNOWN"} \subseteq StatusKind  BY DEF StatusKind
  <2>2. PICK d \in toHost :
          /\ toHost' = toHost \ {d}
          /\ got' = d
          /\ Send(IF d.kind = "decision" THEN "DECISION" ELSE "UNKNOWN", "worker")
    BY <1>5 DEF WorkerReceive
  <2>3. /\ alive' \in {"running", "terminated", "sigpipe", "killed"}
        /\ peer' \in {"none", "open", "closed", "broken"}
        /\ toClient' \in Seq(Status)
    BY <2>1, <2>2, SendType
  <2> QED  BY <1>5, <2>2, <2>3 DEF WorkerReceive, TypeOK
<1>6. CASE WorkerTimeout
  <2>1. "TIMEOUT" \in StatusKind  BY DEF StatusKind
  <2> QED  BY <1>6, <2>1, SendType DEF WorkerTimeout, TypeOK
<1>7. CASE WorkerLog
  <2>1. RowOf(got) \in Row  BY DEF RowOf, Row, TypeOK, Reply, NoReply
  <2>2. log' \in Seq(Row)  BY <1>7, <2>1 DEF WorkerLog, Logged, TypeOK
  <2> QED  BY <1>7, <2>2 DEF WorkerLog, TypeOK
<1>8. CASE WorkerLeaveLoop  BY <1>8 DEF WorkerLeaveLoop, TypeOK
<1>9. CASE WorkerFinish
  <2>1. "STREAM_FINISHED" \in StatusKind  BY DEF StatusKind
  <2> QED  BY <1>9, <2>1, SendType DEF WorkerFinish, TypeOK
<1>10. CASE WorkerClear  BY <1>10 DEF WorkerClear, StreamingOff, TypeOK
<1> QED
  BY <1>1, <1>2, <1>3, <1>4, <1>5, <1>6, <1>7, <1>8, <1>9, <1>10 DEF Worker

\* The command thread's steps preserve the types.
LEMMA CommanderType == ASSUME TypeOK, Commander PROVE TypeOK'
<1> USE DEF process, flags, commander, worker, counters, link, tcp, history,
            CommandPc, AfterSend
<1>1. CASE Accept  BY <1>1 DEF Accept, TypeOK
<1>2. CASE ReadCommand
  <2>1. cmd' \in Command /\ tcpIn' \in Seq(Command)
    BY <1>2 DEF ReadCommand, TypeOK
  <2> QED  BY <1>2, <2>1 DEF ReadCommand, TypeOK
<1>3. CASE ReadModel
  <2>1. "ERROR_EMPTY_MODEL" \in StatusKind  BY DEF StatusKind
  <2> QED  BY <1>3, <2>1, SendType DEF ReadModel, TypeOK
<1>4. CASE PingChecking
  <2>1. "PING_CHECKING" \in StatusKind  BY DEF StatusKind
  <2> QED  BY <1>4, <2>1, SendType DEF PingChecking, TypeOK
<1>5. CASE Pinged
  <2>1. {"PING_OK", "WARNING_PING_FAILED"} \subseteq StatusKind
    BY DEF StatusKind
  <2> QED  BY <1>5, <2>1, SendType DEF Pinged, TypeOK
<1>6. CASE SendModel
  <2>1. [kind |-> "M", id |-> nmodel + 1, fits |-> cmd.arg # "short",
         run |-> run] \in Request
    BY DEF TypeOK, Request
  <2> QED  BY <1>6, <2>1 DEF SendModel, TypeOK
<1>7. CASE ModelReceive
  <2>1. {"MODEL_OK", "TIMEOUT"} \subseteq StatusKind  BY DEF StatusKind
  <2>2. PICK d \in toHost :
          /\ toHost' = toHost \ {d}
          /\ Send(IF IsAck(d) THEN "MODEL_OK" ELSE "TIMEOUT", "command")
          /\ okModel' = IF IsAck(d) THEN nmodel ELSE okModel
          /\ unanswered' = (unanswered \/ ~IsAck(d))
    BY <1>7 DEF ModelReceive
  <2>3. /\ alive' \in {"running", "terminated", "sigpipe", "killed"}
        /\ peer' \in {"none", "open", "closed", "broken"}
        /\ toClient' \in Seq(Status)
    BY <2>1, <2>2, SendType
  <2> QED  BY <1>7, <2>2, <2>3 DEF ModelReceive, IsAck, TypeOK
<1>8. CASE ModelTimeout
  <2>1. "TIMEOUT" \in StatusKind  BY DEF StatusKind
  <2> QED  BY <1>8, <2>1, SendType DEF ModelTimeout, TypeOK
<1>9. CASE StreamCommand  BY <1>9 DEF StreamCommand, TypeOK
<1>10. CASE JoinStream  BY <1>10 DEF JoinStream, Joined, WorkerPc, TypeOK
<1>11. CASE Launch
  <2>1. cmd.op = "STREAM" => cmd.arg \in {"file", "missing"}
    BY DEF TypeOK, Command, NoCommand
  <2>2. job' \in Job /\ wpc' \in WorkerPc
    BY <1>11, <2>1 DEF Launch, Job, WorkerPc, TypeOK
  <2> QED  BY <1>11, <2>2 DEF Launch, TypeOK
<1>12. CASE StopCommand  BY <1>12 DEF StopCommand, TypeOK
<1>13. CASE JoinStop  BY <1>13 DEF JoinStop, Joined, WorkerPc, TypeOK
<1>14. CASE Stopped
  <2>1. "STOPPED" \in StatusKind  BY DEF StatusKind
  <2> QED  BY <1>14, <2>1, SendType DEF Stopped, TypeOK
<1>15. CASE Hangup  BY <1>15 DEF Hangup, TypeOK
<1>16. CASE JoinClose  BY <1>16 DEF JoinClose, Joined, WorkerPc, TypeOK
<1>17. CASE Close  BY <1>17 DEF Close, TypeOK
<1> QED
  BY <1>1, <1>2, <1>3, <1>4, <1>5, <1>6, <1>7, <1>8, <1>9, <1>10, <1>11,
     <1>12, <1>13, <1>14, <1>15, <1>16, <1>17 DEF Commander

\* What the client, the board, the network and a kill do preserves the types.
LEMMA EnvironmentType == ASSUME TypeOK, Environment PROVE TypeOK'
<1> USE DEF process, flags, commander, worker, counters, link, tcp, history
<1>1. CASE ClientCommand
  <2>1. PICK c \in Commands : tcpIn' = Append(tcpIn, c)
    BY <1>1 DEF ClientCommand
  <2>2. c \in Command /\ tcpIn \in Seq(Command)
    BY ConstantsAssumption DEF TypeOK
  <2>3. tcpIn' \in Seq(Command)
    BY <2>1, <2>2
  <2> QED  BY <1>1, <2>3 DEF ClientCommand, TypeOK
<1>2. CASE ClientClose  BY <1>2 DEF ClientClose, TypeOK
<1>3. CASE BoardModel
  BY <1>3 DEF BoardModel, Answered, Request, Reply, TypeOK
<1>4. CASE BoardDecision
  BY <1>4 DEF BoardDecision, Answered, Request, Reply, TypeOK
<1>5. CASE LoseRequest  BY <1>5 DEF LoseRequest, TypeOK
<1>6. CASE LoseReply  BY <1>6 DEF LoseReply, TypeOK
<1>7. CASE Kill  BY <1>7 DEF Kill, TypeOK
<1>8. CASE Restart
  <2>1. job' \in Job  BY <1>8 DEF Restart, NoJob, Job, TypeOK
  <2>2. cpc' \in CommandPc /\ wpc' \in WorkerPc
    BY <1>8 DEF Restart, CommandPc, WorkerPc
  <2>3. log' \in Seq(Row)
    <3>1. log \in Seq(Row) /\ << >> \in Seq(Row)  BY DEF TypeOK
    <3>2. log' = log \/ log' = << >>  BY <1>8 DEF Restart
    <3> QED  BY <3>1, <3>2
  <2>5. unanswered' \in BOOLEAN  BY <1>8 DEF Restart
  <2>4. tcpIn' \in Seq(Command) /\ toClient' \in Seq(Status)
    BY <1>8 DEF Restart
  <2>6. cmd' \in Command \cup {NoCommand} /\ got' \in Reply \cup {NoReply}
    BY <1>8 DEF Restart
  <2>7. line' \in Nat \ {0} /\ req' \in Nat /\ run' \in Nat
    BY <1>8 DEF Restart, TypeOK
  <2>8. toBoard' \subseteq Request /\ toHost' \subseteq Reply
    BY <1>8 DEF Restart, TypeOK
  <2> QED
    BY <1>8, <2>1, <2>2, <2>3, <2>4, <2>5, <2>6, <2>7, <2>8 DEF Restart, TypeOK
<1> QED
  BY <1>1, <1>2, <1>3, <1>4, <1>5, <1>6, <1>7, <1>8 DEF Environment

\* Every variable keeps its type, whatever the file, the commands and the
\* bounds; what the engine writes to its log is always one of its four rows.
THEOREM TypeCorrect == Spec => []TypeOK
<1>1. Init => TypeOK
  <2> SUFFICES ASSUME Init PROVE TypeOK
    OBVIOUS
  <2>1. NoJob \in Job  BY DEF NoJob, Job
  <2>2. log \in Seq(Row) /\ tcpIn \in Seq(Command) /\ toClient \in Seq(Status)
    BY DEF Init
  <2>3. cpc \in CommandPc /\ wpc \in WorkerPc  BY DEF Init, CommandPc, WorkerPc
  <2>4. cmd \in Command \cup {NoCommand} /\ got \in Reply \cup {NoReply}
    BY DEF Init
  <2>5. toBoard \subseteq Request /\ toHost \subseteq Reply
    BY DEF Init
  <2>6. job \in Job  BY <2>1 DEF Init
  <2>7. /\ isStreaming \in BOOLEAN /\ joinable \in BOOLEAN
        /\ unanswered \in BOOLEAN
    BY DEF Init
  <2>8. line \in Nat \ {0}  BY DEF Init
  <2> QED  BY <2>2, <2>3, <2>4, <2>5, <2>6, <2>7, <2>8 DEF Init, TypeOK
<1>2. TypeOK /\ [Next]_vars => TypeOK'
  <2> SUFFICES ASSUME TypeOK, [Next]_vars PROVE TypeOK'
    OBVIOUS
  <2>1. CASE Next
    BY <2>1, WorkerType, CommanderType, EnvironmentType DEF Next
  <2>2. CASE UNCHANGED vars
    BY <2>2 DEF vars, process, flags, commander, worker, counters, link, tcp,
                history, TypeOK
  <2> QED  BY <2>1, <2>2
<1> QED  BY <1>1, <1>2, PTL DEF Spec

-----------------------------------------------------------------------------
(* Alignment: the inductive invariant.                                      *)

\* Nothing has gone wrong in the log so far, nor is about to be written to it.
AllClean == \A i \in 1..Len(log) : Clean(log[i])
NoMishap == AllClean /\ (wpc = "log" => got.kind = "decision")

\* An inference request of this process on its way, and a decision on its way.
Asked(d) == d.kind = "D" /\ d.run = run
Decision(d) == d.kind = "decision"

\* While nothing went wrong, the worker is waiting whenever one of its requests
\* or a decision is in flight, it is the request sent last, and never both.
OneInFlight ==
  /\ \A d \in toBoard : Asked(d) => wpc = "wait" /\ d.id = req /\ d.fits
  /\ \A d \in toHost : Decision(d) => wpc = "wait" /\ d.id = req
  /\ \A d \in toBoard, e \in toHost : ~(Asked(d) /\ Decision(e))

AlignmentInv ==
  /\ ~joinable => wpc = "none"
  /\ \A d \in toBoard : d.run <= run
  /\ NoMishap => OneInFlight /\ (wpc = "log" => got.id = req)
  /\ PrefixAligned

\* A step that leaves the worker and the log alone, and puts nothing of the
\* worker's in flight, preserves the alignment.
LEMMA AlignmentQuiet ==
  ASSUME AlignmentInv, UNCHANGED <<wpc, req, got, log, run, joinable>>,
         \A d \in toBoard' : d \in toBoard \/ (d.kind = "M" /\ d.run <= run),
         \A d \in toHost' : d \in toHost \/ d.kind # "decision"
  PROVE  AlignmentInv'
<1>1. PrefixAligned'  BY DEF AlignmentInv, PrefixAligned, Clean
<1>2. NoMishap' => NoMishap
  BY DEF NoMishap, AllClean, Clean
<1>3. NoMishap => OneInFlight'
  BY DEF AlignmentInv, OneInFlight, Asked, Decision
<1> QED  BY <1>1, <1>2, <1>3 DEF AlignmentInv

\* So does a step of a worker that is not waiting and has nothing to log.
LEMMA AlignmentIdle ==
  ASSUME AlignmentInv, UNCHANGED <<got, log, run, toBoard, toHost>>,
         wpc \notin {"wait", "log"}, wpc' \notin {"wait", "log"},
         ~joinable' => wpc' = "none"
  PROVE  AlignmentInv'
<1>1. PrefixAligned'  BY DEF AlignmentInv, PrefixAligned, Clean
<1>2. NoMishap' => NoMishap
  BY DEF NoMishap, AllClean, Clean
<1>3. NoMishap => OneInFlight'
  BY DEF AlignmentInv, OneInFlight, Asked, Decision
<1> QED  BY <1>1, <1>2, <1>3 DEF AlignmentInv

\* The worker's own steps: a request leaves only when nothing is in flight, a
\* decision that arrives is the one awaited, and anything else makes a mishap.
LEMMA WorkerAlignment ==
  ASSUME TypeOK, AlignmentInv, Worker PROVE AlignmentInv'
<1> USE DEF process, flags, commander, worker, counters, link, tcp, history,
            AfterSend
<1>1. CASE WorkerNoFile
  BY <1>1, AlignmentIdle DEF WorkerNoFile, AlignmentInv
<1>2. CASE WorkerOpenLog
  <2>1. CASE log # <<>>
    BY <1>2, <2>1, AlignmentIdle DEF WorkerOpenLog, AlignmentInv
  <2>2. CASE log = <<>>
    <3>1. log' = <<Header>>  BY <1>2, <2>2 DEF WorkerOpenLog
    <3>2. PrefixAligned'  BY <3>1 DEF PrefixAligned, Header
    <3>3. AllClean  BY <2>2 DEF AllClean
    <3>4. OneInFlight /\ wpc = "open"
      BY <1>2, <3>3 DEF WorkerOpenLog, AlignmentInv, NoMishap
    <3>5. OneInFlight'
      BY <1>2, <3>4 DEF WorkerOpenLog, OneInFlight, Asked, Decision
    <3> QED  BY <1>2, <3>2, <3>5 DEF WorkerOpenLog, AlignmentInv
  <2> QED  BY <2>1, <2>2
<1>3. CASE WorkerBlank
  BY <1>3, AlignmentQuiet DEF WorkerBlank
<1>4. CASE WorkerRequest
  <2> DEFINE new == [kind |-> "D", id |-> nreq + 1, fits |-> TRUE, run |-> run]
  <2>1. /\ wpc = "loop" /\ wpc' = "wait" /\ req' = nreq + 1
        /\ toBoard' = toBoard \cup {new}
        /\ UNCHANGED <<got, log, run, joinable, toHost>>
    BY <1>4 DEF WorkerRequest
  <2>2. PrefixAligned'  BY <2>1 DEF AlignmentInv, PrefixAligned, Clean
  <2>3. NoMishap' => NoMishap
    BY <2>1 DEF NoMishap, AllClean, Clean
  <2>4. ASSUME OneInFlight PROVE OneInFlight'
    <3>1. \A d \in toBoard : ~Asked(d)
      BY <2>1, <2>4 DEF OneInFlight
    <3>2. \A d \in toHost : ~Decision(d)
      BY <2>1, <2>4 DEF OneInFlight
    <3> QED  BY <2>1, <3>1, <3>2 DEF OneInFlight, Asked, Decision
  <2>5. \A d \in toBoard' : d.run <= run'
    BY <2>1 DEF AlignmentInv, TypeOK
  <2> QED  BY <2>1, <2>2, <2>3, <2>4, <2>5 DEF AlignmentInv
<1>5. CASE WorkerReceive
  <2>1. PICK d \in toHost : toHost' = toHost \ {d} /\ got' = d
    BY <1>5 DEF WorkerReceive
  <2>2. /\ wpc = "wait" /\ wpc' = "log"
        /\ UNCHANGED <<log, req, run, joinable, toBoard>>
    BY <1>5 DEF WorkerReceive
  <2>3. PrefixAligned'  BY <2>2 DEF AlignmentInv, PrefixAligned, Clean
  <2>4. ASSUME NoMishap' PROVE OneInFlight' /\ got'.id = req'
    <3>1. NoMishap /\ Decision(d)
      BY <2>1, <2>2, <2>4 DEF NoMishap, AllClean, Clean, Decision
    <3>2. d.id = req /\ \A b \in toBoard : ~Asked(b)
      BY <3>1 DEF AlignmentInv, OneInFlight
    <3>3. \A e \in toHost' : ~Decision(e)
      <4> SUFFICES ASSUME NEW e \in toHost', Decision(e) PROVE FALSE
        OBVIOUS
      <4>1. e \in toHost /\ e # d  BY <2>1
      <4>2. e.id = req /\ e.kind = d.kind
        BY <3>1, <4>1 DEF AlignmentInv, OneInFlight, Decision
      <4>3. e \in Reply /\ d \in Reply  BY <4>1 DEF TypeOK
      <4> QED  BY <3>2, <4>1, <4>2, <4>3 DEF Reply
    <3> QED  BY <2>1, <2>2, <3>2, <3>3 DEF OneInFlight, Asked, Decision
  <2> QED  BY <2>1, <2>2, <2>3, <2>4 DEF AlignmentInv
<1>6. CASE WorkerTimeout
  <2>1. ~NoMishap'  BY <1>6 DEF WorkerTimeout, NoMishap, NoReply
  <2>2. PrefixAligned'
    BY <1>6 DEF WorkerTimeout, AlignmentInv, PrefixAligned, Clean
  <2> QED  BY <1>6, <2>1, <2>2 DEF WorkerTimeout, AlignmentInv
<1>7. CASE WorkerLog
  <2>1. /\ wpc = "log" /\ wpc' = "loop" /\ log' = Append(log, RowOf(got))
        /\ UNCHANGED <<got, req, run, joinable, toBoard, toHost>>
    BY <1>7 DEF WorkerLog, Logged
  <2>2. /\ Len(log') = Len(log) + 1
        /\ \A i \in 1..Len(log) : log'[i] = log[i]
        /\ log'[Len(log')] = RowOf(got)
        /\ Len(log) \in Nat
    BY <2>1 DEF TypeOK
  <2>3. AllClean' => AllClean /\ got.kind = "decision"
    <3>1. Clean(RowOf(got)) => got.kind = "decision"
      BY DEF Clean, RowOf
    <3>2. AllClean' => Clean(RowOf(got))
      BY <2>2 DEF AllClean, Clean
    <3>3. AllClean' => AllClean
      BY <2>2 DEF AllClean, Clean
    <3> QED  BY <3>1, <3>2, <3>3
  <2>4. AllClean' => NoMishap  BY <2>3 DEF NoMishap
  <2>5. AllClean' => RowOf(got).of = RowOf(got).req
    BY <2>4, <2>1 DEF AlignmentInv, RowOf
  <2>6. PrefixAligned'
    <3> SUFFICES ASSUME NEW i \in 1..Len(log'),
                        \A j \in 1..i : Clean(log'[j])
                 PROVE  log'[i].of = log'[i].req
      BY DEF PrefixAligned, Clean
    <3>1. CASE i = Len(log')
      <4>1. AllClean'  BY <3>1 DEF AllClean, Clean
      <4> QED  BY <3>1, <4>1, <2>2, <2>5
    <3>2. CASE i # Len(log')
      <4>1. i \in 1..Len(log) /\ log'[i] = log[i]  BY <2>2, <3>2
      <4>2. \A j \in 1..i : Clean(log[j])  BY <2>2, <4>1 DEF Clean
      <4> QED  BY <4>1, <4>2 DEF AlignmentInv, PrefixAligned
    <3> QED  BY <3>1, <3>2
  <2>7. NoMishap' => OneInFlight'
    <3>1. NoMishap' => OneInFlight
      BY <2>4 DEF NoMishap, AlignmentInv
    <3> QED  BY <2>1, <3>1 DEF OneInFlight, Asked, Decision
  <2> QED  BY <2>1, <2>6, <2>7 DEF AlignmentInv
<1>8. CASE WorkerLeaveLoop
  BY <1>8, AlignmentIdle DEF WorkerLeaveLoop, AlignmentInv
<1>9. CASE WorkerFinish
  BY <1>9, AlignmentIdle DEF WorkerFinish, AlignmentInv
<1>10. CASE WorkerClear
  BY <1>10, AlignmentIdle DEF WorkerClear, AlignmentInv
<1> QED
  BY <1>1, <1>2, <1>3, <1>4, <1>5, <1>6, <1>7, <1>8, <1>9, <1>10 DEF Worker

\* The command thread sends no inference request; it starts a worker only where
\* none is left, and joins one only after its last row.
LEMMA CommanderAlignment ==
  ASSUME TypeOK, AlignmentInv, Commander PROVE AlignmentInv'
<1> USE DEF process, flags, commander, worker, counters, link, tcp, history,
            AfterSend
<1>1. CASE Accept  BY <1>1, AlignmentQuiet DEF Accept
<1>2. CASE ReadCommand  BY <1>2, AlignmentQuiet DEF ReadCommand
<1>3. CASE ReadModel  BY <1>3, AlignmentQuiet DEF ReadModel
<1>4. CASE PingChecking  BY <1>4, AlignmentQuiet DEF PingChecking
<1>5. CASE Pinged  BY <1>5, AlignmentQuiet DEF Pinged
<1>6. CASE SendModel
  <2>1. run <= run  BY DEF TypeOK
  <2> QED  BY <1>6, <2>1, AlignmentQuiet DEF SendModel
<1>7. CASE ModelReceive  BY <1>7, AlignmentQuiet DEF ModelReceive
<1>8. CASE ModelTimeout  BY <1>8, AlignmentQuiet DEF ModelTimeout
<1>9. CASE StreamCommand  BY <1>9, AlignmentQuiet DEF StreamCommand
<1>10. CASE JoinStream  BY <1>10, AlignmentIdle DEF JoinStream, Joined
<1>11. CASE Launch
  <2>1. CASE joinable
    BY <1>11, <2>1, AlignmentQuiet DEF Launch
  <2>2. CASE ~joinable
    <3>1. wpc = "none"  BY <2>2 DEF AlignmentInv
    <3> QED  BY <1>11, <2>2, <3>1, AlignmentIdle DEF Launch
  <2> QED  BY <2>1, <2>2
<1>12. CASE StopCommand  BY <1>12, AlignmentQuiet DEF StopCommand
<1>13. CASE JoinStop  BY <1>13, AlignmentIdle DEF JoinStop, Joined
<1>14. CASE Stopped  BY <1>14, AlignmentQuiet DEF Stopped
<1>15. CASE Hangup  BY <1>15, AlignmentQuiet DEF Hangup
<1>16. CASE JoinClose  BY <1>16, AlignmentIdle DEF JoinClose, Joined
<1>17. CASE Close  BY <1>17, AlignmentQuiet DEF Close
<1> QED
  BY <1>1, <1>2, <1>3, <1>4, <1>5, <1>6, <1>7, <1>8, <1>9, <1>10, <1>11,
     <1>12, <1>13, <1>14, <1>15, <1>16, <1>17 DEF Commander

\* The board turns the one request in flight into the one decision in flight,
\* the link only loses, and a new process starts with nothing in flight.
LEMMA EnvironmentAlignment ==
  ASSUME TypeOK, AlignmentInv, Environment PROVE AlignmentInv'
<1> USE DEF process, flags, commander, worker, counters, link, tcp, history
<1>1. CASE ClientCommand  BY <1>1, AlignmentQuiet DEF ClientCommand
<1>2. CASE ClientClose  BY <1>2, AlignmentQuiet DEF ClientClose
<1>3. CASE BoardModel  BY <1>3, AlignmentQuiet DEF BoardModel, Answered
<1>4. CASE BoardDecision
  <2>1. PICK d \in toBoard :
          d.kind = "D" /\ toBoard' = toBoard \ {d} /\ Answered(d, "decision")
    BY <1>4 DEF BoardDecision
  <2>2. UNCHANGED <<wpc, req, got, log, run, joinable>>
    BY <1>4 DEF BoardDecision
  <2>3. CASE toHost' = toHost
    BY <2>1, <2>2, <2>3, AlignmentQuiet
  <2>4. CASE toHost' # toHost
    <3>1. Asked(d) /\ toHost' = toHost \cup {[kind |-> "decision", id |-> d.id]}
      BY <2>1, <2>4 DEF Answered, Asked
    <3>2. PrefixAligned'  BY <2>2 DEF AlignmentInv, PrefixAligned, Clean
    <3>3. NoMishap' => NoMishap
      BY <2>2 DEF NoMishap, AllClean, Clean
    <3>4. ASSUME OneInFlight PROVE OneInFlight'
      <4>1. wpc = "wait" /\ d.id = req /\ d.fits
        BY <2>1, <3>1, <3>4 DEF OneInFlight
      <4>2. \A e \in toHost : ~Decision(e)
        BY <2>1, <3>1, <3>4 DEF OneInFlight
      <4>3. \A b \in toBoard' : ~Asked(b)
        <5> SUFFICES ASSUME NEW b \in toBoard', Asked(b) PROVE FALSE
          OBVIOUS
        <5>1. b \in toBoard /\ b # d  BY <2>1
        <5>2. b.id = d.id /\ b.kind = d.kind /\ b.run = d.run /\ b.fits
          BY <5>1, <3>1, <3>4, <4>1 DEF OneInFlight, Asked
        <5>3. b \in Request /\ d \in Request  BY <5>1, <2>1 DEF TypeOK
        <5>4. b.fits = TRUE /\ d.fits = TRUE  BY <4>1, <5>2, <5>3 DEF Request
        <5> QED  BY <5>1, <5>2, <5>3, <5>4 DEF Request
      <4>4. \A e \in toHost' : Decision(e) => e.id = req
        BY <3>1, <4>1, <4>2 DEF Decision
      <4>5. \A b \in toBoard' : ~Asked(b)'
        BY <2>2, <4>3 DEF Asked
      <4> QED  BY <2>2, <4>1, <4>4, <4>5 DEF OneInFlight, Asked, Decision
    <3> QED  BY <2>1, <2>2, <3>2, <3>3, <3>4 DEF AlignmentInv
  <2> QED  BY <2>3, <2>4
<1>5. CASE LoseRequest  BY <1>5, AlignmentQuiet DEF LoseRequest
<1>6. CASE LoseReply  BY <1>6, AlignmentQuiet DEF LoseReply
<1>7. CASE Kill  BY <1>7, AlignmentQuiet DEF Kill
<1>8. CASE Restart
  <2>1. log' = log \/ log' = << >>  BY <1>8 DEF Restart
  <2>2. PrefixAligned'
    BY <2>1 DEF AlignmentInv, PrefixAligned, Clean
  <2>3. run' = run + 1 /\ toBoard' = toBoard /\ toHost' = {} /\ wpc' = "none"
    BY <1>8 DEF Restart
  <2>4. \A d \in toBoard' : d.run <= run' /\ d.run # run'
    <3> SUFFICES ASSUME NEW d \in toBoard PROVE d.run <= run + 1 /\ d.run # run + 1
      BY <2>3
    <3>1. d.run \in Nat /\ run \in Nat  BY DEF TypeOK, Request
    <3> QED  BY <3>1 DEF AlignmentInv
  <2>5. OneInFlight'
    BY <2>3, <2>4 DEF OneInFlight, Asked
  <2> QED  BY <2>2, <2>3, <2>4, <2>5 DEF AlignmentInv
<1> QED
  BY <1>1, <1>2, <1>3, <1>4, <1>5, <1>6, <1>7, <1>8 DEF Environment

\* Every decision row of the log, up to the first TIMEOUT or UNKNOWN row,
\* answers the request it was logged for: for every file and every schedule of
\* commands, losses, delays, kills and restarts.
THEOREM DecisionsAligned == Spec => []PrefixAligned
<1>1. Init => AlignmentInv
  BY DEF Init, AlignmentInv, OneInFlight, PrefixAligned
<1>2. TypeOK /\ AlignmentInv /\ [Next]_vars => AlignmentInv'
  <2> SUFFICES ASSUME TypeOK, AlignmentInv, [Next]_vars PROVE AlignmentInv'
    OBVIOUS
  <2>1. CASE Next
    BY <2>1, WorkerAlignment, CommanderAlignment, EnvironmentAlignment DEF Next
  <2>2. CASE UNCHANGED vars
    BY <2>2, AlignmentQuiet DEF vars, process, flags, worker, link
  <2> QED  BY <2>1, <2>2
<1>3. AlignmentInv => PrefixAligned
  BY DEF AlignmentInv
<1> QED  BY <1>1, <1>2, <1>3, TypeCorrect, PTL DEF Spec

-----------------------------------------------------------------------------
(* MODEL_OK: the inductive invariant and its proof.                         *)

\* As long as no model packet was given up on, there is at most one of them in
\* flight, or its ACK, and the command thread is waiting for it; the ACK is in
\* flight only once the board holds that packet's network.
OneModelInFlight ==
  /\ \A d \in toBoard : d.kind = "M" =>
       /\ cpc = "modelWait" /\ d.id = nmodel /\ d.run = run
       /\ d.fits <=> cmd.arg # "short"
  /\ \A d \in toHost : d.kind = "ack" =>
       cpc = "modelWait" /\ d.id = nmodel /\ boardModel = nmodel
  /\ \A d \in toBoard, e \in toHost : ~(d.kind = "M" /\ e.kind = "ack")

ModelInv ==
  /\ cpc = "modelWait" => okModel = 0
  /\ ~unanswered => OneModelInFlight
  /\ ModelOkTruth

\* A step that puts no model packet and no ACK in flight, and leaves the wait
\* for an ACK alone, preserves it.
LEMMA ModelQuiet ==
  ASSUME ModelInv,
         UNCHANGED <<okModel, unanswered, boardModel, nmodel, run>>,
         (cpc = "modelWait") <=> (cpc' = "modelWait"),
         cpc = "modelWait" => cmd' = cmd,
         \A d \in toBoard' : d \in toBoard \/ d.kind # "M",
         \A d \in toHost' : d \in toHost \/ d.kind # "ack"
  PROVE  ModelInv'
<1>1. ~unanswered' => OneModelInFlight'
  BY DEF ModelInv, OneModelInFlight
<1> QED  BY <1>1 DEF ModelInv, ModelOkTruth

\* The worker puts no model packet and no ACK in flight.
LEMMA WorkerModel == ASSUME ModelInv, Worker PROVE ModelInv'
<1> USE ModelQuiet
    DEF process, flags, commander, worker, counters, link, tcp, history,
        AfterSend
<1>1. CASE WorkerNoFile  BY <1>1 DEF WorkerNoFile
<1>2. CASE WorkerOpenLog  BY <1>2 DEF WorkerOpenLog
<1>3. CASE WorkerBlank  BY <1>3 DEF WorkerBlank
<1>4. CASE WorkerRequest  BY <1>4 DEF WorkerRequest
<1>5. CASE WorkerReceive  BY <1>5 DEF WorkerReceive
<1>6. CASE WorkerTimeout  BY <1>6 DEF WorkerTimeout
<1>7. CASE WorkerLog  BY <1>7 DEF WorkerLog
<1>8. CASE WorkerLeaveLoop  BY <1>8 DEF WorkerLeaveLoop
<1>9. CASE WorkerFinish  BY <1>9 DEF WorkerFinish
<1>10. CASE WorkerClear  BY <1>10 DEF WorkerClear
<1> QED
  BY <1>1, <1>2, <1>3, <1>4, <1>5, <1>6, <1>7, <1>8, <1>9, <1>10 DEF Worker

\* The command thread sends one model packet, and answers MODEL_OK only to its
\* ACK.
LEMMA CommanderModel == ASSUME TypeOK, ModelInv, Commander PROVE ModelInv'
<1> USE DEF process, flags, commander, worker, counters, link, tcp, history,
            AfterSend
<1>1. CASE Accept  BY <1>1, ModelQuiet DEF Accept
<1>2. CASE ReadCommand
  <2>1. cpc' # "modelWait"  BY <1>2 DEF ReadCommand
  <2> QED  BY <1>2, <2>1, ModelQuiet DEF ReadCommand
<1>3. CASE ReadModel  BY <1>3, ModelQuiet DEF ReadModel
<1>4. CASE PingChecking  BY <1>4, ModelQuiet DEF PingChecking
<1>5. CASE Pinged  BY <1>5, ModelQuiet DEF Pinged
<1>6. CASE SendModel
  <2>1. ASSUME OneModelInFlight PROVE OneModelInFlight'
    <3>1. /\ \A d \in toBoard : d.kind # "M"
          /\ \A d \in toHost : d.kind # "ack"
      BY <1>6, <2>1 DEF SendModel, OneModelInFlight
    <3> DEFINE new == [kind |-> "M", id |-> nmodel + 1,
                       fits |-> cmd.arg # "short", run |-> run]
    <3>2. /\ toBoard' = toBoard \cup {new}
          /\ cpc' = "modelWait" /\ nmodel' = nmodel + 1
          /\ UNCHANGED <<cmd, run, toHost>>
      BY <1>6 DEF SendModel
    <3>3. \A d \in toBoard' : d.kind = "M" => d = new
      BY <3>1, <3>2
    <3>4. new.id = nmodel' /\ new.run = run'
      BY <3>2
    <3>5. new.fits = (cmd'.arg # "short")
      BY <3>2
    <3> HIDE DEF new
    <3>6. \A d \in toBoard' : d.kind = "M" =>
            /\ d.id = nmodel' /\ d.run = run'
            /\ d.fits <=> cmd'.arg # "short"
      BY <3>3, <3>4, <3>5
    <3>7. \A d \in toHost' : d.kind # "ack"
      BY <3>1, <3>2
    <3> QED  BY <3>2, <3>6, <3>7 DEF OneModelInFlight
  <2> QED  BY <1>6, <2>1 DEF SendModel, ModelInv, ModelOkTruth
<1>7. CASE ModelReceive
  <2>1. PICK d \in toHost :
          /\ toHost' = toHost \ {d}
          /\ okModel' = IF IsAck(d) THEN nmodel ELSE okModel
          /\ unanswered' = (unanswered \/ ~IsAck(d))
    BY <1>7 DEF ModelReceive
  <2>2. /\ cpc = "modelWait" /\ cpc' = "idle"
        /\ UNCHANGED <<toBoard, boardModel, cmd, nmodel, run>>
    BY <1>7 DEF ModelReceive
  <2>3. ASSUME ~unanswered'
        PROVE  OneModelInFlight' /\ okModel' = nmodel /\ boardModel' = nmodel
    <3>1. ~unanswered /\ d.kind = "ack"  BY <2>1, <2>3 DEF IsAck
    <3>2. d.id = nmodel /\ boardModel = nmodel /\ \A b \in toBoard : b.kind # "M"
      BY <2>1, <3>1 DEF ModelInv, OneModelInFlight
    <3>3. \A e \in toHost' : e.kind # "ack"
      <4> SUFFICES ASSUME NEW e \in toHost', e.kind = "ack" PROVE FALSE
        OBVIOUS
      <4>1. e \in toHost /\ e # d  BY <2>1
      <4>2. e.id = nmodel  BY <3>1, <4>1 DEF ModelInv, OneModelInFlight
      <4>3. e \in Reply /\ d \in Reply  BY <4>1 DEF TypeOK
      <4> QED  BY <3>1, <3>2, <4>1, <4>2, <4>3 DEF Reply
    <3>4. okModel' = nmodel  BY <2>1, <3>1 DEF IsAck
    <3> QED  BY <2>2, <3>2, <3>3, <3>4 DEF OneModelInFlight
  <2> QED  BY <2>2, <2>3 DEF ModelInv, ModelOkTruth
<1>8. CASE ModelTimeout  BY <1>8 DEF ModelTimeout, ModelInv, ModelOkTruth
<1>9. CASE StreamCommand  BY <1>9, ModelQuiet DEF StreamCommand
<1>10. CASE JoinStream  BY <1>10, ModelQuiet DEF JoinStream
<1>11. CASE Launch  BY <1>11, ModelQuiet DEF Launch
<1>12. CASE StopCommand
  <2>1. cpc' # "modelWait"  BY <1>12 DEF StopCommand
  <2> QED  BY <1>12, <2>1, ModelQuiet DEF StopCommand
<1>13. CASE JoinStop  BY <1>13, ModelQuiet DEF JoinStop
<1>14. CASE Stopped  BY <1>14, ModelQuiet DEF Stopped
<1>15. CASE Hangup  BY <1>15, ModelQuiet DEF Hangup
<1>16. CASE JoinClose  BY <1>16, ModelQuiet DEF JoinClose
<1>17. CASE Close  BY <1>17, ModelQuiet DEF Close
<1> QED
  BY <1>1, <1>2, <1>3, <1>4, <1>5, <1>6, <1>7, <1>8, <1>9, <1>10, <1>11,
     <1>12, <1>13, <1>14, <1>15, <1>16, <1>17 DEF Commander

\* The board acknowledges only a model packet it has loaded; losing a packet or
\* its ACK, and a restart while one is awaited, only leave less to show.
LEMMA EnvironmentModel == ASSUME TypeOK, ModelInv, Environment PROVE ModelInv'
<1> USE DEF process, flags, commander, worker, counters, link, tcp, history
<1>1. CASE ClientCommand  BY <1>1, ModelQuiet DEF ClientCommand
<1>2. CASE ClientClose  BY <1>2, ModelQuiet DEF ClientClose
<1>3. CASE BoardModel
  <2>1. PICK d \in toBoard :
          /\ d.kind = "M"
          /\ toBoard' = toBoard \ {d}
          /\ IF d.fits
             THEN boardModel' = d.id /\ Answered(d, "ack")
             ELSE UNCHANGED <<boardModel, toHost>>
    BY <1>3 DEF BoardModel
  <2>2. UNCHANGED <<cpc, cmd, okModel, unanswered, nmodel, run>>
    BY <1>3 DEF BoardModel
  <2>3. CASE ~d.fits
    BY <2>1, <2>2, <2>3, ModelQuiet
  <2>4. CASE d.fits
    <3>1. ASSUME ~unanswered PROVE OneModelInFlight' /\ okModel' = 0
      <4>1. cpc = "modelWait" /\ d.id = nmodel /\ d.run = run /\ okModel = 0
        BY <2>1, <3>1 DEF ModelInv, OneModelInFlight
      <4>2. \A b \in toBoard' : b.kind # "M"
        <5> SUFFICES ASSUME NEW b \in toBoard', b.kind = "M" PROVE FALSE
          OBVIOUS
        <5>1. b \in toBoard /\ b # d  BY <2>1
        <5>2. b.id = d.id /\ b.run = d.run /\ (b.fits <=> d.fits)
          BY <2>1, <3>1, <5>1 DEF ModelInv, OneModelInFlight
        <5>3. b \in Request /\ d \in Request  BY <5>1, <2>1 DEF TypeOK
        <5>4. b.fits = TRUE /\ d.fits = TRUE
          BY <2>4, <5>2, <5>3 DEF Request
        <5> QED  BY <2>1, <5>1, <5>2, <5>3, <5>4 DEF Request
      <4>3. boardModel' = nmodel  BY <2>1, <2>4, <4>1
      <4>4. \A e \in toHost' : e.kind = "ack" => e.id = nmodel
        BY <2>1, <2>4, <3>1, <4>1 DEF Answered, ModelInv, OneModelInFlight
      <4> QED  BY <2>2, <4>1, <4>2, <4>3, <4>4 DEF OneModelInFlight
    <3> QED  BY <2>2, <3>1 DEF ModelInv, ModelOkTruth
  <2> QED  BY <2>3, <2>4
<1>4. CASE BoardDecision  BY <1>4, ModelQuiet DEF BoardDecision, Answered
<1>5. CASE LoseRequest  BY <1>5, ModelQuiet DEF LoseRequest
<1>6. CASE LoseReply  BY <1>6, ModelQuiet DEF LoseReply
<1>7. CASE Kill  BY <1>7, ModelQuiet DEF Kill
<1>8. CASE Restart
  <2>1. /\ cpc' = "accept" /\ toHost' = {}
        /\ unanswered' = (unanswered \/ cpc = "modelWait")
        /\ UNCHANGED <<toBoard, boardModel, okModel>>
    BY <1>8 DEF Restart
  <2>2. ASSUME ~unanswered' PROVE OneModelInFlight'
    <3>1. \A d \in toBoard : d.kind # "M"
      BY <2>1, <2>2 DEF ModelInv, OneModelInFlight
    <3> QED  BY <2>1, <3>1 DEF OneModelInFlight
  <2> QED  BY <2>1, <2>2 DEF ModelInv, ModelOkTruth
<1> QED
  BY <1>1, <1>2, <1>3, <1>4, <1>5, <1>6, <1>7, <1>8 DEF Environment

\* MODEL_OK is the truth as long as every model packet was answered: the board
\* then computes with the network just sent, whatever streams run beside it.
THEOREM ModelOkIsTrue == Spec => []ModelOkTruth
<1>1. Init => ModelInv
  BY DEF Init, ModelInv, OneModelInFlight, ModelOkTruth
<1>2. TypeOK /\ ModelInv /\ [Next]_vars => ModelInv'
  <2> SUFFICES ASSUME TypeOK, ModelInv, [Next]_vars PROVE ModelInv'
    OBVIOUS
  <2>1. CASE Next
    BY <2>1, WorkerModel, CommanderModel, EnvironmentModel DEF Next
  <2>2. CASE UNCHANGED vars
    BY <2>2, ModelQuiet
    DEF vars, process, commander, counters, link, history
  <2> QED  BY <2>1, <2>2
<1>3. ModelInv => ModelOkTruth
  BY DEF ModelInv
<1> QED  BY <1>1, <1>2, <1>3, TypeCorrect, PTL DEF Spec

-----------------------------------------------------------------------------
(* The flag, the thread object and the worker.                              *)

\* A worker exists exactly while the thread object is joinable, and none does
\* where the command thread accepts a connection, closes one or reports a stop.
Control ==
  /\ joinable <=> wpc # "none"
  /\ FlagMatchesWorker
  /\ Running /\ cpc \in {"accept", "close", "stopped"} => wpc = "none"

\* A message leaves a running process running, or ends it.
LEMMA SendRuns ==
  ASSUME NEW kind, NEW from, Send(kind, from), Running'
  PROVE  Running
BY DEF Send, Running

\* The worker's steps preserve it: it ends only after it reset the flag.
LEMMA WorkerControl == ASSUME Control, Worker PROVE Control'
<1> USE DEF process, flags, commander, worker, Control, FlagMatchesWorker
<1>1. CASE WorkerNoFile  BY <1>1, SendRuns DEF WorkerNoFile
<1>2. CASE WorkerOpenLog  BY <1>2 DEF WorkerOpenLog, Running
<1>3. CASE WorkerBlank  BY <1>3 DEF WorkerBlank, Running
<1>4. CASE WorkerRequest  BY <1>4 DEF WorkerRequest, Running
<1>5. CASE WorkerReceive  BY <1>5, SendRuns DEF WorkerReceive
<1>6. CASE WorkerTimeout  BY <1>6, SendRuns DEF WorkerTimeout
<1>7. CASE WorkerLog  BY <1>7 DEF WorkerLog, Running
<1>8. CASE WorkerLeaveLoop  BY <1>8 DEF WorkerLeaveLoop, Running
<1>9. CASE WorkerFinish  BY <1>9, SendRuns DEF WorkerFinish, Running
<1>10. CASE WorkerClear  BY <1>10 DEF WorkerClear, StreamingOff, Running
<1> QED
  BY <1>1, <1>2, <1>3, <1>4, <1>5, <1>6, <1>7, <1>8, <1>9, <1>10 DEF Worker

\* The command thread's steps preserve it: it starts a worker with the flag
\* set, and only after a join.
LEMMA CommanderControl == ASSUME Control, Commander PROVE Control'
<1> USE DEF process, flags, commander, worker, Control, FlagMatchesWorker
<1>1. CASE Accept  BY <1>1 DEF Accept, Running
<1>2. CASE ReadCommand
  <2>1. cpc' \in {"idle", "model", "ping", "stop", "stream"}  BY <1>2 DEF ReadCommand
  <2> QED  BY <1>2, <2>1 DEF ReadCommand, Running
<1>3. CASE ReadModel  BY <1>3, SendRuns DEF ReadModel, Running
<1>4. CASE PingChecking  BY <1>4, SendRuns DEF PingChecking
<1>5. CASE Pinged  BY <1>5, SendRuns DEF Pinged
<1>6. CASE SendModel  BY <1>6 DEF SendModel, Running
<1>7. CASE ModelReceive  BY <1>7, SendRuns DEF ModelReceive
<1>8. CASE ModelTimeout  BY <1>8, SendRuns DEF ModelTimeout
<1>9. CASE StreamCommand  BY <1>9 DEF StreamCommand, Running
<1>10. CASE JoinStream  BY <1>10 DEF JoinStream, Joined, Running
<1>11. CASE Launch  BY <1>11 DEF Launch, Running
<1>12. CASE StopCommand
  <2>1. CASE ~isStreaming  BY <1>12, <2>1 DEF StopCommand, Running
  <2>2. CASE isStreaming /\ joinable  BY <1>12, <2>2 DEF StopCommand, Running
  <2>3. CASE isStreaming /\ ~joinable  BY <1>12, <2>3 DEF StopCommand, Running
  <2> QED  BY <2>1, <2>2, <2>3
<1>13. CASE JoinStop  BY <1>13 DEF JoinStop, Joined, Running
<1>14. CASE Stopped  BY <1>14, SendRuns DEF Stopped
<1>15. CASE Hangup  BY <1>15 DEF Hangup, Running
<1>16. CASE JoinClose  BY <1>16 DEF JoinClose, Joined, Running
<1>17. CASE Close  BY <1>17 DEF Close, Running
<1> QED
  BY <1>1, <1>2, <1>3, <1>4, <1>5, <1>6, <1>7, <1>8, <1>9, <1>10, <1>11,
     <1>12, <1>13, <1>14, <1>15, <1>16, <1>17 DEF Commander

\* What the client, the board, the network and a kill do preserves it.
LEMMA EnvironmentControl == ASSUME Control, Environment PROVE Control'
<1> USE DEF process, flags, commander, worker, Control, FlagMatchesWorker, Running
<1>1. CASE ClientCommand  BY <1>1 DEF ClientCommand
<1>2. CASE ClientClose  BY <1>2 DEF ClientClose
<1>3. CASE BoardModel  BY <1>3 DEF BoardModel
<1>4. CASE BoardDecision  BY <1>4 DEF BoardDecision
<1>5. CASE LoseRequest  BY <1>5 DEF LoseRequest
<1>6. CASE LoseReply  BY <1>6 DEF LoseReply
<1>7. CASE Kill  BY <1>7 DEF Kill
<1>8. CASE Restart  BY <1>8 DEF Restart
<1> QED
  BY <1>1, <1>2, <1>3, <1>4, <1>5, <1>6, <1>7, <1>8 DEF Environment

\* It holds in every state.
LEMMA ControlHolds == Spec => []Control
<1>1. Init => Control
  BY DEF Init, Control, FlagMatchesWorker
<1>2. Control /\ [Next]_vars => Control'
  <2> SUFFICES ASSUME Control, [Next]_vars PROVE Control'
    OBVIOUS
  <2>1. CASE Next
    BY <2>1, WorkerControl, CommanderControl, EnvironmentControl DEF Next
  <2>2. CASE UNCHANGED vars
    BY <2>2 DEF vars, process, flags, commander, worker, Control,
                FlagMatchesWorker, Running
  <2> QED  BY <2>1, <2>2
<1> QED  BY <1>1, <1>2, PTL DEF Spec

\* is_streaming never misleads the command thread: it is on only while a worker
\* is there to reset it, and off while one streams only inside a join.
THEOREM FlagAndWorkerAgree == Spec => []FlagMatchesWorker
<1>1. Control => FlagMatchesWorker  BY DEF Control
<1> QED  BY <1>1, ControlHolds, PTL

-----------------------------------------------------------------------------
(* The messages.                                                            *)

\* What was said so far is about no later stream than the current one.
Known == \A i \in 1..Len(toClient) : toClient[i].job.n <= job.n

\* A worker serves the connection there is, and its stream is later than all
\* that were reported as stopped.
Owned ==
  wpc # "none" =>
    /\ job.conn = conn
    /\ \A i \in 1..Len(toClient) :
         toClient[i].kind = "STOPPED" => toClient[i].job.n < job.n

Messages == Known /\ StopIsFinal /\ StatusToOwner
MessagesInv == Messages /\ (Running => Owned)

\* Streams are numbered.
LEMMA StreamNumbers ==
  ASSUME TypeOK
  PROVE  job.n \in Nat /\ \A i \in 1..Len(toClient) : toClient[i].job.n \in Nat
<1>1. \A j \in Job : j.n \in Nat  BY DEF Job
<1>2. \A m \in Status : m.job \in Job  BY DEF Status
<1>3. job \in Job /\ toClient \in Seq(Status)  BY DEF TypeOK
<1>4. \A i \in 1..Len(toClient) : toClient[i] \in Status  BY <1>3
<1> QED  BY <1>1, <1>2, <1>3, <1>4

\* A step that sends nothing and starts no worker preserves it.
LEMMA MessagesQuiet ==
  ASSUME MessagesInv, UNCHANGED <<toClient, conn, job>>,
         Running' => Running,
         wpc' # "none" => wpc # "none"
  PROVE  MessagesInv'
BY DEF MessagesInv, Messages, Known, Owned, StopIsFinal, StatusToOwner

\* A message of the running worker, or of the command thread while STOPPED is
\* sent only without a worker, preserves it.
LEMMA MessagesSend ==
  ASSUME TypeOK, MessagesInv, Running,
         NEW kind \in StatusKind, NEW from \in {"command", "worker"},
         Send(kind, from), UNCHANGED <<conn, job>>,
         from = "worker" => wpc # "none" /\ kind # "STOPPED",
         kind = "STOPPED" => wpc = "none",
         wpc' # "none" => wpc # "none"
  PROVE  MessagesInv'
<1> DEFINE s == [kind |-> kind, from |-> from, job |-> job]
<1>1. CASE UNCHANGED toClient
  BY <1>1, MessagesQuiet
<1>2. CASE toClient' = Append(toClient, s)
  <2>1. s \in Status /\ toClient \in Seq(Status) /\ job.n \in Nat
    BY DEF TypeOK, Status, Job
  <2>2. /\ Len(toClient') = Len(toClient) + 1
        /\ toClient'[Len(toClient) + 1] = s
        /\ \A i \in 1..Len(toClient) : toClient'[i] = toClient[i]
    BY <1>2, <2>1
  <2>3. s.kind = kind /\ s.from = from /\ s.job = job
    OBVIOUS
  <2> HIDE DEF s
  <2>4. Known' /\ StatusToOwner'
    <3>1. from = "worker" => job.conn = conn
      BY DEF MessagesInv, Owned
    <3> QED
      BY <2>1, <2>2, <2>3, <3>1 DEF MessagesInv, Messages, Known, StatusToOwner
  <2>5. StopIsFinal'
    <3> SUFFICES ASSUME NEW i \in 1..Len(toClient'), NEW j \in 1..Len(toClient'),
                        i < j, toClient'[i].kind = "STOPPED",
                        toClient'[j].from = "worker"
                 PROVE  toClient'[j].job.n > toClient'[i].job.n
      BY DEF StopIsFinal
    <3>1. i \in 1..Len(toClient)  BY <2>1, <2>2
    <3>2. CASE j \in 1..Len(toClient)
      BY <2>2, <3>1, <3>2 DEF MessagesInv, Messages, StopIsFinal
    <3>3. CASE j = Len(toClient) + 1
      <4>1. wpc # "none"  BY <2>2, <2>3, <3>3
      <4>2. toClient[i].kind = "STOPPED"  BY <2>2, <3>1
      <4>3. toClient[i].job.n < job.n
        BY <3>1, <4>1, <4>2 DEF MessagesInv, Owned
      <4>4. toClient[i].job.n \in Nat
        BY <3>1, StreamNumbers
      <4> QED  BY <2>1, <2>2, <2>3, <3>1, <3>3, <4>3, <4>4
    <3> QED  BY <2>1, <2>2, <3>2, <3>3
  <2>6. Owned'
    BY <2>1, <2>2, <2>3 DEF MessagesInv, Owned
  <2> QED  BY <2>4, <2>5, <2>6 DEF MessagesInv, Messages
<1> QED  BY <1>1, <1>2 DEF Send

\* The worker's messages are about its stream, which no STOPPED was about.
LEMMA WorkerMessages ==
  ASSUME TypeOK, Control, MessagesInv, Worker PROVE MessagesInv'
<1> USE DEF process, flags, commander, tcp, AfterSend, Running
<1>1. {"ERROR_FILE", "DECISION", "UNKNOWN", "TIMEOUT", "STREAM_FINISHED"}
        \subseteq StatusKind \ {"STOPPED"}
  BY DEF StatusKind
<1>2. CASE WorkerNoFile  BY <1>1, <1>2, MessagesSend DEF WorkerNoFile
<1>3. CASE WorkerOpenLog  BY <1>3, MessagesQuiet DEF WorkerOpenLog
<1>4. CASE WorkerBlank  BY <1>4, MessagesQuiet DEF WorkerBlank
<1>5. CASE WorkerRequest  BY <1>5, MessagesQuiet DEF WorkerRequest
<1>6. CASE WorkerReceive
  <2>1. PICK d \in toHost :
          Send(IF d.kind = "decision" THEN "DECISION" ELSE "UNKNOWN", "worker")
    BY <1>6 DEF WorkerReceive
  <2>2. wpc = "wait" /\ UNCHANGED <<conn, job>> /\ Running
    BY <1>6 DEF WorkerReceive
  <2> QED  BY <1>1, <2>1, <2>2, MessagesSend
<1>7. CASE WorkerTimeout  BY <1>1, <1>7, MessagesSend DEF WorkerTimeout
<1>8. CASE WorkerLog  BY <1>8, MessagesQuiet DEF WorkerLog
<1>9. CASE WorkerLeaveLoop  BY <1>9, MessagesQuiet DEF WorkerLeaveLoop
<1>10. CASE WorkerFinish
  <2>1. CASE isStreaming
    BY <1>1, <1>10, <2>1, MessagesSend DEF WorkerFinish
  <2>2. CASE ~isStreaming
    BY <1>10, <2>2, MessagesQuiet DEF WorkerFinish
  <2> QED  BY <2>1, <2>2
<1>11. CASE WorkerClear  BY <1>11, MessagesQuiet DEF WorkerClear
<1> QED
  BY <1>2, <1>3, <1>4, <1>5, <1>6, <1>7, <1>8, <1>9, <1>10, <1>11 DEF Worker

\* The command thread sends STOPPED without a worker, and numbers each stream
\* it starts anew.
LEMMA CommanderMessages ==
  ASSUME TypeOK, Control, MessagesInv, Commander PROVE MessagesInv'
<1> USE DEF process, flags, worker, tcp, AfterSend, Running
<1>1. /\ {"ERROR_EMPTY_MODEL", "PING_CHECKING", "PING_OK",
           "WARNING_PING_FAILED", "MODEL_OK", "TIMEOUT"}
           \subseteq StatusKind \ {"STOPPED"}
      /\ "STOPPED" \in StatusKind
  BY DEF StatusKind
<1>2. CASE Accept
  <2>1. wpc = "none" /\ wpc' = wpc /\ toClient' = << >>
    BY <1>2 DEF Accept, Control
  <2> QED
    BY <2>1 DEF MessagesInv, Messages, Known, Owned, StopIsFinal, StatusToOwner
<1>3. CASE ReadCommand  BY <1>3, MessagesQuiet DEF ReadCommand
<1>4. CASE ReadModel
  <2>1. CASE cmd.arg = "empty"
    BY <1>1, <1>4, <2>1, MessagesSend DEF ReadModel
  <2>2. CASE cmd.arg # "empty"
    BY <1>4, <2>2, MessagesQuiet DEF ReadModel
  <2> QED  BY <2>1, <2>2
<1>5. CASE PingChecking  BY <1>1, <1>5, MessagesSend DEF PingChecking
<1>6. CASE Pinged  BY <1>1, <1>6, MessagesSend DEF Pinged
<1>7. CASE SendModel  BY <1>7, MessagesQuiet DEF SendModel
<1>8. CASE ModelReceive
  <2>1. PICK d \in toHost :
          Send(IF IsAck(d) THEN "MODEL_OK" ELSE "TIMEOUT", "command")
    BY <1>8 DEF ModelReceive
  <2>2. UNCHANGED <<conn, job, wpc>> /\ Running
    BY <1>8 DEF ModelReceive
  <2> QED  BY <1>1, <2>1, <2>2, MessagesSend
<1>9. CASE ModelTimeout  BY <1>1, <1>9, MessagesSend DEF ModelTimeout
<1>10. CASE StreamCommand  BY <1>10, MessagesQuiet DEF StreamCommand
<1>11. CASE JoinStream  BY <1>11, MessagesQuiet DEF JoinStream, Joined
<1>12. CASE Launch
  <2>1. CASE joinable
    BY <1>12, <2>1, MessagesQuiet DEF Launch
  <2>2. CASE ~joinable
    <3>1. /\ job'.n = job.n + 1 /\ job'.conn = conn
          /\ UNCHANGED <<toClient, conn, alive>>
      BY <1>12, <2>2 DEF Launch
    <3>2. job.n \in Nat /\ \A i \in 1..Len(toClient) : toClient[i].job.n \in Nat
      BY StreamNumbers
    <3>3. \A i \in 1..Len(toClient) : toClient[i].job.n < job'.n
      BY <3>1, <3>2 DEF MessagesInv, Messages, Known
    <3> QED
      BY <3>1, <3>2, <3>3
      DEF MessagesInv, Messages, Known, Owned, StopIsFinal, StatusToOwner
  <2> QED  BY <2>1, <2>2
<1>13. CASE StopCommand  BY <1>13, MessagesQuiet DEF StopCommand
<1>14. CASE JoinStop  BY <1>14, MessagesQuiet DEF JoinStop, Joined
<1>15. CASE Stopped
  <2>1. wpc = "none"  BY <1>15 DEF Stopped, Control
  <2> QED  BY <1>1, <1>15, <2>1, MessagesSend DEF Stopped
<1>16. CASE Hangup  BY <1>16, MessagesQuiet DEF Hangup
<1>17. CASE JoinClose  BY <1>17, MessagesQuiet DEF JoinClose, Joined
<1>18. CASE Close  BY <1>18, MessagesQuiet DEF Close
<1> QED
  BY <1>2, <1>3, <1>4, <1>5, <1>6, <1>7, <1>8, <1>9, <1>10, <1>11, <1>12,
     <1>13, <1>14, <1>15, <1>16, <1>17, <1>18 DEF Commander

\* What the client, the board, the network and a kill do says nothing.
LEMMA EnvironmentMessages ==
  ASSUME MessagesInv, Environment PROVE MessagesInv'
<1> USE DEF process, worker, tcp, Running
<1>1. CASE ClientCommand  BY <1>1, MessagesQuiet DEF ClientCommand
<1>2. CASE ClientClose  BY <1>2, MessagesQuiet DEF ClientClose
<1>3. CASE BoardModel  BY <1>3, MessagesQuiet DEF BoardModel
<1>4. CASE BoardDecision  BY <1>4, MessagesQuiet DEF BoardDecision
<1>5. CASE LoseRequest  BY <1>5, MessagesQuiet DEF LoseRequest
<1>6. CASE LoseReply  BY <1>6, MessagesQuiet DEF LoseReply
<1>7. CASE Kill  BY <1>7, MessagesQuiet DEF Kill
<1>8. CASE Restart
  <2>1. toClient' = << >> /\ wpc' = "none"  BY <1>8 DEF Restart
  <2> QED
    BY <2>1 DEF MessagesInv, Messages, Known, Owned, StopIsFinal, StatusToOwner
<1> QED
  BY <1>1, <1>2, <1>3, <1>4, <1>5, <1>6, <1>7, <1>8 DEF Environment

\* It holds in every state.
LEMMA MessagesHold == Spec => []MessagesInv
<1>1. Init => MessagesInv
  BY DEF Init, MessagesInv, Messages, Known, Owned, StopIsFinal, StatusToOwner
<1>2. TypeOK /\ Control /\ MessagesInv /\ [Next]_vars => MessagesInv'
  <2> SUFFICES ASSUME TypeOK, Control, MessagesInv, [Next]_vars
               PROVE  MessagesInv'
    OBVIOUS
  <2>1. CASE Next
    BY <2>1, WorkerMessages, CommanderMessages, EnvironmentMessages DEF Next
  <2>2. CASE UNCHANGED vars
    BY <2>2, MessagesQuiet DEF vars, process, worker, tcp, Running
  <2> QED  BY <2>1, <2>2
<1> QED  BY <1>1, <1>2, TypeCorrect, ControlHolds, PTL DEF Spec

\* After STOPPED the frontend hears nothing more of the stopped stream.
THEOREM StoppedIsFinal == Spec => []StopIsFinal
<1>1. MessagesInv => StopIsFinal  BY DEF MessagesInv, Messages
<1> QED  BY <1>1, MessagesHold, PTL

\* No worker reports to a later connection than the one that started it.
THEOREM StatusReachesOwner == Spec => []StatusToOwner
<1>1. MessagesInv => StatusToOwner  BY DEF MessagesInv, Messages
<1> QED  BY <1>1, MessagesHold, PTL

-----------------------------------------------------------------------------
(* The log.                                                                 *)

\* A worker that is past opening the log has its header there, what it waits for
\* is the request sent last, and no row is from a later start of the engine.
LogInv ==
  /\ wpc \in {"loop", "wait", "log"} => log # << >>
  /\ wpc \in {"wait", "log"} => req = nreq
  /\ \A i \in 1..Len(log) : log[i].run <= run
  /\ LogComplete

\* Rows are numbered.
LEMMA RowNumbers ==
  ASSUME TypeOK
  PROVE  \A i \in 1..Len(log) : log[i].run \in Nat /\ log[i].req \in Nat
<1>1. \A r \in Row : r.run \in Nat /\ r.req \in Nat  BY DEF Row
<1>2. \A i \in 1..Len(log) : log[i] \in Row  BY DEF TypeOK
<1> QED  BY <1>1, <1>2

\* A step that neither sends a request nor writes to the log, and leaves the
\* worker on the same side of both, preserves it.
LEMMA LogQuiet ==
  ASSUME LogInv, UNCHANGED <<log, nreq, run, req>>,
         (wpc' \in {"wait", "log"}) <=> (wpc \in {"wait", "log"}),
         wpc' = "loop" => wpc \in {"loop", "wait", "log"}
  PROVE  LogInv'
<1>1. LogComplete'  BY DEF LogInv, LogComplete
<1> QED  BY <1>1 DEF LogInv

\* The worker writes the header first, and one row per request it ends.
LEMMA WorkerLogged == ASSUME TypeOK, LogInv, Worker PROVE LogInv'
<1> USE DEF process, counters, AfterSend
<1>1. CASE WorkerNoFile  BY <1>1, LogQuiet DEF WorkerNoFile
<1>2. CASE WorkerOpenLog
  <2>1. CASE log = << >>
    <3>1. log' = <<Header>> /\ wpc' = "loop" /\ UNCHANGED run
      BY <1>2, <2>1 DEF WorkerOpenLog
    <3>2. Len(log') = 1 /\ log'[1] = Header /\ log' # << >>  BY <3>1
    <3>3. Header.kind = "header" /\ Header.run = 0  BY DEF Header
    <3>4. run \in Nat  BY DEF TypeOK
    <3>5. LogComplete'
      <4>1. \A i \in 1..Len(log') : i = 1  BY <3>2
      <4> QED  BY <3>2, <3>3, <4>1 DEF LogComplete
    <3> QED  BY <3>1, <3>2, <3>3, <3>4, <3>5 DEF LogInv
  <2>2. CASE log # << >>
    <3>1. LogComplete'
      BY <1>2, <2>2 DEF WorkerOpenLog, LogInv, LogComplete
    <3> QED  BY <1>2, <2>2, <3>1 DEF WorkerOpenLog, LogInv
  <2> QED  BY <2>1, <2>2
<1>3. CASE WorkerBlank  BY <1>3, LogQuiet DEF WorkerBlank
<1>4. CASE WorkerRequest
  <2>1. /\ wpc = "loop" /\ wpc' = "wait" /\ nreq' = nreq + 1 /\ req' = nreq + 1
        /\ UNCHANGED <<log, run>>
    BY <1>4 DEF WorkerRequest
  <2>2. LogComplete'
    <3> SUFFICES ASSUME NEW i \in 1..Len(log)
                 PROVE  /\ (log[i].kind = "header") <=> (i = 1)
                        /\ (i > 1 /\ log[i].run = run) =>
                             log[i].req = nreq' - (Len(log) - i) - 1
      BY <2>1 DEF LogComplete
    <3>1. /\ (log[i].kind = "header") <=> (i = 1)
          /\ (i > 1 /\ log[i].run = run) => log[i].req = nreq - (Len(log) - i) - 0
      BY <2>1 DEF LogInv, LogComplete
    <3>2. nreq \in Nat /\ Len(log) \in Nat  BY DEF TypeOK
    <3> QED  BY <2>1, <3>1, <3>2
  <2> QED  BY <2>1, <2>2 DEF LogInv
<1>5. CASE WorkerReceive  BY <1>5, LogQuiet DEF WorkerReceive
<1>6. CASE WorkerTimeout  BY <1>6, LogQuiet DEF WorkerTimeout
<1>7. CASE WorkerLog
  <2> DEFINE row == RowOf(got)
  <2>1. /\ wpc = "log" /\ wpc' = "loop" /\ log' = Append(log, row)
        /\ UNCHANGED <<nreq, req, run>>
    BY <1>7 DEF WorkerLog, Logged
  <2>2. row.kind # "header" /\ row.req = req /\ row.run = run
    BY DEF RowOf
  <2>3. log # << >> /\ req = nreq  BY <2>1 DEF LogInv
  <2>4. log \in Seq(Row) /\ nreq \in Nat /\ run \in Nat  BY DEF TypeOK
  <2> HIDE DEF row
  <2>5. /\ Len(log) \in Nat \ {0} /\ Len(log') = Len(log) + 1
        /\ log'[Len(log) + 1] = row
        /\ \A i \in 1..Len(log) : log'[i] = log[i]
    BY <2>1, <2>3, <2>4
  <2>6. LogComplete'
    <3> SUFFICES ASSUME NEW i \in 1..Len(log')
                 PROVE  /\ (log'[i].kind = "header") <=> (i = 1)
                        /\ (i > 1 /\ log'[i].run = run) =>
                             log'[i].req = nreq - (Len(log') - i) - 0
      BY <2>1 DEF LogComplete
    <3>1. CASE i \in 1..Len(log)
      <4>1. /\ (log[i].kind = "header") <=> (i = 1)
            /\ (i > 1 /\ log[i].run = run) => log[i].req = nreq - (Len(log) - i) - 1
        BY <2>1, <3>1 DEF LogInv, LogComplete
      <4> QED  BY <2>4, <2>5, <3>1, <4>1
    <3>2. CASE i = Len(log) + 1
      BY <2>2, <2>3, <2>4, <2>5, <3>2
    <3> QED  BY <2>5, <3>1, <3>2
  <2>7. \A i \in 1..Len(log') : log'[i].run <= run'
    BY <2>1, <2>2, <2>4, <2>5 DEF LogInv
  <2>8. log' # << >>  BY <2>5
  <2> QED  BY <2>1, <2>6, <2>7, <2>8 DEF LogInv
<1>8. CASE WorkerLeaveLoop  BY <1>8, LogQuiet DEF WorkerLeaveLoop
<1>9. CASE WorkerFinish  BY <1>9, LogQuiet DEF WorkerFinish
<1>10. CASE WorkerClear  BY <1>10, LogQuiet DEF WorkerClear
<1> QED
  BY <1>1, <1>2, <1>3, <1>4, <1>5, <1>6, <1>7, <1>8, <1>9, <1>10 DEF Worker

\* The command thread sends no request and writes no row.
LEMMA CommanderLogged == ASSUME Control, LogInv, Commander PROVE LogInv'
<1> USE LogQuiet DEF process, worker, counters, AfterSend
<1>1. CASE Accept  BY <1>1 DEF Accept
<1>2. CASE ReadCommand  BY <1>2 DEF ReadCommand
<1>3. CASE ReadModel  BY <1>3 DEF ReadModel
<1>4. CASE PingChecking  BY <1>4 DEF PingChecking
<1>5. CASE Pinged  BY <1>5 DEF Pinged
<1>6. CASE SendModel  BY <1>6 DEF SendModel
<1>7. CASE ModelReceive  BY <1>7 DEF ModelReceive
<1>8. CASE ModelTimeout  BY <1>8 DEF ModelTimeout
<1>9. CASE StreamCommand  BY <1>9 DEF StreamCommand
<1>10. CASE JoinStream  BY <1>10 DEF JoinStream, Joined
<1>11. CASE Launch
  <2>1. CASE joinable  BY <1>11, <2>1 DEF Launch
  <2>2. CASE ~joinable  BY <1>11, <2>2 DEF Launch, Control
  <2> QED  BY <2>1, <2>2
<1>12. CASE StopCommand  BY <1>12 DEF StopCommand
<1>13. CASE JoinStop  BY <1>13 DEF JoinStop, Joined
<1>14. CASE Stopped  BY <1>14 DEF Stopped
<1>15. CASE Hangup  BY <1>15 DEF Hangup
<1>16. CASE JoinClose  BY <1>16 DEF JoinClose, Joined
<1>17. CASE Close  BY <1>17 DEF Close
<1> QED
  BY <1>1, <1>2, <1>3, <1>4, <1>5, <1>6, <1>7, <1>8, <1>9, <1>10, <1>11,
     <1>12, <1>13, <1>14, <1>15, <1>16, <1>17 DEF Commander

\* A restart keeps the log or truncates it; the other steps outside the engine
\* leave it alone.
LEMMA EnvironmentLogged == ASSUME TypeOK, LogInv, Environment PROVE LogInv'
<1> USE DEF process, worker, counters
<1>1. CASE ClientCommand  BY <1>1, LogQuiet DEF ClientCommand
<1>2. CASE ClientClose  BY <1>2, LogQuiet DEF ClientClose
<1>3. CASE BoardModel  BY <1>3, LogQuiet DEF BoardModel
<1>4. CASE BoardDecision  BY <1>4, LogQuiet DEF BoardDecision
<1>5. CASE LoseRequest  BY <1>5, LogQuiet DEF LoseRequest
<1>6. CASE LoseReply  BY <1>6, LogQuiet DEF LoseReply
<1>7. CASE Kill  BY <1>7, LogQuiet DEF Kill
<1>8. CASE Restart
  <2>1. run' = run + 1 /\ wpc' = "none" /\ (log' = log \/ log' = << >>)
    BY <1>8 DEF Restart
  <2>2. run \in Nat  BY DEF TypeOK
  <2>3. \A i \in 1..Len(log') : log'[i].run < run'
    BY <2>1, <2>2, RowNumbers DEF LogInv
  <2>4. \A i \in 1..Len(log') : log'[i].run # run' /\ log'[i].run <= run'
    <3>1. \A i \in 1..Len(log') : log'[i].run \in Nat
      BY <2>1, RowNumbers
    <3> QED  BY <2>1, <2>2, <2>3, <3>1
  <2>5. LogComplete'
    BY <2>1, <2>4 DEF LogInv, LogComplete
  <2> QED  BY <2>1, <2>4, <2>5 DEF LogInv
<1> QED
  BY <1>1, <1>2, <1>3, <1>4, <1>5, <1>6, <1>7, <1>8 DEF Environment

\* Each request of a run has its row in the log, in order and behind one header,
\* except the one the worker is waiting for: whatever is lost, stopped, killed
\* or started again.
THEOREM LogIsComplete == Spec => []LogComplete
<1>1. Init => LogInv
  BY DEF Init, LogInv, LogComplete
<1>2. TypeOK /\ Control /\ LogInv /\ [Next]_vars => LogInv'
  <2> SUFFICES ASSUME TypeOK, Control, LogInv, [Next]_vars PROVE LogInv'
    OBVIOUS
  <2>1. CASE Next
    BY <2>1, WorkerLogged, CommanderLogged, EnvironmentLogged DEF Next
  <2>2. CASE UNCHANGED vars
    BY <2>2, LogQuiet DEF vars, process, worker, counters
  <2> QED  BY <2>1, <2>2
<1>3. LogInv => LogComplete  BY DEF LogInv
<1> QED  BY <1>1, <1>2, <1>3, TypeCorrect, ControlHolds, PTL DEF Spec
=============================================================================
