-------------------------------- MODULE Bench --------------------------------
(***************************************************************************)
(* A measurement from end to end: a stream file is made, an engine replays  *)
(* it to the board and logs the answers, and at any moment the scripts are   *)
(* run on the log.  The engine is reduced to the order of requests, replies  *)
(* and rows (HostEngine has its threads); the scripts are functions of the   *)
(* two files, so every property evaluates them on every log reached.         *)
(***************************************************************************)
EXTENDS StreamFile, ExecutionLog

CONSTANTS
  Hidden, Output,  \* two layers of the network: per neuron, weights then the bias
  AccTop,          \* 2^39 - 1, the accumulator of the core
  CoreCycles,      \* 95, what the cycle counter shows
  Stimuli,         \* calls of make_verify_stream: rows asked for, random rows
  RawFiles,        \* recorded market data
  OwnFiles,        \* stream files of other origin
  MaxRequests,     \* bound on the requests
  MaxFaults,       \* bound on the replies that are late or lost
  MaxRuns          \* bound on the starts of the engine

ASSUME BenchAssumption ==
  {MaxRequests, MaxFaults, MaxRuns, CoreCycles, AccTop} \subseteq Nat

\* Every neuron fits the layer before it, and its largest sum the accumulator
\* (64 inputs: 64 * 2^30 + 2^15 * 2^8 < 2^39).
Neurons(layer, inputs) ==
  /\ layer \in Seq(Seq(Word))
  /\ \A k \in DOMAIN layer :
       /\ Len(layer[k]) = inputs + 1
       /\ inputs * ((Top + 1) * (Top + 1)) + (Top + 1) * Scale <= AccTop
ASSUME NetworkAssumption ==
  Neurons(Hidden, Inputs) /\ Neurons(Output, Len(Hidden)) /\ Len(Output) = 3

\* The random rows are as long as the corners, and a table has as many cells in
\* every record as in the first.
ASSUME FilesAssumption ==
  /\ \A s \in Stimuli : s.n \in Nat /\ s.random \in Seq([1..NFeat -> Int])
  /\ \A r \in RawFiles :
       /\ r \in Seq(Seq(Seq(Float))) /\ r # << >>
       /\ \A i \in DOMAIN r : /\ Len(r[i]) = Len(r[1])
                               /\ \A c \in DOMAIN r[i] : Len(r[i][c]) <= 1
  /\ OwnFiles \subseteq Seq(Seq(Token))

VARIABLES
  made,    \* how the stream file came about
  file,    \* the stream file
  engine,  \* "linux" or "windows"
  core,    \* "exact", or "faulty": it does not saturate
  bytes,   \* what the firmware was built to answer: 1, 21, 27 or 29 bytes
  at,      \* the next line of the file; 0 when the stream has finished
  socket,  \* replies that wait in the engine's socket
  log,     \* the log
  origin,  \* history: for each data row, the line, the run, the features, the reply
  faults, runs

bench == <<made, file, engine, core, bytes>>
vars == <<bench, at, socket, log, origin, faults, runs>>

-----------------------------------------------------------------------------
(* The core and its emulation in the verifier.                              *)

Dot(neuron, x) ==
  LET sum[k \in 0..(Len(neuron) - 1)] == IF k = 0 THEN 0 ELSE sum[k - 1] + neuron[k] * x[k]
  IN sum[Len(neuron) - 1]
BiasOf(neuron) == neuron[Len(neuron)]
Relu(s) == IF s > 0 THEN s ELSE 0

\* The core: accumulator of 40 bits, bias << 8, shift, saturate, rectify.
CoreNeuron(kind, neuron, x) ==
  LET s == Shift(Low(Dot(neuron, x) + BiasOf(neuron) * Scale, AccTop))
  IN IF kind = "faulty" THEN Low(s, Top) ELSE Saturate(s)
CoreScores(kind, x) ==
  LET hidden == [k \in DOMAIN Hidden |-> Relu(CoreNeuron(kind, Hidden[k], x))]
  IN [k \in DOMAIN Output |-> CoreNeuron(kind, Output[k], hidden)]

\* forward_q88.
ForwardQ88(x) ==
  LET hidden == [k \in DOMAIN Hidden |->
                   Relu(Saturate(Shift(Dot(Hidden[k], x) + BiasOf(Hidden[k]) * Scale)))]
  IN [k \in DOMAIN Output |->
        Saturate(Shift(Dot(Output[k], hidden) + BiasOf(Output[k]) * Scale))]

-----------------------------------------------------------------------------
(* The engine and the board.                                                *)

\* The q-th request's reply; its times are told apart by q.
ReplyTo(x, q) ==
  [first |-> Decision(CoreScores(core, x)), bytes |-> bytes, cycles |-> CoreCycles,
   ticks |-> [k \in 1..5 |-> 5 * q + k], outs |-> CoreScores(core, x)]

\* Its latency, told apart by q as well.
Latency(q) == 3 * q + 2

\* The acknowledgment of a model upload that nobody waited for.
StaleAck == [first |-> 255, bytes |-> 1, cycles |-> 0,
             ticks |-> <<0, 0, 0, 0, 0>>, outs |-> <<0, 0, 0>>]

Request == Len(origin) + 1

\* The file is read to its end or the process is killed; the log stays.
Streaming == at \in 1..Len(file)

\* Fault: the \r is stripped before the test for an empty line.
SkippedWithReturn(line) == \A k \in DOMAIN line : line[k] = Word0
\* if (line.empty()) continue.
Skipped(line) == line = Blank

SkipBlank ==
  /\ Streaming /\ Skipped(file[at])
  /\ at' = at + 1
  /\ UNCHANGED <<bench, socket, log, origin, faults, runs>>

\* One line: the request, the first datagram in the socket within two seconds or
\* a TIMEOUT, and the row.
Ask(fate) ==
  LET x == EngineFeatures(engine, file[at])
      own == ReplyTo(x, Request)
      waiting == IF fate = "prompt" THEN Append(socket, own) ELSE socket
      afterwards == IF fate = "late" THEN <<own>> ELSE << >>
      row(reply) == [line |-> at, run |-> runs, asked |-> x, got |-> reply]
  IN /\ Streaming /\ ~Skipped(file[at])
     /\ Request <= MaxRequests
     /\ fate # "prompt" => faults < MaxFaults
     /\ faults' = (IF fate = "prompt" THEN faults ELSE faults + 1)
     /\ at' = at + 1
     /\ IF waiting = << >>
        THEN /\ log' = AppendRow(log, engine, TimeoutRow(Request))
             /\ origin' = Append(origin, row(<< >>))
             /\ socket' = afterwards
        ELSE /\ log' = AppendRow(log, engine, AnsweredRow(engine, Request, Latency(Request), Head(waiting)))
             /\ origin' = Append(origin, row(<<Head(waiting)>>))
             /\ socket' = Tail(waiting) \o afterwards
     /\ UNCHANGED <<bench, runs>>

\* The stream ends and the log is closed, with its header at least.
Finish ==
  /\ at = Len(file) + 1
  /\ at' = 0
  /\ log' = IF log = << >> THEN <<Header(engine)>> ELSE log
  /\ UNCHANGED <<bench, socket, origin, faults, runs>>

\* The engine is killed, if it runs, and started on the same file and log.
Again ==
  /\ runs < MaxRuns
  /\ runs' = runs + 1 /\ at' = 1 /\ socket' = << >>
  /\ UNCHANGED <<bench, log, origin, faults>>

Init ==
  /\ \/ \E s \in Stimuli :
          /\ made = [by |-> "verify", rows |-> Build(s.n, s.random), raw |-> << >>]
          /\ file = SaveTxt(made.rows)
     \/ \E r \in RawFiles :
          /\ made = [by |-> "prepare", rows |-> Prepared(r), raw |-> r]
          /\ file = ToCsv(made.rows)
     \/ /\ made = [by |-> "user", rows |-> << >>, raw |-> << >>]
        /\ file \in OwnFiles
  /\ engine \in {"linux", "windows"} /\ core \in {"exact", "faulty"}
  /\ bytes \in {1, 21, 27, 29}
  /\ socket \in {<< >>, <<StaleAck>>}
  /\ at = 1 /\ log = << >> /\ origin = << >> /\ faults = 0 /\ runs = 1

Next == SkipBlank \/ (\E fate \in {"prompt", "late", "lost"} : Ask(fate)) \/ Finish \/ Again

Spec == Init /\ [][Next]_vars

-----------------------------------------------------------------------------
(* main of verify_bitexact.py, run with the flag that fits the engine.       *)

\* Fault: the scores are left out of the verdict.
DecisionsOnly(maxRows) ==
  LET read == ReadLog(log)
      n == IF maxRows = 0 THEN Len(read.dec) ELSE Min({maxRows, Len(read.dec)})
      x == ParseStream(file, n, engine = "windows")
      ok == {i \in 1..n : read.dec[i] >= 0}
  IN IF n = 0 THEN "no rows"
     ELSE IF ok # {} /\ \A i \in ok : Decision(ForwardQ88(x[i])) = read.dec[i]
     THEN "VERIFIED" ELSE "MISMATCH"
Verdict(maxRows) ==
  LET read == ReadLog(log)
      n == IF maxRows = 0 THEN Len(read.dec) ELSE Min({maxRows, Len(read.dec)})
      x == ParseStream(file, n, engine = "windows")
      ok == {i \in 1..n : read.dec[i] >= 0}
  IN IF n = 0 THEN "no rows"
     ELSE IF /\ ok # {}
             /\ \A i \in ok : Decision(ForwardQ88(x[i])) = read.dec[i]
             /\ read.hasLogits => \A i \in ok : ForwardQ88(x[i]) = read.logits[i]
     THEN "VERIFIED" ELSE "MISMATCH"

-----------------------------------------------------------------------------
(* Properties.                                                              *)

Answer(i) == origin[i].got[1]
Answered(i) == origin[i].got # << >>
Decided(i) == Answered(i) /\ Answer(i).first \in 0..2

\* What stof and float() agree about: texts, and numbers that fit into a long.
PlainToken(t) ==
  /\ t.cxx = t.py
  /\ \A k \in DOMAIN t.cxx : t.cxx[k].kind = "finite" /\ Round(t.cxx[k].pieces) \in -LongTop..LongTop
Plain(line) == \A k \in DOMAIN line : PlainToken(line[k])

\* Every decision in the log is the answer to the row's own request.
OwnAnswers == \A i \in DOMAIN origin : Decided(i) => Answer(i).ticks[1] = 5 * i + 1

\* An exact core is never accused: one run over a file of plain lines without an
\* empty one, whose answers were not late, is VERIFIED however many of them were
\* lost and wherever the log is cut, if the scores are in the replies or the log
\* has no column for them; and the features that the quantization report works
\* with are those the Windows engine sent (verify_bitexact.py:54-71, 139-171,
\* 185-241, quantization_analysis.py:60-75, against hft_engine_linux.cpp:102-226).
NoFalseAlarm ==
  (/\ core = "exact" /\ runs = 1 /\ OwnAnswers
   /\ \A l \in DOMAIN file : file[l] # Blank /\ Plain(file[l])
   /\ engine = "windows" \/ bytes >= 27)
  => \A m \in DOMAIN origin :
       /\ (\E i \in 1..m : Decided(i)) => Verdict(m) = "VERIFIED"
       /\ engine = "windows" => ParseStreamRows(file, m) = [i \in 1..m |-> origin[i].asked]

\* A wrong number is never verified: if one row that stands at its line of the
\* file shows a decision or scores that a saturating core would not have
\* computed from the features sent, the verdict is not VERIFIED
\* (verify_bitexact.py:116-135, 205-241).
FaultDetected ==
  (\E i \in DOMAIN origin :
     LET right == CoreScores("exact", origin[i].asked) IN
     /\ Decided(i) /\ origin[i].line = i /\ Plain(file[i])
     /\ \/ Answer(i).first # Decision(right)
        \/ engine = "linux" /\ bytes >= 27 /\ Answer(i).outs # right)
  => Verdict(0) # "VERIFIED"

\* The stimulus arrives as it was built: six decimals are not the exact value,
\* but the engine rounds them back to the unit (make_verify_stream.py:72-87,
\* hft_engine_linux.cpp:51-60).
StimulusSurvives ==
  made.by = "verify" /\ engine = "linux" =>
    \A i \in DOMAIN origin : origin[i].asked = Fit(made.rows[origin[i].line])

\* The exact sum of a neuron, before it saturates.
SumOf(neuron, x) == Shift(Dot(neuron, x) + BiasOf(neuron) * Scale)

\* What a stimulus can reveal depends on the network.  Some features overflow it
\* if every hidden sum fits the word and the sum of an output neuron leaves it, by
\* less than the word's range (a sum that is off by whole ranges may wrap to the
\* very bound it would have saturated to).
OverflowsAt(x) ==
  LET hidden == [j \in DOMAIN Hidden |-> Relu(SumOf(Hidden[j], x))]
      Beyond == (Top + 1)..(3 * Top + 1) \cup (3 * Bottom + 1)..(Bottom - 1)
  IN /\ \A j \in DOMAIN Hidden : SumOf(Hidden[j], x) \in Word
     /\ \E j \in DOMAIN Output : SumOf(Output[j], hidden) \in Beyond

\* The stimulus is worth its name: with its corners answered, a core without
\* saturation does not pass ("it cannot distinguish a correct datapath from one
\* whose saturation path is broken" is said of market data, make_verify_stream.py:6-13).
StimulusReveals ==
  (/\ made.by = "verify" /\ core = "faulty" /\ engine = "linux" /\ bytes >= 27
   /\ runs = 1 /\ Len(origin) >= 9 /\ \A i \in DOMAIN origin : Decided(i))
  => Verdict(0) = "MISMATCH"

\* The scripts read the same log: decisions, scores, ticks, latencies and cycles
\* are those of the row's own reply, the ticks of a row stand beside its latency,
\* scores that a short reply lacks are read as zeros and never as another row's,
\* and all count the same rows, however many runs were appended
\* (verify_bitexact.py:139-171, quantization_analysis.py:128-134,
\* analyze_jitter.py:26-45, parse_stage_timing.py:36-50, analyze_linux_log.py:12-30).
ToolsAgree ==
  log # << >> =>
    LET linux == engine = "linux"
        rows == [i \in DOMAIN origin |-> i]
        answered == Chosen(rows, {i \in DOMAIN origin : Answered(i)})
        Long(n) == Chosen(rows, {i \in DOMAIN origin : Answered(i) /\ Answer(i).bytes >= n})
        read == ReadLog(log)
        stage == StageTimes(log)
        jitter == JitterReport(log)
        latency == LatencyReport(log)
    IN /\ read.headers = 0
       /\ QuantDecisions(log, TRUE) = read.dec
       /\ read.dec = [i \in DOMAIN origin |-> IF Decided(i) THEN Answer(i).first ELSE -1]
       /\ read.logits = [i \in DOMAIN origin |->
                           IF linux /\ Decided(i) /\ Answer(i).bytes >= 27
                           THEN Answer(i).outs ELSE <<0, 0, 0>>]
       /\ linux => /\ stage.ticks = [j \in DOMAIN Long(21) |-> Answer(Long(21)[j]).ticks]
                   /\ stage.e2e = [j \in DOMAIN Long(21) |-> Latency(Long(21)[j])]
       /\ linux => /\ jitter.values = [j \in DOMAIN Long(29) |-> CoreCycles]
                   /\ jitter.missing = Len(origin) - Len(jitter.values)
       /\ latency.timeouts = Len(origin) - Len(answered)
       /\ latency.times = [j \in DOMAIN answered |-> answered[j] - answered[1]]
       /\ latency.latencies = [j \in DOMAIN answered |-> Latency(answered[j])]

\* Prepared rows slide over the records: each row drops the oldest record and
\* takes the next, and from the first row to the last no numeric record after
\* the header is missing (data_prep_binance.py:50-60, 81-90).
RecordsKept ==
  made.by = "prepare" =>
    LET numeric == Numeric(Tail(made.raw))
        rows == made.rows
        width == Len(made.raw[1])
    IN /\ Len(numeric) >= Periods =>
            /\ rows # << >>
            /\ rows[1] \o FlattenSeq([i \in 1..(Len(rows) - 1) |->
                           SubSeq(rows[i + 1], width * (Periods - 1) + 1, width * Periods)])
                 = FlattenSeq([i \in DOMAIN numeric |-> FlattenSeq(numeric[i])])
       /\ \A i \in 1..(Len(rows) - 1) :
            SubSeq(rows[i], width + 1, width * Periods)
              = SubSeq(rows[i + 1], 1, width * (Periods - 1))
=============================================================================
