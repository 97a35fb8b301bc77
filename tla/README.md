# Verification of the HFT inference system

The system classifies market data on a Zynq board.  A graphical panel tells a
host engine which model to load and which file to stream; the engine sends each
row of features to the board in a UDP packet and logs the decision that comes
back; the board runs the network in its fabric core.  Offline scripts make the
files and compare the log with a bit-exact model of the network.  The
specifications here model the program as it is at this commit; every definition
that stands for code is listed with its lines in `PROJECT.json` ("map").

Contents: 1 inventory, 2 how the modules were ordered, 3 modules and the code
they stand for, 4 runs, 5 proofs, 6 where the code and what it says disagree,
7 what is not modelled.

## 1. Inventory

| Component | State | Operations | Interacts through |
|---|---|---|---|
| Host engine, `pc_test/linux/hft_engine_linux.cpp` and `win/hft_engine.cpp` | `is_streaming`, `stream_thread`, `tcp_client_sock`, `udp_sock`, the log file | MODEL, STREAM, TEST_STREAM, TEST_MODEL, STOP, connect, disconnect; the worker loop; tokenizer and cast | TCP lines with the panel, UDP packets with the board; one UDP socket and one flag shared by two threads |
| Operator panel, `pc_test/hft_frontend.py` | `is_connected`, `is_streaming`, `sock`, the selected file, the four buttons | button handlers, drop, listener thread, conversion thread, `after` callbacks, packing of a model | TCP with the engine; three kinds of threads on the same attributes; a cached converted file |
| Board firmware, `lwip_echo_server/src/main.c`, `mlp_driver.h` | feature buffer, `DmaInitSuccess`, the driver's DMA state, the time stamps, the tables of the inference in software | poll loop, `udp_recv_callback`, `XTime_GetTime`, `arm_infer_once` | UDP with the engine; DMA, data cache, core registers |
| Weight loader, `mlp_weight_loader.h` | the weight memory of the core | `load_layer_to_hw`, `load_weights_to_hw` | register writes; the buffer the panel packs |
| Verifier, `pc_test/verify/make_verify_stream.py`, `verify_bitexact.py` | none (makes a stream; reads a stream and a log) | stimulus, tokenizer, emulation, verdict | the stream file; the log the engine appended to |
| Measurement scripts, `analyze_jitter.py`, `parse_stage_timing.py`, `analyze_linux_log.py`, `plot_latencies_pro.py` | none | selection of rows, statistics, plots | the log |
| Data and model scripts, `data_prep_binance.py`, `quantization_analysis.py` | none | sliding windows; casts and a second emulation | files |
| Platform code, linker script, build files | | vendor template | |

What is hard about each, and what makes it correct:

* **Engine.** Two threads share one UDP socket and one flag, packets carry no
  number, replies may be lost or late, the panel may leave in the middle of a
  message and the process may be killed and started again on the same log.
  Correct means: every decision in the log answers the request of its row; the
  log has one header and one row per request; MODEL_OK is true; the flag and the
  worker agree; after STOPPED nothing follows of that stream; no client hears of
  another client's stream; every command and every file stream comes to an end.
* **The connection.** TCP delivers characters in pieces of any size.  Correct
  means: the reader handles the lines that were sent, each once, whole and in
  order.
* **Panel.** What the user sees is assembled from messages, queued callbacks and
  flags set by three kinds of threads.  Correct means: a panel at rest tells the
  truth about the engine; a button does what it says; Stop stops; a file that is
  streamed is complete; a lost connection is noticed and can be replaced; an
  answer always gives its button back.
* **Firmware.** One thread, but the DMA, the cache and the core run beside it,
  and the waits have no timeout.  Correct means: a reply is the result of one
  inference, of its own packet, on one model; weights are never written under a
  running inference; a transfer is never refused; the loop always comes back to
  its poll.
* **Time stamps.** A 64-bit counter is read in halves while it runs, and the
  differences are cut to 32 bits.  Correct means: a stamp is a time of the call,
  a stage time is the time that passed.
* **Weight path.** Three programs write down the same layout and nothing
  compares them.  Correct means: each trained weight is at the register the core
  reads it from, and no register is written twice.
* **Arithmetic.** The processor's inference, the core and two scripts each have
  their own widths, roundings and saturations.  Correct means: they agree on
  every network that fits, and nothing overflows before it is saturated.
* **Files and logs.** A stream is made by one program, read by two engines and
  two scripts; a log is written by two engines and read by five scripts, each with
  its own idea of headers, empty cells and TIMEOUT rows.  Correct means: row *i*
  of the log is compared with the features that were sent for it, an exact core
  is VERIFIED, a wrong number is not, and all scripts read the same log.

## 2. How the modules were ordered

The most important behaviour came first: the engine (`HostEngine`), the board it
talks to (`InferenceBoard`, the abstract specification, and `BoardFirmware`, which
is proved to implement it), the time stamps (`GlobalTimer`), the weights
(`WeightPath`), the panel (`Frontend`).  Then what the first four take for
granted: the connection as a byte stream (`LineFraming` under the abstract
`LineChannel`), the arithmetic (`FixedPoint`, `ArmInference`), the files
(`StreamFile`, `ExecutionLog`) and a measurement from end to end (`Bench`).

Composition.  `BoardFirmware` instantiates `InferenceBoard`, `LineFraming`
instantiates `LineChannel`.  `HostEngine` has the board as one step that answers,
which is what `InferenceBoard` allows; `Frontend` has the engine as a process that
obeys commands in order, and channels of lines, which is what `LineFraming`
shows them to be for the panel.  `Bench` composes `StreamFile`, `ExecutionLog`
and `FixedPoint` with the order of requests, replies and rows.

Proofs stand beside the module they are about (`HostEngine_proofs`, and so on;
`Firmware_proofs` is about `BoardFirmware` and `GlobalTimer`, which run on one board).
`DataInduction` has what several of them need: induction on numbers and on
sequences, and what the library's `FlattenSeq` returns.

What could still be added: the engine of `Frontend` as an instance of
`HostEngine` by a refinement, rather than by the correspondence described in
section 3.

## 3. Modules

### HostEngine

The Linux engine.  The command thread is `cpc` with the command `cmd`: `Accept`,
`ReadCommand`, the steps of MODEL and TEST_MODEL (`ReadModel` ...
`ModelReceive`, `ModelTimeout`), of STREAM and TEST_STREAM (`StreamCommand`,
`JoinStream`, `Launch`), of STOP (`StopCommand`, `JoinStop`, `Stopped`) and of a
hangup (`Hangup`, `JoinClose`, `Close`).  The worker is `wpc` with its `job`,
from `WorkerOpenLog` to `WorkerClear`.  One action is the code between two points
at which somebody else can make a difference: a `sendto`, `recvfrom`, TCP `send`,
write to the log, access to `is_streaming`, `join`.  The link to the board may
lose, delay and reorder (`toBoard` and `toHost` are sets); the two-second receive
timeout may expire at any time while a thread waits (`ReceiveTimeout`), also when
the reply is on its way.  The environment further kills and restarts the process
(`Kill`, `Restart`; the log stays, sockets are new) and closes connections.
A line that `process_command` has no branch for, such as
a STREAM without a colon, is the command OTHER and changes nothing.
Packets carry identities the real ones do not; they occur only in history and in
properties, no guard of the engine reads them.  The board is one step that
answers (`BoardModel`, `BoardDecision`), which is what `BoardFirmware` is proved
to amount to.

Launching a thread while the old one is joinable ends the process
(`alive = "terminated"`), as `std::thread`'s assignment does; the second message to a
closed connection ends it with SIGPIPE.

The Windows engine has the same threads, protocol and order of calls; it differs
in the cast and the log's columns, which `StreamFile` and `ExecutionLog` model for
both, and in having no SIGPIPE.

### InferenceBoard and BoardFirmware

`InferenceBoard` is what a host may rely on: packets taken once, in any order,
each ignored or served at one instant.  `BoardFirmware` is the firmware step by
step (`pc`), with the hardware as separate processes: the receive queue, the
cache (`inputs` is what the processor wrote, `ram` what the DMA reads; `Flush`
and, at any time, `Evict` make them equal), the MM2S channel (`DmaFetch`,
`DmaLastBeat`, `DmaIdle`) and the core (`CoreFinish`), whose done bit stays set
from one inference to the next one's start.  The hardware is external and is
modelled from how `main.c` uses it: the model is of the build in which the
firmware waits for the channel before it waits for done.
A value is modelled by where it comes from: a score is the packet and the
model of each layer it was computed from, so mixing packets, scores or models
shows.  `ImplementsBoard` instantiates `InferenceBoard` with the packets in the
queue or in work as its inbox.

### GlobalTimer

`XTime_GetTime` with its three register reads, while `Tick` advances the counter
by any amount before each of them, and the stage times of the reply.  A half of
the counter has `Half` values, 2^32 on the board.  The specification is called
`TimerSpec`, so that one module can hold the theorems about it and about the
firmware.

### WeightPath and NetworkLayout

The packing of `process_pth_model`, the pointer arithmetic of the firmware and the
loops of the loader, one action per register write (`WriteWeight`, `WriteBias`).  A
weight is its name (layer, neuron, input), so a misplaced one shows.  The shape of
the network is written down three times, and so the module has it three times: the
frontend's (`PanelShapes`, `PanelBiases`), the firmware's distances from pointer to
pointer (`FirmwareBlocks`) and the loader's (`LoaderShapes`).  `LayoutsAgree` says
when they fit on each other.  `NetworkLayout` has the numbers of the three files, and
TLC evaluates in `MCWeightPath` that they do (`NumbersAgree`); a number that differs
in one of the three stops the run.
Checkpoints may be smaller, larger, shorter and deeper than the template, and have
layers without a weight or a bias, which the frontend leaves out.

### Frontend

The panel with its Tk thread (`StartStream`, `StopStream`, `StartTest`,
`StopTest`, `SelectFile`, `SelectModel`, `Drop`, `SendModel`, `Reconnect`, and
`RunCallback` for what was queued with `after`), one listener per connection
(`LoopTest`, `Call`, `Receive`, `Handle`, `Eof`, `MarkDisconnected`,
`ListenerEnds`) and the conversion of a Parquet file (`BeginWriting`, `Converted`,
`ConversionFails`), with what the file under the cached name holds meanwhile
(`cached`).

`send_command` and `connect_to_engine` are called by the Tk thread and by the
conversions, without a lock, and a listener may end beside them.  They are steps of
the thread that is in them (`thread`): the test of `is_connected` (`Check`), the
close with the new socket (`Connect`), the connect (`Dial`), `is_connected = True`
(`Flag`), the widgets and the listener (`Listen`), or the failure (`Refused`), the
second test (`Test`), `sendall` (`Send`) and its failure (`Broken`).  What a button handler
does before its `send_command` touches the flag and widgets only and is one step with
the click.  Tk runs one handler or callback at a time.

Sockets are channels of lines; a recv that is already waiting on a socket keeps it
open when another thread closes it, as the kernel does, while a recv that starts
after the close raises.  The user may also close the window and start the panel
again (`Restart`), which may leave a torn file under the cached name.

The user may select another file at any time.  There are four: a CSV file, a Parquet
file, a second one of the same base name (`twin`), whose converted file has the same
name, and one that ends in `.PARQUET` (`upper`), which is accepted and streamed as it
is.

The engine is abstract here.  Its `up`, `serving` and `stream` correspond to
`alive`, the accepted connection, and `is_streaming` with the state of
`stream_thread` of `HostEngine`: it accepts one connection at a time, answers
commands in order, may end a file stream by itself, may die and be started again.
A stream that ended by itself and was not joined makes the next start fatal, as
in `HostEngine`.

A `profile` says what is asked of the user and bounds the session: a patient user
clicks when nothing is under way, a hasty one at any time; it has the files there
are, whether there is a model to send, the clicks that send a command, the starts of the engine and the row messages.
A user is `Careful` who is patient and converts nothing, in a session in which no
listener noticed a loss in the middle of a click (`crossed`): the properties that
compare panel and engine hold of such a user, and section 6 says what else happens.

### LineChannel and LineFraming

Both directions of the TCP connection, character by character.  A reader gets a
piece of any size up to its buffer.  `RestOf` and `LinesOf` go over the
characters as the loops do: a newline ends the line under way, and an empty line
is skipped.  `Getlines` is the engine's loop over one
piece, which takes what follows the last newline for a line too; `KeptRest` is the
panel's `buffer`.  The panel's direction implements `LineChannel`: with the lines
of `buffer` and of the characters under way as the queue, every recv handles some
of them or none.

### FixedPoint and ArmInference

`FixedPoint` has words, saturation, shifts and the casts of all programs: `f2q88`
of the Linux engine (round, clip), the Windows engine's and
`quantization_analysis.py`'s `static_cast` (truncate, low 16 bits), the verifier's
cast, the loader's `float_to_q88`, the three-way decision.  A float is its
product with `Scale`, counted in fractions of a unit, plus infinities and NaN.
`ArmInference` runs `arm_infer_once` with one action per product (`LoadBias`,
`AddProduct`, `StoreNeuron`) beside the sums of `forward_q88` (`sum`, `bias`,
`EmulatedNeuron`), which are built from the same weights, step by step.  A
weight is chosen when it is read: each is read once in an inference, so all
models are covered without enumerating them.

### StreamFile, ExecutionLog and Bench

`StreamFile` has the files: what `make_verify_stream.py` and
`data_prep_binance.py` write, and what the tokenizers of the engines and of the
scripts make of a line.  A token is what `stof` and what `float()` make of it,
which differ for dates and huge numbers.  `ExecutionLog` has the rows of both
engines and the five readers.  `Bench` runs one measurement: `Ask` is one line
with its request, its reply (prompt, late or lost) and its row; `Finish` and
`Again` end the stream and start the engine on the same log.  The script's outputs
are operators, evaluated on every log that is reached.  The core is exact or does
not saturate, so that a wrong verdict in either direction shows.

What a script keeps of a table is `Chosen` of `Selection`: the rows at a set of
places.  It is `FlattenSeq` of one row or none for each place; the library's
`SelectSeq` is a RECURSIVE operator, about which nothing could be proved, and for
the same reason `Dot` sums with a recursive function.  The constants have three
assumptions: the layers of the network fit on each other and the largest sum of a
neuron into the accumulator (`NetworkAssumption`; 64 inputs give at most
2^36 + 2^23, and `AccTop` is 2^39 - 1), the random rows of the stimulus are as long as the corners, and a recorded
table is rectangular (`FilesAssumption`).

## 4. Runs

Every run finishes its state space.  Counters are bounded by the constants named
in the configurations; deadlock is not checked where the system may stop (the
engine may die, the bounds end a session).

| Run | Asks | Bounds, and why they are enough |
|---|---|---|
| `engine_streams` | `FlagMatchesWorker`, `StopIsFinal`, `StatusToOwner`, `LogComplete` | three commands (start, stop, start is the shortest sequence with two streams), two connections, two process runs, a file with a blank line, two requests: a row of an old and of a new run or stream; the theorems cover longer ones |
| `engine_models` | `TypeOK`, `PrefixAligned`, `ModelOkTruth`; with fairness `Responsive`, `StreamEnds` | two commands put an upload of each kind beside a stream, or beside another upload; four requests are two whole files, so a stream, and the one that replaces it, is followed to the end of its file; longer sequences are covered by the theorems |
| `board` | `TypeOK`, `WeightsQuiescent`, `TransfersAccepted`, `ImplementsBoard`; with fairness `PollReturns` | three packets: two inferences around a model, or two models around an inference; a queue of two overflows |
| `timer_stamps` | `TimerTypeOK`, `StampsAreReal`, `StagesAreReal` | halves of three values, two carries, three readings: two stages, carries in any reading and between readings |
| `weight_path` | `TypeOK`, `LoadedAsTrained`, `WrittenOnce` | a template with a full, a partly filled and a narrower layer; six checkpoints, one of each kind of mismatch and one with layers that lack a bias |
| `panel` | `TypeOK`, `CarefulIdleIsIdle`, `TextMatchesAction`, `StopPrevails`, `StreamsWholeFile`; with fairness `LossNoticed`, `ConnectionServed`, `ModelAnswered` | six users, one conversion thread, three connections: patient with a CSV file and a model, three clicks and two engine processes (start, loss, start again); patient with two Parquet files of one name; hasty with a CSV file, with three clicks or with a second engine process; hasty with a Parquet file, so that both threads are in `send_command` at once; hasty with a model, row messages and a file that is not converted |
| `arm_inference` | `NarrowingIsExact`, `ImplementationsAgree`, `DecisionIsLargest` | three layers, words of four bits, features at both ends and -1, weights at both ends, between two units on either side of zero, and beyond the word; the theorems cover other sizes |
| `framing` | `EngineObeys`, `PanelHearsLines`; with fairness `PanelHearsAll` | three lines of one or five characters, buffers of four and three: a line longer than a buffer, a piece with two lines and a half; the theorems cover all others |
| `bench` | `NoFalseAlarm`, `FaultDetected`, `StimulusSurvives`, `StimulusReveals`, `ToolsAgree`, `RecordsKept` | words of four bits, two columns, three features: all corners of the stimulus and a random row, prepared files with and without a header, files with blank lines and with tokens that the programs read differently; one late or lost reply, two starts of the engine |
| `engine_second_stream`, `engine_hangup`, `panel_late_stopped` | section 6 | the smallest bounds that reach the case |

Each property is broken by a fault in a definition that stands for code
("mutants" in `PROJECT.json`; in the modules, the definitions marked "Fault").

**Fairness.** `HostEngine`: weak fairness of each thread, which the operating
system gives; a waiting `recvfrom` can always time out, which SO_RCVTIMEO gives.
Nothing is assumed of the link, the board or the panel, so `Responsive` and
`StreamEnds` hold although everything may be lost.  `BoardFirmware`: the
processor runs, and the hardware as a whole makes progress; the loops at 336 and
341 have no timeout, so without the second assumption the board may hang.
`Frontend`: the Tk thread's callbacks and its steps in `send_command`, each
conversion, each listener, and the engine's accept, command and hangup steps; nobody has to click, and no process has to be started.
`LineFraming`: both readers go on reading and TCP delivers.

**Exceptions, and why they are there.**  `PrefixAligned` is about the rows up to
the first TIMEOUT or UNKNOWN, `ModelOkTruth` about runs in which no model packet
was given up on, `StopPrevails` about a Stop that no conversion overtakes,
`CarefulIdleIsIdle` and `TextMatchesAction` about careful users,
`StreamsWholeFile` about patient ones and not about what a failed conversion left,
`ConnectionServed` about connections that no old listener keeps from the engine
(`Held`), `NoFalseAlarm` about files of plain lines in one run whose answers were
not late and have their scores, `ImplementationsAgree` about weights that fit into
a word, `DecisionIsLargest` about all but the tie of HOLD and BUY, `EngineObeys`
(first part) about pieces that end with a line.  In each case the rest is not true
of the code, and section 6 says what happens there; its hazard stands in
`PROJECT.json` without a property and with the reason, unless a violation run is
about it.

## 5. Proofs

All theorems hold for every value of the constants that satisfies the assumption
of the module.  They are checked by TLAPS from the modules alone.

| Theorem | States | Argument |
|---|---|---|
| `TypeCorrect` (HostEngine) | `[]TypeOK` | inductive as it stands; one lemma per thread and one for the environment |
| `DecisionsAligned` | `[]PrefixAligned` | `PrefixAligned` is not inductive: it says nothing of packets in flight.  `AlignmentInv` adds that, as long as no row was TIMEOUT or UNKNOWN, there is at most one outstanding request, it is the worker's current one, and the worker is waiting for it.  A timeout or the other thread taking the reply ends that, but also the clean prefix |
| `ModelOkIsTrue` | `[]ModelOkTruth` | `ModelInv`: while every upload was answered, at most one model packet or ACK is in flight, it is the last one sent, and an ACK in flight means the board has that model |
| `FlagAndWorkerAgree` | `[]FlagMatchesWorker` | `Control`: the flag and the worker agree, a thread object is joinable as long as its worker was not joined, and there is no worker while the command thread accepts, closes or reports STOPPED |
| `StoppedIsFinal`, `StatusReachesOwner` | `[]StopIsFinal`, `[]StatusToOwner` | `MessagesInv`: streams are numbered in the order of their starts; nothing was said of a later stream than the current one (`Known`), and a worker serves the connection there is and is later than every stream reported as stopped (`Owned`) |
| `LogIsComplete` | `[]LogComplete` | `LogInv`: a worker in its loop has found or written the header, one that waits or logs has sent the last request, and rows are of this run or an earlier one |
| `FirmwareTypeCorrect` (BoardFirmware) | `[]TypeOK` | with the bounds of the two loops of the callback |
| `WeightsAreQuiescent`, `TransfersAreAccepted` | `[]WeightsQuiescent`, `[]TransfersAccepted` | `BoardInv`: `ControlInv` ties the channel and the core to the firmware's position, so both are idle wherever the code is not waiting for them |
| `FirmwareImplementsBoard` | `Spec => ImplementsBoard` | `BoardInv` with `InferenceInv`, which follows the features from buffer to memory to channel to core to scores, `WeightsInv` (between loads all layers are of one model) and `QueueInv` (identities in the queue increase); then each step of the firmware is a step of `InferenceBoard` or a stutter: `Receive` arrives, `AckModel` loads, `SendReply` answers, the branch that drops a packet ignores |
| `TimerTypeCorrect` (GlobalTimer), `StampsAreTimes` | `[]TimerTypeOK`, `[]StampsAreReal` | `ReadInv`: a low half read under a high half that did not change is of a time between entry and now |
| `StagesAreExact` | `[]StagesAreReal` | `OrderInv`: readings do not overlap; then a difference below `Half` survives the reduction |
| `LoaderTypeCorrect` (WeightPath), `RegistersWrittenOnce` | `[]TypeOK`, `WrittenOnce` | `CursorInv` bounds the cursor by the words of the layers, `MemoryInv` says that a register that was written lies before the cursor; the address of a register determines its memory and word |
| `NetworkLoaded` | `LayoutsAgree => (Spec => []LoadedAsTrained)` | Two halves.  What is in the buffer: a layer's block holds its weights row by row and then its biases (`BlockContents`), `FlattenSeq` puts the blocks one behind the other, and the pointers of the loader are where they begin (`Pointers`, `BufferContents`).  What is in the memory: `ContentInv` says that each register behind the cursor holds the value the template asks for; a write concerns one register, because the rows of different layers do not overlap (`RowsDisjoint`), and the cursor moves past it |
| `AccumulatorFits` (ArmInference) | `[]NarrowingIsExact` | `AccBounded`: after the bias and *k* products the accumulator is at most `Wide * Scale + k * Wide * Wide`, with `Wide` the magnitude of the smallest word.  At the end of the loop that is what `NetworkAssumption` compares with the largest s32; the quotient then lies in its range and the cast is the identity |
| `ArraysHoldWords`, `LargestIsAnswered` | `[]TypeOK`, `[]DecisionIsLargest` | `LoopInv`: every cast and saturation returns a word, the index stays below the size of its layer, and the last layer has stored three when the loops are over |
| `SameNetworkComputed` | `[]ImplementationsAgree` | `Agreement`: as long as every weight read fits into a word, the accumulator is the script's sum plus its scaled bias at each step, because `arm_w*` holds what the verifier's cast gives (`TableIsTruncate`) and nothing is lost when the quotient is narrowed (`AccumulatorFits`); so the arrays of both are equal, layer by layer |
| `PanelTypes` (Frontend) | `[]TypeOK` | with `Linked`: a listener that waits has a socket and one that handles lines has some, a connection not yet made is not open; and `Threaded`: a thread in `send_command` has a command, and only a conversion converts |
| `StopWins` | `[]StopPrevails` | `Overruled`: after a Stop each start among the commands on the newest connection has a STOP behind it, and so has a stream that runs for that connection; or the STOP is still in the Tk thread, on its way through `send_command`; or it was dropped with the connection, and only a conversion can connect to what is left.  `Served`: between two connections no worker runs, so what was started on an older connection is over when the newest is served.  No bound on clicks, connections or processes enters |
| `WholeFileStreamed` | `[]StreamsWholeFile` | `OneAtATime`: a patient user has at most one thread busy at a time, and the cached file is partial only while that one writes |
| `IdleIsTrue`, `TextIsTrue` | `[]CarefulIdleIsIdle`, `[]TextMatchesAction` | `CarefulInv`, about careful users.  `OneListener`: no listener but the newest is alive, and a connection that is believed to exist has one, or will have it when the Tk thread is through `connect_to_engine`.  `OneClick`: while the Tk thread is in a handler nothing else is under way, unless the connection was just lost.  `ButtonsFollow`: each button shows what the flag says, or the callback that will correct it is queued.  `EngineFollows`: at most one command is under way, in the thread or on the channel; the engine runs a stream only for a panel that shows one, or whose STOP is under way; and the end of a stream is never in the channel together with the start of the next.  Neither property is inductive alone: the panel, the callbacks and the engine change at different times, and each part of the invariant bounds one lag |
| `CommandsObeyed` (LineFraming) | `[]EngineObeys` | Cutting a text is a fold over its characters; by induction on the text, cutting it in two gives the same lines and rest, if the rest of the first part is put before the second (`CutInTwo`), and the letters of a text are those of its parts (`TextJoined`).  `FramingInv` adds to the property that what is under way ends where a line ends (`LinesUnderWay`), which a cut leaves true of what remains (`CutSuffix`) |
| `StatusesHeard` | `Spec => PanelHearsLines` | a status that is sent is one line more in the queue; a recv takes the first lines of the queue, none, one or several, which is a step of `LineChannel` or a stutter |

| `LogTellsOrigin` (Bench) | `[]BenchInv` | What the log says, in terms of its history.  `LogKept`: the header stands first and once, and the *i*-th row after it is a TIMEOUT row, or shows one reply, which is the acknowledgment of an upload or the answer to one of the first *i* requests; its features are what the engine makes of its line.  `SocketKept`: the same of the replies that still wait, without which `LogKept` is not inductive.  `InStep`: in the first run over a file without an empty line, row *i* is of line *i* |
| `FaultsAreDetected`, `NoFalseAlarms` | `[]FaultDetected`, `[]NoFalseAlarm` | Three parts meet in `VerdictSays`.  The log: `read_log` finds for each row the decision and the scores of its reply (`DecisionsRead`, `ScoresRead`).  The file: where `stof` and `float()` see the same numbers, the verifier's cast gives the features that were sent (`PlainLineRead`).  The arithmetic: a running sum of a neuron stays within its products' bounds (`DotBounds`), so nothing is lost in the accumulator and `forward_q88` is the exact core (`CoreIsEmulated`).  Then one wrong number at a plain line is a disagreement; and if each answer is the row's own (`OwnAnswerGiven`) there is none |
| `StimulusArrives` | `[]StimulusSurvives` | The printed value is off by less than one piece, of three or more in a unit, so rounding gives the word back (`RoundRestores`, `PrintedRestored`) |
| `FirstRun`, `FaultyCoreRevealed` | `[]FirstRunInv`, `(\E k \in 1..9 : OverflowsAt(CornerFeatures(k))) => (Spec => []StimulusReveals)` | `OwnSoFar`: while every answer of the first run is a decision, none waits in the socket and each is the answer to its own request.  The first nine lines are the corners (`CornersFirst`) and their lines are plain (`StimulusIsPlain`).  `OverflowsAt` speaks of exact sums only: the hidden ones stay inside the word, an output sum leaves it by less than the word's range.  Such a sum wraps to another word than the bound it saturates to, so the two cores differ at that corner; the log has the wrapped score, the verifier computes the saturated one |
| `ToolsReadTheLog` | `[]ToolsAgree` | A row is told apart from a header and its columns from each other (`RowsShown`); a selection is given by the ascending numbers of the rows taken (`ChosenByNumber`), so that two readers which test different columns for the same fact take the same rows (`StagesRead`, `JitterRead`, `LatencyRead`, `DecisionsRead`) |
| `RecordsAreKept` | `[]RecordsKept` | All records are of one width, so a row's parts are found at multiples of it (`WindowsSlide`), and the first window joined with the last records of the others is the whole table |

`FaultyCoreRevealed` has a condition on the network because the property is not true
of every one: with all weights zero a core without saturation computes what an exact
one does, and no stimulus can tell.  The condition, that one of the nine corners
overflows an output neuron, is about the network alone.  `MCBench` assumes it of its
own network, and TLC evaluates that; the network the repository ships is trained
data, which the modules do not hold, and nothing here says whether it has such a
corner.

`NetworkLoaded` has `LayoutsAgree` as its condition; that it holds of the numbers in
the three files is evaluated by TLC (`NumbersAgree` of `MCWeightPath`).

`RegistersWrittenOnce` needs that the words of all layers fit into the memory,
which `WeightPath` assumes of the template and which holds of the one in the code.
`AccumulatorFits` needs `(inputs * 32768 + 256) * 32768 <= 256 * (2^31 - 1)` of each
layer: true up to 511 inputs, and the widest layer of the code has 64.

**Induction over data.**  `FirstWord`, `Lines` and `Rests` are recursive functions
and `FlattenSeq` is one in the library; what they return for every input is proved
by induction, and the library states induction with an operator as parameter,
which the provers cannot instantiate.  `DataInduction` states it with a set: a set
that has zero, and with each number the next, has all natural numbers
(`InductionOnNat`), from the fact that a set of numbers has a least one, which
follows from the library's theorem that finite sets do not shrink for ever.
`InductionUpTo` and `InductionOnSeq` follow from it, and then `FlattenUnfolds` and
`FlattenJoin`.  The existence of each recursive function is a lemma of its own
(`LinesUnfold`, `SumsExist`, `RunningSums`).  `ChosenByNumber` is proved in the same
way, by induction on the table.

Only model-checked:

* All liveness (`Responsive`, `StreamEnds`, `PollReturns`, `ConnectionServed`,
  `ModelAnswered`, `LossNoticed`, `PanelHearsAll`): ENABLED and fairness are out of
  the prover's reach.
* That one of the corners overflows the network: checked of the network invented in
  `MCBench` only, and of no other.  For the shipped network it is open.
* That the numbers of the three layouts fit on each other (`NumbersAgree`).
* The violations of section 6, which are counterexamples.

## 6. Where the code and what it says disagree

Three of these have a run of their own.

* **The second stream** (`engine_second_stream`).  After a stream that ended by
  itself the thread is joinable, `is_streaming` is off, the join is skipped and
  the assignment terminates the process.
* **A panel that leaves** (`engine_hangup`): the second status message after
  that raises SIGPIPE.
* **A stale STOPPED** (`panel_late_stopped`): Start, Stop, Start in quick
  succession, and the STOPPED of the first stream turns the panel to idle while
  the second one runs.

The others are the reason for an exception in a property, or for a restriction of
its instance.

Engine and link:

* A reply that arrives after its TIMEOUT is taken as the next request's.
  `verify_bitexact.py:196` says that TIMEOUT rows are excluded from the
  comparison, which is not enough: the rows after them are off by one and an exact
  core is accused.  `PrefixAligned` is what remains true.
* A late ACK makes MODEL_OK the answer to another upload than the one
  acknowledged, while the panel says that the model was loaded and verified
  (`hft_frontend.py:232`).
* The engine takes what follows the last newline of a piece for a command
  (`hft_engine_linux.cpp:573-583`): a MODEL line that TCP splits becomes a MODEL
  with half a path and a command nobody knows.
* Whatever `f2q88` cannot hold in a long becomes -32768, also a huge positive
  value, although the comment at 45-46 speaks of saturation.

Panel:

* A conversion sends STREAM without looking at `is_streaming`
  (`hft_frontend.py:475`), so it overtakes a Stop, and one that outlives its
  connection starts a stream on the next, which the panel does not show.
* A second start while a conversion writes finds the file under the cached name
  and streams what there is of it (455-462); `StreamsWholeFile` is about patient
  users.
* What a conversion left that failed, or ended with the panel, stays under the cached
  name, and every later Start streams it as the converted file (458-462).
* The cached name, which the comment at 455 calls unique, is made of the base name: a
  second Parquet file of that name, from another directory, gets the rows of the
  first (`twin`).
* `handle_drop` takes a name that ends in `.PARQUET` (284); `toggle_stream` does not
  convert it (453) and the engine reads the Parquet file as text.
* A loss that the listener notices between the two tests of `send_command` clears
  `is_streaming` (218-219) while the handler reconnects and starts the stream
  (260-265): the engine streams and the panel shows none.
* `toggle_stream` returns when no file is selected, also when it is a Stop that
  was clicked (434-438).
* If the user clicks between a listener's `is_connected = False` and its end,
  `send_command` reconnects, the ending listener marks the new connection as lost
  and enables Reconnect, and that click closes a socket on which the new listener
  waits; the engine never sees the end of that connection and never accepts the
  next one.

Verifier and scripts:

* "Reproduce the host engine's tokenizer exactly" (`verify_bitexact.py:55`): the
  engine skips an empty line and sends nothing for it, the verifier makes it a row
  of zeros, and all later rows are compared with the features of another line.
  Of a date `stof` reads the year and `float()` nothing, so the row's features
  shift; numbers that `stof` refuses and NaN are read differently, too.
* The verifier looks for extra headers to find a log that was appended to
  (192-194, and `RUNBOOK.md`); the engine writes the header into an empty file
  only, so an appended log never has one (`ToolsAgree` states it), and the
  second run's rows are compared with lines beyond the first run's.
* With the short replies of one or 21 bytes the log has the columns of the scores,
  empty; the verifier reads zeros and says MISMATCH, where 237 would say that they
  are unavailable.
* "every value is an exact multiple of 1/256, so nothing is lost"
  (`make_verify_stream.py:86`): six decimals lose half of the odd multiples by less than a unit.
  The Linux engine rounds them back (`StimulusSurvives`), a truncating cast does not.
* `quantization_analysis.py` describes and replicates the `static_cast` for the
  Linux engine (its docstring, and 51-57), which now rounds and clips.
* `data_prep_binance.py` reads the first row as a header and loses a record when
  there is none; `RecordsKept` is about the records after it.
* A weight beyond +-128 is cut to its low 16 bits by `arm_w*` and kept by the
  verifier and by the loader; `ImplementationsAgree` excludes it.
* Of HOLD and BUY with equal scores above SELL the decision is SELL
  (`main.c:353-360`).

## 7. What is not modelled

* Latency measurement, the pacing delay (a stutter), the contents of status
  lines, the name of the log, the dashboard with its counter, the delay slider,
  the layout of the window.
* The benchmark around the processor's inference in `main.c` and its report; the
  build without `ENABLE_STAGE_TIMING` (the repository defines it as 1), which does
  not wait for the channel before it waits for done: whether a done bit of the
  previous inference can be seen there depends on the core's logic, which is not
  in the repository.
* The null-pointer tests of the loader: `main.c` passes parts of one buffer.
  `mlp_predict` has no caller.
* Means, percentiles, histograms and plots of the scripts; the float reference,
  the errors and the F1 scores of `quantization_analysis.py`; the formatting of
  reports.
* Platform code, linker script, build files and loading scripts: vendor template.
