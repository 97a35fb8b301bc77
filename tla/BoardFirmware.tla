--------------------------- MODULE BoardFirmware ---------------------------
(***************************************************************************)
(* The firmware of lwip_echo_server/src/main.c, one bare-metal loop on one  *)
(* processor, beside the hardware it drives: the Ethernet receive queue,    *)
(* the data cache, the MM2S channel of the AXI DMA, and the inference core  *)
(* with its weight memory.  The firmware never blocks an interrupt and has  *)
(* no second thread: what interleaves with it is the hardware.              *)
(*                                                                          *)
(* The hardware is external and modelled from how main.c uses it: the       *)
(* channel is idle once the core has taken the last beat; that beat starts  *)
(* the core; done stays set from the end of one inference to the start of   *)
(* the next (the loop at 341 reads it after the fact), and the scores and   *)
(* the cycle count stay until the next inference ends.                      *)
(***************************************************************************)
EXTENDS Integers, Sequences

CONSTANTS
  MaxPackets,  \* bound on the packets that arrive
  QueueLength  \* frames the receive queue holds

ASSUME BoundsAssumption == MaxPackets \in Nat /\ QueueLength \in Nat

VARIABLES
  pc,        \* where the firmware is
  dmaReady,  \* DmaInitSuccess
  rx,        \* frames received and not yet polled
  pkt,       \* the packet udp_recv_callback works on
  layer,     \* load_default_network: the layer to be written next
  inputs,    \* the static feature buffer, as the processor sees it
  ram,       \* the same buffer in memory, as the DMA sees it
  accepted,  \* status = XST_SUCCESS
  cyc, outs, \* cyc; out0, out1, out2
  dma,       \* the MM2S channel
  stream,    \* the features it carries
  core,      \* the inference core
  bram,      \* per layer, the model packet its weights come from
  outbox,    \* replies sent
  network,   \* history: the model packet loaded last
  narrived   \* packets that arrived so far

firmware == <<pc, dmaReady, pkt, layer, inputs, accepted, cyc, outs>>
hardware == <<dma, stream, core>>
io == <<rx, outbox, narrived>>
vars == <<firmware, ram, hardware, bram, io, network>>

Layers == 1..4
Scores == 1..3
NoPacket == [cmd |-> "other", long |-> FALSE, id |-> 0]

Running == pc \notin {"boot", "halted"}

\* The packet in work, from its poll to its pbuf_free.
InWork == pc \notin {"boot", "halted", "poll", "free"}
Inbox == {rx[i] : i \in 1..Len(rx)} \cup (IF InWork THEN {pkt} ELSE {})

Board == INSTANCE InferenceBoard
           WITH PacketIds <- 1..MaxPackets, inbox <- Inbox

-----------------------------------------------------------------------------
(* main and udp_recv_callback.                                              *)

\* The DMA may fail to initialise, and main goes on without it; the reset
\* pulse leaves the done bit as the core has it.
BootUp ==
  /\ pc = "boot"
  /\ dmaReady' \in BOOLEAN
  /\ pc' = "poll"
  /\ UNCHANGED <<pkt, layer, inputs, accepted, cyc, outs, ram, hardware, bram,
                 io, network>>

\* xemac_add, udp_new or udp_bind fails: main returns.
BootFails ==
  /\ pc = "boot"
  /\ pc' = "halted"
  /\ UNCHANGED <<dmaReady, pkt, layer, inputs, accepted, cyc, outs, ram,
                 hardware, bram, io, network>>

\* xemacif_input hands one frame to the callback, which dispatches on its first
\* byte and its length.
Poll ==
  /\ pc = "poll"
  /\ rx # << >>
  /\ pkt' = Head(rx)
  /\ rx' = Tail(rx)
  /\ layer' = 1
  /\ pc' = CASE pkt'.cmd = "M" /\ pkt'.long -> "load"
             [] pkt'.cmd = "D" /\ pkt'.long -> "copy"
             [] OTHER                       -> "ignore"
  /\ UNCHANGED <<dmaReady, inputs, accepted, cyc, outs, ram, hardware, bram,
                 outbox, network, narrived>>

\* Fault: one layer too many.
LayersPlusOne == 5

\* load_default_network writes four layers.
LayersToLoad == 4

\* load_layer_to_hw for one layer.
LoadLayer ==
  /\ pc = "load"
  /\ bram' = [bram EXCEPT ![layer] = pkt.id]
  /\ layer' = layer + 1
  /\ pc' = IF layer = LayersToLoad THEN "ack" ELSE "load"
  /\ UNCHANGED <<dmaReady, pkt, inputs, accepted, cyc, outs, ram, hardware, io,
                 network>>

\* The model is in place; the ACK needs a pbuf.
AckModel ==
  /\ pc = "ack"
  /\ network' = pkt.id
  /\ outbox' \in {outbox, outbox \cup {Board!Ack(pkt)}}
  /\ pc' = "free"
  /\ UNCHANGED <<dmaReady, pkt, layer, inputs, accepted, cyc, outs, ram,
                 hardware, bram, rx, narrived>>

\* memcpy into the feature buffer; without a DMA there is no more to do.
CopyFeatures ==
  /\ pc = "copy"
  /\ inputs' = pkt.id
  /\ pc' = IF dmaReady THEN "flush" ELSE "ignore"
  /\ UNCHANGED <<dmaReady, pkt, layer, accepted, cyc, outs, ram, hardware,
                 bram, io, network>>

\* Fault: the flush is left out.
Unflushed == UNCHANGED ram

\* Xil_DCacheFlushRange writes the buffer back to memory.
Flushed == ram' = inputs

Flush ==
  /\ pc = "flush"
  /\ Flushed
  /\ pc' = "transfer"
  /\ UNCHANGED <<dmaReady, pkt, layer, inputs, accepted, cyc, outs, hardware,
                 bram, io, network>>

\* XAxiDma_SimpleTransfer refuses while the channel is busy.
StartTransfer ==
  /\ pc = "transfer"
  /\ accepted' = (dma = "idle")
  /\ dma' = IF dma = "idle" THEN "started" ELSE dma
  /\ pc' = "drain"
  /\ UNCHANGED <<dmaReady, pkt, layer, inputs, cyc, outs, ram, stream, core,
                 bram, io, network>>

\* Fault: nobody waits for the channel.
Undrained == TRUE

\* XAxiDma_Busy returns false.
Drained == dma = "idle"

\* The wait for the channel; done is waited for only if the transfer started.
AwaitDrain ==
  /\ pc = "drain"
  /\ Drained
  /\ pc' = IF accepted THEN "done" ELSE "cycles"
  /\ UNCHANGED <<dmaReady, pkt, layer, inputs, accepted, cyc, outs, ram,
                 hardware, bram, io, network>>

\* Fault: the results are read at once.
NotAwaited == TRUE
\* Fault: the busy bit is tested in place of the done bit.
BusyBit == core.busy

\* Bit 0 of the status register.
DoneBit == core.done

AwaitDone ==
  /\ pc = "done"
  /\ DoneBit
  /\ pc' = "cycles"
  /\ UNCHANGED <<dmaReady, pkt, layer, inputs, accepted, cyc, outs, ram,
                 hardware, bram, io, network>>

ReadCycles ==
  /\ pc = "cycles"
  /\ cyc' = core.cycles
  /\ outs' = << >>
  /\ pc' = "scores"
  /\ UNCHANGED <<dmaReady, pkt, layer, inputs, accepted, ram, hardware, bram,
                 io, network>>

\* Three reads of three registers, one after the other.
ReadScore ==
  /\ pc = "scores"
  /\ outs' = Append(outs, core.scores[Len(outs) + 1])
  /\ pc' = IF Len(outs') = 3 THEN "reply" ELSE "scores"
  /\ UNCHANGED <<dmaReady, pkt, layer, inputs, accepted, cyc, ram, hardware,
                 bram, io, network>>

\* The decision with the scores and the cycle count, if there is a pbuf for it.
SendReply ==
  /\ pc = "reply"
  /\ outbox' \in {outbox,
       outbox \cup {[kind |-> "decision", id |-> pkt.id, scores |-> outs,
                     cycles |-> cyc]}}
  /\ pc' = "free"
  /\ UNCHANGED <<dmaReady, pkt, layer, inputs, accepted, cyc, outs, ram,
                 hardware, bram, rx, network, narrived>>

\* The paths that leave the switch without a reply.
LeaveSwitch ==
  /\ pc = "ignore"
  /\ pc' = "free"
  /\ UNCHANGED <<dmaReady, pkt, layer, inputs, accepted, cyc, outs, ram,
                 hardware, bram, io, network>>

FreePbuf ==
  /\ pc = "free"
  /\ pc' = "poll"
  /\ UNCHANGED <<dmaReady, pkt, layer, inputs, accepted, cyc, outs, ram,
                 hardware, bram, io, network>>

Firmware ==
  \/ BootUp \/ BootFails \/ Poll \/ LoadLayer \/ AckModel \/ CopyFeatures
  \/ Flush \/ StartTransfer \/ AwaitDrain \/ AwaitDone \/ ReadCycles
  \/ ReadScore \/ SendReply \/ LeaveSwitch \/ FreePbuf

-----------------------------------------------------------------------------
(* The hardware.                                                            *)

\* A frame arrives; a full queue drops it.
Receive ==
  /\ narrived < MaxPackets
  /\ narrived' = narrived + 1
  /\ \E cmd \in {"M", "D", "other"}, long \in BOOLEAN :
       rx' = IF Len(rx) < QueueLength
             THEN Append(rx, [cmd |-> cmd, long |-> long, id |-> narrived + 1])
             ELSE rx
  /\ UNCHANGED <<firmware, ram, hardware, bram, outbox, network>>

\* The cache may write a line back at any time.
Evict ==
  /\ ram # inputs
  /\ ram' = inputs
  /\ UNCHANGED <<firmware, hardware, bram, io, network>>

\* MM2S reads the buffer from memory ...
DmaFetch ==
  /\ dma = "started"
  /\ dma' = "streaming"
  /\ stream' = ram
  /\ UNCHANGED <<firmware, ram, core, bram, io, network>>

\* ... the core takes the last beat and starts ...
DmaLastBeat ==
  /\ dma = "streaming"
  /\ ~core.busy
  /\ dma' = "drained"
  /\ core' = [core EXCEPT !.busy = TRUE, !.done = FALSE, !.input = stream]
  /\ UNCHANGED <<firmware, ram, stream, bram, io, network>>

\* ... and the channel goes idle.
DmaIdle ==
  /\ dma = "drained"
  /\ dma' = "idle"
  /\ UNCHANGED <<firmware, ram, stream, core, bram, io, network>>

\* The inference ends: scores and cycle count are latched with done.
CoreFinish ==
  /\ core.busy
  /\ core' = [core EXCEPT !.busy = FALSE, !.done = TRUE, !.cycles = core.input,
                !.scores = [k \in Scores |-> [input |-> core.input, weights |-> bram]]]
  /\ UNCHANGED <<firmware, ram, dma, stream, bram, io, network>>

Hardware == Evict \/ DmaFetch \/ DmaLastBeat \/ DmaIdle \/ CoreFinish

NoWeights == [l \in Layers |-> 0]

\* The core may come up with done set and with any scores, here those of no
\* packet.
Init ==
  /\ pc = "boot" /\ dmaReady = FALSE
  /\ rx = << >> /\ pkt = NoPacket /\ layer = 1
  /\ inputs = 0 /\ ram = 0 /\ accepted = FALSE
  /\ cyc = 0 /\ outs = << >>
  /\ dma = "idle" /\ stream = 0
  /\ core \in [busy : {FALSE}, done : BOOLEAN, input : {0}, cycles : {0},
               scores : {[k \in Scores |-> [input |-> 0, weights |-> NoWeights]]}]
  /\ bram = NoWeights
  /\ outbox = {} /\ network = 0 /\ narrived = 0

Next == Firmware \/ Receive \/ Hardware

Spec == Init /\ [][Next]_vars

\* The processor runs; the DMA moves the data and the core ends its inference.
FairSpec == Spec /\ WF_vars(Firmware) /\ WF_vars(Hardware)

-----------------------------------------------------------------------------
(* Properties.                                                              *)

Ids == 0..MaxPackets
ScoreValue == [input : Ids, weights : [Layers -> Ids]]

\* Every variable keeps its type; the loader writes the four layers and no more.
TypeOK ==
  /\ pc \in {"boot", "halted", "poll", "load", "ack", "copy", "flush",
             "transfer", "drain", "done", "cycles", "scores", "reply",
             "ignore", "free"}
  /\ dmaReady \in BOOLEAN /\ accepted \in BOOLEAN
  /\ rx \in Seq(Board!Packet)
  /\ pkt \in Board!Packet \cup {NoPacket}
  /\ layer \in 1..5
  /\ inputs \in Ids /\ ram \in Ids /\ cyc \in Ids /\ stream \in Ids
  /\ outs \in Seq(ScoreValue)
  /\ dma \in {"idle", "started", "streaming", "drained"}
  /\ core \in [busy : BOOLEAN, done : BOOLEAN, input : Ids, cycles : Ids,
               scores : [Scores -> ScoreValue]]
  /\ bram \in [Layers -> Ids]
  /\ network \in Ids /\ narrived \in Ids

\* The weights are written only while no features are on their way to the core
\* and the core is not computing: no inference uses a half-loaded model
\* (286 against 332-343).
WeightsQuiescent == pc = "load" => dma = "idle" /\ ~core.busy

\* XAxiDma_SimpleTransfer is never refused: the path at 339 that skips the wait
\* for done and still sends a reply is not taken.
TransfersAccepted == pc = "transfer" => dma = "idle"

\* The board keeps what InferenceBoard promises: each reply is the inference of
\* its own packet on the last model loaded (242-415).
ImplementsBoard == Board!BoardSpec

\* Every packet's callback ends and the loop polls again (480-488), given that
\* the DMA and the core do their part.
PollReturns == Running ~> pc = "poll"
=============================================================================
