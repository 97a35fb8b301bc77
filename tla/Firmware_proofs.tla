-------------------------- MODULE Firmware_proofs --------------------------
(***************************************************************************)
(* Theorems about the firmware.  Its callback and its hardware implement    *)
(* InferenceBoard, for every number of packets and every queue length: each *)
(* reply is the inference of its own packet on the model loaded last.  And  *)
(* the time stamps that the callback puts into a reply: 64 bits of time are *)
(* read in two halves, and what is sent of them is real.                    *)
(***************************************************************************)
EXTENDS BoardFirmware, GlobalTimer, TLAPS

-----------------------------------------------------------------------------
(* Types.                                                                   *)

\* The two loops of the callback stay within their bounds.
LoopBounds == (pc = "load" => layer \in Layers) /\ (pc = "scores" => Len(outs) < 3)
TypeInv == TypeOK /\ LoopBounds

\* The firmware's steps keep the types.
LEMMA FirmwareType == ASSUME TypeInv, Firmware PROVE TypeInv'
<1> USE BoundsAssumption DEF firmware, hardware, io, Ids, TypeInv, LoopBounds
<1>1. CASE BootUp  BY <1>1 DEF BootUp, TypeOK
<1>2. CASE BootFails  BY <1>2 DEF BootFails, TypeOK
<1>3. CASE Poll
  <2>1. pkt' \in Board!Packet /\ rx' \in Seq(Board!Packet)
    BY <1>3 DEF Poll, TypeOK
  <2>2. pc' \in {"load", "copy", "ignore"} /\ layer' = 1
    BY <1>3 DEF Poll
  <2>3. UNCHANGED <<dmaReady, inputs, accepted, cyc, outs, ram, hardware, bram,
                    outbox, network, narrived>>
    BY <1>3 DEF Poll
  <2>4. LoopBounds'  BY <2>2 DEF Layers
  <2>5. TypeOK'
    BY <2>1, <2>2, <2>3 DEF TypeOK
  <2> QED  BY <2>4, <2>5
<1>4. CASE LoadLayer
  <2>1. pkt.id \in Ids  BY DEF TypeOK, Board!Packet, NoPacket
  <2>2. bram' \in [Layers -> Ids]  BY <1>4, <2>1 DEF LoadLayer, TypeOK
  <2>3. layer' \in 1..5 /\ (pc' = "load" => layer' \in Layers)
    BY <1>4 DEF LoadLayer, LayersToLoad, Layers
  <2> QED  BY <1>4, <2>2, <2>3 DEF LoadLayer, TypeOK
<1>5. CASE AckModel
  <2>1. pkt.id \in Ids  BY DEF TypeOK, Board!Packet, NoPacket
  <2> QED  BY <1>5, <2>1 DEF AckModel, TypeOK
<1>6. CASE CopyFeatures
  <2>1. pkt.id \in Ids  BY DEF TypeOK, Board!Packet, NoPacket
  <2> QED  BY <1>6, <2>1 DEF CopyFeatures, TypeOK
<1>7. CASE Flush  BY <1>7 DEF Flush, Flushed, TypeOK
<1>8. CASE StartTransfer  BY <1>8 DEF StartTransfer, TypeOK
<1>9. CASE AwaitDrain  BY <1>9 DEF AwaitDrain, TypeOK
<1>10. CASE AwaitDone  BY <1>10 DEF AwaitDone, TypeOK
<1>11. CASE ReadCycles
  <2>1. outs' = << >> /\ cyc' \in Ids  BY <1>11 DEF ReadCycles, TypeOK
  <2> QED  BY <1>11, <2>1 DEF ReadCycles, TypeOK
<1>12. CASE ReadScore
  <2>1. Len(outs) + 1 \in Scores  BY <1>12 DEF ReadScore, Scores, TypeOK
  <2>2. core.scores[Len(outs) + 1] \in ScoreValue  BY <2>1 DEF TypeOK
  <2>3. outs' \in Seq(ScoreValue) /\ Len(outs') = Len(outs) + 1
    BY <1>12, <2>2 DEF ReadScore, TypeOK
  <2>4. pc' = "scores" => Len(outs') < 3
    BY <1>12, <2>1, <2>3 DEF ReadScore, Scores
  <2> QED  BY <1>12, <2>3, <2>4 DEF ReadScore, TypeOK
<1>13. CASE SendReply  BY <1>13 DEF SendReply, TypeOK
<1>14. CASE LeaveSwitch  BY <1>14 DEF LeaveSwitch, TypeOK
<1>15. CASE FreePbuf  BY <1>15 DEF FreePbuf, TypeOK
<1> QED
  BY <1>1, <1>2, <1>3, <1>4, <1>5, <1>6, <1>7, <1>8, <1>9, <1>10, <1>11,
     <1>12, <1>13, <1>14, <1>15 DEF Firmware

\* The steps of the network card, the cache and the core keep the types.
LEMMA HardwareType == ASSUME TypeInv, Receive \/ Hardware PROVE TypeInv'
<1> USE BoundsAssumption DEF firmware, hardware, io, TypeInv, LoopBounds
<1>1. CASE Receive
  <2>1. PICK cmd \in {"M", "D", "other"}, long \in BOOLEAN :
          rx' = IF Len(rx) < QueueLength
                THEN Append(rx, [cmd |-> cmd, long |-> long, id |-> narrived + 1])
                ELSE rx
    BY <1>1 DEF Receive
  <2>2. narrived + 1 \in 1..MaxPackets  BY <1>1 DEF Receive, TypeOK, Ids
  <2>3. [cmd |-> cmd, long |-> long, id |-> narrived + 1] \in Board!Packet
    BY <2>2 DEF Board!Packet
  <2>4. rx' \in Seq(Board!Packet)  BY <2>1, <2>3 DEF TypeOK
  <2> QED  BY <1>1, <2>2, <2>4 DEF Receive, TypeOK, Ids
<1>2. CASE Evict  BY <1>2 DEF Evict, TypeOK
<1>3. CASE DmaFetch  BY <1>3 DEF DmaFetch, TypeOK
<1>4. CASE DmaLastBeat
  <2>1. core' \in [busy : BOOLEAN, done : BOOLEAN, input : Ids, cycles : Ids,
                   scores : [Scores -> ScoreValue]]
    BY <1>4 DEF DmaLastBeat, TypeOK
  <2> QED  BY <1>4, <2>1 DEF DmaLastBeat, TypeOK
<1>5. CASE DmaIdle  BY <1>5 DEF DmaIdle, TypeOK
<1>6. CASE CoreFinish
  <2>1. [input |-> core.input, weights |-> bram] \in ScoreValue
    BY DEF TypeOK, ScoreValue
  <2>2. core' \in [busy : BOOLEAN, done : BOOLEAN, input : Ids, cycles : Ids,
                   scores : [Scores -> ScoreValue]]
    BY <1>6, <2>1 DEF CoreFinish, TypeOK
  <2> QED  BY <1>6, <2>2 DEF CoreFinish, TypeOK
<1> QED
  BY <1>1, <1>2, <1>3, <1>4, <1>5, <1>6 DEF Hardware

\* The board powers up with well-typed state.
LEMMA FirmwareTypeInit == Init => TypeInv
<1> SUFFICES ASSUME Init PROVE TypeInv
  OBVIOUS
<1> USE BoundsAssumption DEF Ids
<1>1. NoWeights \in [Layers -> Ids]  BY DEF NoWeights
<1>2. core \in [busy : BOOLEAN, done : BOOLEAN, input : Ids, cycles : Ids,
                scores : [Scores -> ScoreValue]]
  <2>1. [input |-> 0, weights |-> NoWeights] \in ScoreValue
    BY <1>1 DEF ScoreValue
  <2>2. [k \in Scores |-> [input |-> 0, weights |-> NoWeights]]
          \in [Scores -> ScoreValue]
    BY <2>1
  <2>3. PICK d \in BOOLEAN :
          core = [busy |-> FALSE, done |-> d, input |-> 0, cycles |-> 0,
                  scores |-> [k \in Scores |-> [input |-> 0, weights |-> NoWeights]]]
    BY DEF Init
  <2> QED  BY <2>2, <2>3
<1>3. rx \in Seq(Board!Packet) /\ outs \in Seq(ScoreValue)  BY DEF Init
<1>4. bram \in [Layers -> Ids]  BY <1>1 DEF Init
<1>5. layer \in 1..5 /\ LoopBounds  BY DEF Init, LoopBounds
<1>6. dmaReady \in BOOLEAN /\ accepted \in BOOLEAN  BY DEF Init
<1>7. /\ inputs \in Ids /\ ram \in Ids /\ cyc \in Ids /\ stream \in Ids
      /\ network \in Ids /\ narrived \in Ids
  BY DEF Init
<1> QED
  BY <1>2, <1>3, <1>4, <1>5, <1>6, <1>7 DEF Init, TypeInv, TypeOK

\* Every variable keeps its type; the weight loader writes four layers, the
\* reply carries three scores.
THEOREM FirmwareTypeCorrect == Spec => []TypeOK
<1>1. Init => TypeInv  BY FirmwareTypeInit
<1>2. TypeInv /\ [Next]_vars => TypeInv'
  <2> SUFFICES ASSUME TypeInv, [Next]_vars PROVE TypeInv'
    OBVIOUS
  <2>1. CASE Next  BY <2>1, FirmwareType, HardwareType DEF Next
  <2>2. CASE UNCHANGED vars
    BY <2>2 DEF vars, firmware, hardware, io, TypeInv, TypeOK, LoopBounds
  <2> QED  BY <2>1, <2>2
<1>3. TypeInv => TypeOK  BY DEF TypeInv
<1> QED  BY <1>1, <1>2, <1>3, PTL DEF Spec

-----------------------------------------------------------------------------
(* The inductive invariant: who is doing what while the callback works.     *)

\* The inference of the packet in work on the network loaded last.
Result == [input |-> pkt.id, weights |-> [l \in Layers |-> network]]
Finished ==
  /\ ~core.busy /\ core.done /\ core.cycles = pkt.id
  /\ \A k \in Scores : core.scores[k] = Result
Computing == core.busy /\ ~core.done

\* The channel is busy only while the firmware waits for it, the core only
\* while the firmware waits for one or the other; packets reach the code of
\* their kind.
ControlInv ==
  /\ pc # "drain" => dma = "idle"
  /\ core.busy => pc \in {"drain", "done"}
  /\ InWork => pkt \in Board!Packet
  /\ pc \in {"load", "ack"} => pkt.cmd = "M" /\ pkt.long
  /\ pc \in {"copy", "flush", "transfer", "drain", "done", "cycles", "scores",
             "reply"} => pkt.cmd = "D" /\ pkt.long

\* Between loads the weights of all layers are of one model.
WeightsInv ==
  /\ pc = "load" => \A l \in Layers : l < layer => bram[l] = pkt.id
  /\ pc = "ack" => \A l \in Layers : bram[l] = pkt.id
  /\ pc \notin {"load", "ack"} => \A l \in Layers : bram[l] = network

\* The packet's features travel from the buffer to memory, to the channel, to
\* the core, and come back as its scores.
InferenceInv ==
  /\ pc \in {"flush", "transfer", "drain"} => inputs = pkt.id
  /\ pc = "transfer" => ram = inputs
  /\ pc = "drain" =>
       /\ accepted
       /\ dma = "started" => ram = inputs /\ ~core.busy
       /\ dma = "streaming" => stream = pkt.id /\ ~core.busy
       /\ dma \in {"drained", "idle"} =>
            core.input = pkt.id /\ (Computing \/ Finished)
  /\ pc = "done" => core.input = pkt.id /\ (Computing \/ Finished)
  /\ pc \in {"cycles", "scores", "reply"} => Finished
  /\ pc \in {"scores", "reply"} =>
       cyc = pkt.id /\ \A k \in 1..Len(outs) : outs[k] = Result
  /\ pc = "reply" => Len(outs) = 3

FlowInv == ControlInv /\ WeightsInv /\ InferenceInv

\* The firmware's steps keep what each program point knows of the weights
\* and of the core's results.
LEMMA FirmwareFlow ==
  ASSUME TypeInv, FlowInv, Firmware PROVE FlowInv'
<1> USE DEF firmware, hardware, io, FlowInv, ControlInv, InWork
<1>1. CASE BootUp
  BY <1>1 DEF BootUp, WeightsInv, InferenceInv
<1>2. CASE BootFails
  BY <1>2 DEF BootFails, WeightsInv, InferenceInv
<1>3. CASE Poll
  <2>1. pkt' \in Board!Packet  BY <1>3 DEF Poll, TypeInv, TypeOK
  <2>2. pc' \in {"load", "copy", "ignore"} /\ layer' = 1
    BY <1>3 DEF Poll
  <2>3. WeightsInv'
    BY <1>3, <2>2 DEF Poll, WeightsInv, Layers
  <2> QED  BY <1>3, <2>1, <2>2, <2>3 DEF Poll, InferenceInv
<1>4. CASE LoadLayer
  <2>1. layer \in Layers /\ bram \in [Layers -> Ids]
    BY <1>4 DEF LoadLayer, TypeInv, TypeOK, LoopBounds
  <2>2. \A l \in Layers : l <= layer => bram'[l] = pkt.id
    BY <1>4, <2>1 DEF LoadLayer, WeightsInv, Layers
  <2>3. WeightsInv'
    BY <1>4, <2>1, <2>2 DEF LoadLayer, LayersToLoad, WeightsInv, Layers
  <2> QED  BY <1>4, <2>3 DEF LoadLayer, InferenceInv
<1>5. CASE AckModel
  <2>1. WeightsInv'  BY <1>5 DEF AckModel, WeightsInv
  <2> QED  BY <1>5, <2>1 DEF AckModel, InferenceInv
<1>6. CASE CopyFeatures
  BY <1>6 DEF CopyFeatures, WeightsInv, InferenceInv
<1>7. CASE Flush
  BY <1>7 DEF Flush, Flushed, WeightsInv, InferenceInv
<1>8. CASE StartTransfer
  BY <1>8 DEF StartTransfer, WeightsInv, InferenceInv
<1>9. CASE AwaitDrain
  BY <1>9 DEF AwaitDrain, Drained, WeightsInv, InferenceInv, Computing,
              Finished, Result
<1>10. CASE AwaitDone
  BY <1>10 DEF AwaitDone, DoneBit, WeightsInv, InferenceInv, Computing,
               Finished, Result
<1>11. CASE ReadCycles
  <2>1. Finished  BY <1>11 DEF ReadCycles, InferenceInv
  <2>2. Len(outs') = 0  BY <1>11 DEF ReadCycles
  <2> QED
    BY <1>11, <2>1, <2>2 DEF ReadCycles, WeightsInv, InferenceInv, Finished, Result
<1>12. CASE ReadScore
  <2>1. /\ Finished
        /\ cyc = pkt.id /\ \A k \in 1..Len(outs) : outs[k] = Result
    BY <1>12 DEF ReadScore, InferenceInv
  <2>2. Len(outs) \in Nat /\ Len(outs) < 3
    BY <1>12 DEF ReadScore, TypeInv, TypeOK, LoopBounds
  <2>3. /\ Len(outs') = Len(outs) + 1
        /\ \A k \in 1..Len(outs) : outs'[k] = outs[k]
        /\ outs'[Len(outs) + 1] = core.scores[Len(outs) + 1]
    BY <1>12 DEF ReadScore, TypeInv, TypeOK
  <2>4. Len(outs) + 1 \in Scores  BY <2>2 DEF Scores
  <2>5. \A k \in 1..Len(outs') : outs'[k] = Result
    BY <2>1, <2>2, <2>3, <2>4 DEF Finished
  <2>6. Finished' /\ Result' = Result
    BY <1>12, <2>1 DEF ReadScore, Finished, Result
  <2>7. pc' \in {"scores", "reply"} /\ (pc' = "reply" => Len(outs') = 3)
    BY <1>12 DEF ReadScore
  <2> QED
    BY <1>12, <2>1, <2>5, <2>6, <2>7 DEF ReadScore, WeightsInv, InferenceInv
<1>13. CASE SendReply
  BY <1>13 DEF SendReply, WeightsInv, InferenceInv
<1>14. CASE LeaveSwitch
  BY <1>14 DEF LeaveSwitch, WeightsInv, InferenceInv
<1>15. CASE FreePbuf
  BY <1>15 DEF FreePbuf, WeightsInv, InferenceInv
<1> QED
  BY <1>1, <1>2, <1>3, <1>4, <1>5, <1>6, <1>7, <1>8, <1>9, <1>10, <1>11,
     <1>12, <1>13, <1>14, <1>15 DEF Firmware

\* The hardware's steps keep what the firmware knows.
LEMMA HardwareFlow ==
  ASSUME TypeInv, FlowInv, Receive \/ Hardware PROVE FlowInv'
<1> USE DEF firmware, hardware, io, FlowInv, ControlInv, InWork
<1>1. CASE Receive
  BY <1>1 DEF Receive, WeightsInv, InferenceInv, Computing, Finished, Result
<1>2. CASE Evict
  BY <1>2 DEF Evict, WeightsInv, InferenceInv, Computing, Finished, Result
<1>3. CASE DmaFetch
  BY <1>3 DEF DmaFetch, WeightsInv, InferenceInv, Computing, Finished, Result
<1>4. CASE DmaLastBeat
  <2>1. pc = "drain" /\ stream = pkt.id  BY <1>4 DEF DmaLastBeat, InferenceInv
  <2>2. core'.busy = TRUE /\ core'.done = FALSE /\ core'.input = stream
    BY <1>4 DEF DmaLastBeat, TypeInv, TypeOK
  <2>3. UNCHANGED <<pc, pkt, inputs, ram, accepted, outs, cyc, bram, network,
                    layer>> /\ dma' = "drained"
    BY <1>4 DEF DmaLastBeat
  <2>4. WeightsInv'  BY <2>3 DEF WeightsInv
  <2>5. InferenceInv'
    BY <2>1, <2>2, <2>3 DEF InferenceInv, Computing
  <2> QED  BY <2>1, <2>3, <2>4, <2>5
<1>5. CASE DmaIdle
  BY <1>5 DEF DmaIdle, WeightsInv, InferenceInv, Computing, Finished, Result
<1>6. CASE CoreFinish
  <2>1. pc \in {"drain", "done"}  BY <1>6 DEF CoreFinish
  <2>2. /\ core'.busy = FALSE /\ core'.done = TRUE
        /\ core'.input = core.input /\ core'.cycles = core.input
        /\ \A k \in Scores :
             core'.scores[k] = [input |-> core.input, weights |-> bram]
    BY <1>6 DEF CoreFinish, TypeInv, TypeOK
  <2>3. UNCHANGED <<pc, pkt, inputs, ram, accepted, outs, cyc, bram, network,
                    layer, dma, stream>>
    BY <1>6 DEF CoreFinish
  <2>4. bram = [l \in Layers |-> network]
    <3>1. \A l \in Layers : bram[l] = network  BY <2>1 DEF WeightsInv
    <3> QED  BY <3>1 DEF TypeInv, TypeOK
  <2>5. core.busy  BY <1>6 DEF CoreFinish
  <2>6. core.input = pkt.id => Finished'
    BY <2>2, <2>3, <2>4 DEF Finished, Result
  <2>7. InferenceInv'
    BY <2>1, <2>2, <2>3, <2>5, <2>6 DEF InferenceInv
  <2>8. WeightsInv'  BY <2>3 DEF WeightsInv
  <2> QED  BY <2>1, <2>2, <2>3, <2>7, <2>8
<1> QED
  BY <1>1, <1>2, <1>3, <1>4, <1>5, <1>6 DEF Hardware

\* Packets are taken in the order they arrived, each once.
QueueInv ==
  /\ \A i \in 1..Len(rx) : rx[i].id <= narrived
  /\ \A i, j \in 1..Len(rx) : i < j => rx[i].id < rx[j].id
  /\ InWork => pkt.id <= narrived /\ \A i \in 1..Len(rx) : pkt.id < rx[i].id

\* The receive queue is a finite sequence of numbered packets.
LEMMA QueueTypes ==
  ASSUME TypeInv
  PROVE  /\ narrived \in Nat /\ Len(rx) \in Nat
         /\ \A i \in 1..Len(rx) : rx[i].id \in Nat
<1>1. narrived \in Nat
  BY BoundsAssumption DEF TypeInv, TypeOK, Ids
<1>2. Len(rx) \in Nat /\ \A i \in 1..Len(rx) : rx[i] \in Board!Packet
  BY DEF TypeInv, TypeOK
<1>3. \A p \in Board!Packet : p.id \in 1..MaxPackets
  BY DEF Board!Packet
<1>4. 1..MaxPackets \subseteq Nat
  BY BoundsAssumption
<1> QED  BY <1>1, <1>2, <1>3, <1>4

\* The queue keeps packets in the order of their arrival.
LEMMA QueueFlow ==
  ASSUME TypeInv, FlowInv, QueueInv, Next PROVE QueueInv'
<1> USE DEF firmware, hardware, io, InWork
<1>1. CASE Poll
  <2>1. /\ pkt' = rx[1] /\ Len(rx') = Len(rx) - 1 /\ Len(rx) \in Nat \ {0}
        /\ \A i \in 1..Len(rx') : rx'[i] = rx[i + 1]
        /\ narrived' = narrived
    BY <1>1 DEF Poll, TypeInv, TypeOK
  <2>2. \A i \in 1..Len(rx') : i + 1 \in 1..Len(rx) /\ 1 < i + 1
    BY <2>1
  <2>3. \A i \in 1..Len(rx') : rx'[i].id <= narrived /\ pkt'.id < rx'[i].id
    BY <2>1, <2>2 DEF QueueInv
  <2>4. \A i, j \in 1..Len(rx') : i < j => rx'[i].id < rx'[j].id
    BY <2>1, <2>2 DEF QueueInv
  <2>5. pkt'.id <= narrived  BY <2>1 DEF QueueInv
  <2> QED  BY <2>1, <2>3, <2>4, <2>5 DEF QueueInv
<1>2. CASE Receive
  <2>1. CASE UNCHANGED rx
    <3>1. narrived \in Nat /\ \A i \in 1..Len(rx) : rx[i].id \in Nat
      BY QueueTypes
    <3>2. InWork => pkt.id \in Nat
      BY BoundsAssumption DEF FlowInv, ControlInv, Board!Packet
    <3> QED  BY <1>2, <2>1, <3>1, <3>2 DEF Receive, QueueInv
  <2>2. CASE rx' # rx
    <3>1. PICK p \in [cmd : {"M", "D", "other"}, long : BOOLEAN, id : {narrived + 1}] :
            rx' = Append(rx, p)
      BY <1>2, <2>2 DEF Receive
    <3>2. /\ narrived \in Nat /\ Len(rx) \in Nat
          /\ \A i \in 1..Len(rx) : rx[i].id \in Nat
      BY QueueTypes
    <3>3. InWork => pkt.id \in Nat
      BY BoundsAssumption DEF FlowInv, ControlInv, Board!Packet
    <3>4. /\ Len(rx') = Len(rx) + 1 /\ p.id = narrived + 1
          /\ \A i \in 1..Len(rx) : rx'[i] = rx[i]
          /\ rx'[Len(rx) + 1] = p
      BY <3>1 DEF TypeInv, TypeOK
    <3>5. narrived' = narrived + 1 /\ UNCHANGED <<pc, pkt>>
      BY <1>2 DEF Receive
    <3>6. \A i \in 1..Len(rx') : rx'[i].id <= narrived'
      BY <3>2, <3>4, <3>5 DEF QueueInv
    <3>7. \A i, j \in 1..Len(rx') : i < j => rx'[i].id < rx'[j].id
      BY <3>2, <3>4 DEF QueueInv
    <3>8. InWork => \A i \in 1..Len(rx') : pkt.id < rx'[i].id
      BY <3>2, <3>3, <3>4 DEF QueueInv
    <3>9. InWork => pkt.id <= narrived'
      BY <3>2, <3>3, <3>5 DEF QueueInv
    <3> QED  BY <3>5, <3>6, <3>7, <3>8, <3>9 DEF QueueInv
  <2> QED  BY <2>1, <2>2
<1>3. ASSUME UNCHANGED <<rx, pkt, narrived>>, InWork' => InWork PROVE QueueInv'
  BY <1>3 DEF QueueInv
<1>4. CASE Hardware
  BY <1>3, <1>4 DEF Hardware, Evict, DmaFetch, DmaLastBeat, DmaIdle, CoreFinish
<1>5. CASE Firmware /\ ~Poll
  BY <1>3, <1>5
  DEF Firmware, BootUp, BootFails, LoadLayer, AckModel, CopyFeatures, Flush,
      StartTransfer, AwaitDrain, AwaitDone, ReadCycles, ReadScore, SendReply,
      LeaveSwitch, FreePbuf
<1> QED  BY <1>1, <1>2, <1>4, <1>5 DEF Next

BoardInv == TypeInv /\ FlowInv /\ QueueInv

\* The inductive invariant holds at power-up.
LEMMA BoardInvInit == Init => BoardInv
<1> SUFFICES ASSUME Init PROVE FlowInv /\ QueueInv /\ TypeInv
  BY DEF BoardInv
<1>1. FlowInv
  BY DEF Init, FlowInv, ControlInv, WeightsInv, InferenceInv, InWork, NoWeights
<1>2. QueueInv  BY DEF Init, QueueInv, InWork
<1>3. TypeInv  BY FirmwareTypeInit
<1> QED  BY <1>1, <1>2, <1>3

\* Every step keeps the inductive invariant.
LEMMA BoardInvNext == BoardInv /\ [Next]_vars => BoardInv'
<1> SUFFICES ASSUME BoardInv, [Next]_vars PROVE BoardInv'
  OBVIOUS
<1>1. CASE Next
  BY <1>1, FirmwareType, HardwareType, FirmwareFlow, HardwareFlow, QueueFlow
  DEF Next, BoardInv
<1>2. CASE UNCHANGED vars
  <2>1. TypeInv'
    BY <1>2 DEF BoardInv, vars, firmware, hardware, io, TypeInv, TypeOK, LoopBounds
  <2>2. FlowInv'
    BY <1>2 DEF BoardInv, vars, firmware, hardware, io, FlowInv, ControlInv,
                WeightsInv, InferenceInv, InWork, Computing, Finished, Result
  <2>3. QueueInv'
    BY <1>2 DEF BoardInv, vars, firmware, hardware, io, QueueInv, InWork
  <2> QED  BY <2>1, <2>2, <2>3 DEF BoardInv
<1> QED  BY <1>1, <1>2

\* No inference ever runs on half-loaded weights: while a layer is written the
\* channel and the core are idle.
THEOREM WeightsAreQuiescent == Spec => []WeightsQuiescent
<1>1. BoardInv => WeightsQuiescent
  BY DEF BoardInv, FlowInv, ControlInv, WeightsQuiescent
<1> QED  BY <1>1, BoardInvInit, BoardInvNext, PTL DEF Spec

\* The transfer is never refused, so no reply skips the wait for done.
THEOREM TransfersAreAccepted == Spec => []TransfersAccepted
<1>1. BoardInv => TransfersAccepted
  BY DEF BoardInv, FlowInv, ControlInv, TransfersAccepted
<1> QED  BY <1>1, BoardInvInit, BoardInvNext, PTL DEF Spec

-----------------------------------------------------------------------------
(* The refinement.                                                          *)

\* What the packets that wait and the one in work become.
Waiting == {rx[i] : i \in 1..Len(rx)}

\* The abstract inbox is the queue, with the packet being served if any.
LEMMA InboxByPhase ==
  /\ InWork => Inbox = Waiting \cup {pkt}
  /\ ~InWork => Inbox = Waiting
BY DEF Inbox, Waiting

\* A step that neither polls nor finishes a packet.
LEMMA InboxUnchanged ==
  ASSUME UNCHANGED <<rx, pkt>>, InWork' <=> InWork
  PROVE  Inbox' = Inbox
BY DEF Inbox

\* The step that finishes the packet in work takes it out of the inbox.
LEMMA InboxServed ==
  ASSUME BoardInv, InWork, ~InWork', UNCHANGED rx
  PROVE  pkt \in Inbox /\ Inbox' = Inbox \ {pkt}
<1>1. Inbox = Waiting \cup {pkt} /\ Inbox' = Waiting
  BY DEF Inbox, Waiting
<1>2. pkt \notin Waiting
  <2>1. \A i \in 1..Len(rx) : pkt.id < rx[i].id
    BY DEF BoardInv, QueueInv
  <2>2. \A i \in 1..Len(rx) : rx[i].id \in Nat
    BY QueueTypes DEF BoardInv
  <2>3. \A i \in 1..Len(rx) : pkt # rx[i]
    BY <2>1, <2>2
  <2> QED  BY <2>3 DEF Waiting
<1> QED  BY <1>1, <1>2

\* Taking a packet off the queue leaves the abstract inbox alone.
LEMMA PollKeepsInbox == ASSUME BoardInv, Poll PROVE Inbox' = Inbox
<1>1. /\ Len(rx) \in Nat \ {0} /\ pkt' = rx[1] /\ Len(rx') = Len(rx) - 1
      /\ \A i \in 1..Len(rx') : rx'[i] = rx[i + 1]
  BY DEF Poll, BoardInv, TypeInv, TypeOK
<1>2. ~InWork /\ InWork'  BY DEF Poll, InWork
<1>3. Inbox = Waiting /\ Inbox' = Waiting' \cup {rx[1]}
  BY <1>1, <1>2 DEF Inbox, Waiting
<1>4. Waiting \subseteq Waiting' \cup {rx[1]}
  <2> SUFFICES ASSUME NEW i \in 1..Len(rx), i # 1 PROVE rx[i] \in Waiting'
    BY DEF Waiting
  <2>1. i - 1 \in 1..Len(rx') /\ rx'[i - 1] = rx[i]  BY <1>1
  <2> QED  BY <2>1 DEF Waiting
<1>5. Waiting' \cup {rx[1]} \subseteq Waiting
  <2>1. \A i \in 1..Len(rx') : i + 1 \in 1..Len(rx)  BY <1>1
  <2>2. 1 \in 1..Len(rx)  BY <1>1
  <2> QED  BY <1>1, <2>1, <2>2 DEF Waiting
<1> QED  BY <1>3, <1>4, <1>5

\* A received packet arrives in the abstract inbox, or is dropped.
LEMMA ReceiveArrives ==
  ASSUME BoardInv, Receive PROVE Board!Arrive \/ UNCHANGED Board!bvars
<1> USE DEF firmware, hardware, io
<1>1. UNCHANGED <<pc, pkt, outbox, network>>  BY DEF Receive
<1>2. CASE UNCHANGED rx
  BY <1>1, <1>2, InboxUnchanged DEF InWork, Board!bvars
<1>3. CASE rx' # rx
  <2>1. PICK cmd \in {"M", "D", "other"}, long \in BOOLEAN :
          rx' = IF Len(rx) < QueueLength
                THEN Append(rx, [cmd |-> cmd, long |-> long, id |-> narrived + 1])
                ELSE rx
    BY DEF Receive
  <2> DEFINE p == [cmd |-> cmd, long |-> long, id |-> narrived + 1]
  <2>2. narrived + 1 \in 1..MaxPackets
    BY BoundsAssumption DEF Receive, BoardInv, TypeInv, TypeOK, Ids
  <2>3. p \in Board!Packet  BY <2>2 DEF Board!Packet
  <2>4. rx' = Append(rx, p)  BY <1>3, <2>1
  <2> HIDE DEF p
  <2>5. /\ Len(rx) \in Nat /\ Len(rx') = Len(rx) + 1 /\ rx'[Len(rx) + 1] = p
        /\ \A i \in 1..Len(rx) : rx'[i] = rx[i]
    BY <2>3, <2>4 DEF BoardInv, TypeInv, TypeOK
  <2>6. 1..Len(rx') = 1..Len(rx) \cup {Len(rx) + 1}  BY <2>5
  <2>7. Waiting' = Waiting \cup {p}  BY <2>5, <2>6 DEF Waiting
  <2>8. Inbox' = Inbox \cup {p}  BY <1>1, <2>7 DEF Inbox, Waiting, InWork
  <2> QED  BY <1>1, <2>3, <2>8 DEF Board!Arrive
<1> QED  BY <1>2, <1>3

\* The acknowledgement of a model is where the abstract board loads it.
LEMMA AckLoads ==
  ASSUME BoardInv, AckModel PROVE Board!Load
<1>1. pkt \in Inbox /\ Inbox' = Inbox \ {pkt}
  BY InboxServed DEF AckModel, InWork
<1>2. pkt.cmd = "M" /\ pkt.long
  BY DEF AckModel, BoardInv, FlowInv, ControlInv
<1>3. network' = pkt.id /\ outbox' \in {outbox, outbox \cup {Board!Ack(pkt)}}
  BY DEF AckModel
<1> QED  BY <1>1, <1>2, <1>3 DEF Board!Load

\* The reply to a request is where the abstract board answers it.
LEMMA ReplyAnswers ==
  ASSUME BoardInv, SendReply PROVE Board!Answer \/ Board!Ignore
<1>1. pkt \in Inbox /\ Inbox' = Inbox \ {pkt}
  BY InboxServed DEF SendReply, InWork
<1>2. pkt.cmd = "D" /\ pkt.long
  BY DEF SendReply, BoardInv, FlowInv, ControlInv
<1>3. Board!Decision(pkt, network)
        = [kind |-> "decision", id |-> pkt.id, scores |-> outs, cycles |-> cyc]
  <2>1. /\ cyc = pkt.id /\ Len(outs) = 3
        /\ \A k \in 1..Len(outs) : outs[k] = Result
    BY DEF SendReply, BoardInv, FlowInv, InferenceInv
  <2>2. outs \in Seq(ScoreValue)  BY DEF BoardInv, TypeInv, TypeOK
  <2>3. outs = [k \in 1..3 |-> Result]  BY <2>1, <2>2
  <2>4. outs = Board!Inference(pkt.id, network)
    BY <2>3 DEF Board!Inference, Board!Scores, Board!Layers, Result, Layers
  <2> QED  BY <2>1, <2>4 DEF Board!Decision
<1>4. UNCHANGED network  BY DEF SendReply, firmware
<1>5. CASE UNCHANGED outbox
  BY <1>1, <1>4, <1>5 DEF Board!Ignore
<1>6. CASE outbox' = outbox \cup {Board!Decision(pkt, network)}
  BY <1>1, <1>2, <1>4, <1>6 DEF Board!Answer
<1> QED  BY <1>3, <1>5, <1>6 DEF SendReply

\* Every step of the firmware and its hardware is a step of the abstract
\* board or a stutter.
LEMMA StepRefines ==
  ASSUME BoardInv, [Next]_vars PROVE [Board!BoardNext]_Board!bvars
<1> USE DEF firmware, hardware, io
<1>1. CASE Poll
  BY <1>1, PollKeepsInbox DEF Poll, Board!bvars
<1>2. CASE AckModel  BY <1>2, AckLoads DEF Board!BoardNext
<1>3. CASE SendReply  BY <1>3, ReplyAnswers DEF Board!BoardNext
<1>4. CASE LeaveSwitch
  <2>1. pkt \in Inbox /\ Inbox' = Inbox \ {pkt}
    BY <1>4, InboxServed DEF LeaveSwitch, InWork
  <2> QED  BY <1>4, <2>1 DEF LeaveSwitch, Board!Ignore, Board!BoardNext
<1>5. CASE Receive  BY <1>5, ReceiveArrives DEF Board!BoardNext
<1>6. ASSUME UNCHANGED <<rx, pkt, outbox, network>>, InWork' <=> InWork
      PROVE  UNCHANGED Board!bvars
  BY <1>6, InboxUnchanged DEF Board!bvars
<1>7. CASE BootUp \/ BootFails \/ FreePbuf
  BY <1>6, <1>7 DEF BootUp, BootFails, FreePbuf, InWork
<1>8. CASE LoadLayer \/ CopyFeatures \/ Flush \/ StartTransfer \/ AwaitDrain
           \/ AwaitDone \/ ReadCycles \/ ReadScore
  BY <1>6, <1>8 DEF LoadLayer, CopyFeatures, Flush, StartTransfer, AwaitDrain,
                    AwaitDone, ReadCycles, ReadScore, InWork
<1>9. CASE Hardware
  BY <1>6, <1>9 DEF Hardware, Evict, DmaFetch, DmaLastBeat, DmaIdle, CoreFinish,
                    InWork
<1>10. CASE UNCHANGED vars
  BY <1>6, <1>10 DEF vars, InWork
<1> QED
  BY <1>1, <1>2, <1>3, <1>4, <1>5, <1>7, <1>8, <1>9, <1>10 DEF Next, Firmware

\* The firmware and its hardware implement InferenceBoard: every reply carries
\* three scores and the cycle count of one inference, of its own packet, on the
\* model loaded last, for any number of packets and any length of the queue.
THEOREM FirmwareImplementsBoard == Spec => ImplementsBoard
<1>1. Init => Board!BoardInit
  BY DEF Init, Board!BoardInit, Inbox, InWork
<1> QED
  BY <1>1, BoardInvInit, BoardInvNext, StepRefines, PTL
  DEF Spec, ImplementsBoard, Board!BoardSpec

-----------------------------------------------------------------------------
(* Times and ticks.                                                         *)

\* The order of the timer's instants is transitive.
LEMMA NotAfterTransitive ==
  ASSUME NEW s \in Time, NEW t \in Time, NEW u \in Time,
         NotAfter(s, t), NotAfter(t, u)
  PROVE  NotAfter(s, u)
<1>1. /\ s.high \in Int /\ t.high \in Int /\ u.high \in Int
      /\ s.low \in Int /\ t.low \in Int /\ u.low \in Int
  BY HalvesAssumption DEF Time
<1> QED  BY <1>1 DEF NotAfter

\* No instant is after itself.
LEMMA NotAfterReflexive == \A t \in Time : NotAfter(t, t)
BY HalvesAssumption DEF Time, NotAfter

\* A later instant has at least as many ticks.
LEMMA TicksMonotone ==
  ASSUME NEW s \in Time, NEW t \in Time, NotAfter(s, t)
  PROVE  Ticks(s) \in Nat /\ Ticks(t) \in Nat /\ Ticks(s) <= Ticks(t)
<1>1. /\ s.high \in Nat /\ t.high \in Nat /\ s.low \in Nat /\ t.low \in Nat
      /\ s.low < Half /\ Half \in Nat \ {0}
  BY HalvesAssumption DEF Time
<1>2. s.high * Half \in Nat /\ t.high * Half \in Nat
  BY <1>1
<1>3. CASE s.high = t.high
  BY <1>1, <1>2, <1>3 DEF Ticks, NotAfter
<1>4. CASE s.high < t.high
  <2>1. PICK d \in Nat : t.high = s.high + 1 + d
    <3>1. t.high - s.high - 1 \in Nat /\ t.high = s.high + 1 + (t.high - s.high - 1)
      BY <1>1, <1>4
    <3> QED  BY <3>1
  <2>2. t.high * Half = s.high * Half + Half + d * Half
    BY <1>1, <2>1
  <2>3. d * Half \in Nat  BY <1>1
  <2> QED  BY <1>1, <1>2, <2>2, <2>3 DEF Ticks
<1> QED  BY <1>3, <1>4 DEF NotAfter

-----------------------------------------------------------------------------
(* The invariant: while XTime_GetTime runs, a low half read under an        *)
(* unchanged high half is of a time between its entry and now.              *)

ReadInv ==
  /\ NotAfter(began, now)
  /\ step # "out" => Len(stamps) < Readings
  /\ step \in {"low", "again"} => began.high <= hi /\ hi <= now.high
  /\ step = "again" /\ hi = now.high =>
       /\ NotAfter(began, [high |-> hi, low |-> lo])
       /\ NotAfter([high |-> hi, low |-> lo], now)

TimerInv == TimerTypeOK /\ ReadInv /\ StampsAreReal

\* The timer's invariant holds before the first reading.
LEMMA TimerStart == TimerInit => TimerInv
<1> SUFFICES ASSUME TimerInit PROVE TimerInv
  OBVIOUS
<1>1. NotAfter(began, now)  BY NotAfterReflexive DEF TimerInit
<1>2. TimerTypeOK  BY HalvesAssumption DEF TimerInit, TimerTypeOK
<1> QED  BY <1>1, <1>2 DEF TimerInit, TimerInv, ReadInv, StampsAreReal

\* A tick and each half of a reading keep the timer's invariant.
LEMMA TimerStep == TimerInv /\ [TimerNext]_timer => TimerInv'
<1> SUFFICES ASSUME TimerInv, [TimerNext]_timer PROVE TimerInv'
  OBVIOUS
<1> USE HalvesAssumption DEF TimerInv
<1>1. CASE Tick
  <2>1. now' \in Time /\ NotAfter(now, now')  BY <1>1 DEF Tick
  <2>2. UNCHANGED <<step, hi, lo, began, stamps, windows, stg>>  BY <1>1 DEF Tick
  <2>3. NotAfter(began, now')
    BY <2>1, NotAfterTransitive DEF TimerTypeOK, ReadInv
  <2>4. now.high \in Int /\ now'.high \in Int /\ hi \in Int /\ now.high <= now'.high
    BY <2>1 DEF TimerTypeOK, Time, NotAfter
  <2>5. ASSUME step = "again", hi = now'.high
        PROVE  /\ NotAfter(began, [high |-> hi, low |-> lo])
               /\ NotAfter([high |-> hi, low |-> lo], now')
    <3>1. hi = now.high  BY <2>4, <2>5 DEF ReadInv
    <3>2. [high |-> hi, low |-> lo] \in Time  BY DEF TimerTypeOK, Time
    <3>3. /\ NotAfter(began, [high |-> hi, low |-> lo])
          /\ NotAfter([high |-> hi, low |-> lo], now)
      BY <2>5, <3>1 DEF ReadInv
    <3>4. now \in Time  BY DEF TimerTypeOK
    <3> QED  BY <2>1, <3>2, <3>3, <3>4, NotAfterTransitive
  <2>6. ReadInv'
    <3>1. step \in {"low", "again"} => began.high <= hi /\ hi <= now'.high
      BY <2>4 DEF ReadInv
    <3> QED  BY <2>2, <2>3, <2>5, <3>1 DEF ReadInv
  <2>7. TimerTypeOK'  BY <2>1, <2>2 DEF TimerTypeOK
  <2>8. StampsAreReal'  BY <2>2 DEF StampsAreReal
  <2> QED  BY <2>6, <2>7, <2>8
<1>2. CASE Enter
  <2>1. NotAfter(began', now')
    BY <1>2, NotAfterReflexive DEF Enter, TimerTypeOK
  <2>2. Len(stamps) < Readings  BY <1>2 DEF Enter, MoreToRead
  <2>3. ReadInv'  BY <1>2, <2>1, <2>2 DEF Enter, ReadInv
  <2>4. TimerTypeOK'  BY <1>2 DEF Enter, TimerTypeOK
  <2> QED  BY <1>2, <2>3, <2>4 DEF Enter, StampsAreReal
<1>3. CASE ReadHigh
  <2>1. began.high <= now.high /\ now.high \in 0..MaxHigh
    BY DEF ReadInv, TimerTypeOK, NotAfter, Time
  <2> QED  BY <1>3, <2>1 DEF ReadHigh, TimerTypeOK, ReadInv, StampsAreReal
<1>4. CASE ReadLow
  <2>1. now = [high |-> now.high, low |-> now.low] /\ now.low \in 0..(Half - 1)
    BY DEF TimerTypeOK, Time
  <2>2. NotAfter(now, now)  BY NotAfterReflexive DEF TimerTypeOK
  <2>3. ReadInv'
    BY <1>4, <2>1, <2>2 DEF ReadLow, ReadInv
  <2> QED  BY <1>4, <2>1, <2>3 DEF ReadLow, TimerTypeOK, StampsAreReal
<1>5. CASE Return
  <2> DEFINE s == [high |-> hi, low |-> lo]
             n == Len(stamps)
  <2>1. s \in Time /\ began \in Time /\ now \in Time  BY DEF TimerTypeOK, Time
  <2>2. NotAfter(began, s) /\ NotAfter(s, now)
    BY <1>5 DEF Return, SameHigh, ReadInv
  <2>3. n \in Nat /\ n + 1 <= Readings
    BY <1>5 DEF Return, TimerTypeOK, ReadInv
  <2>4. stamps' = Append(stamps, s) /\ windows' = Append(windows, <<began, now>>)
    BY <1>5 DEF Return
  <2>5. UNCHANGED <<now, hi, lo, began, stg>> /\ step' = "out"
    BY <1>5 DEF Return
  <2> HIDE DEF s
  <2>6. /\ stamps' \in Seq(Time) /\ Len(stamps') = n + 1
        /\ windows' \in Seq(Time \X Time) /\ Len(windows') = n + 1
        /\ \A k \in 1..n : stamps'[k] = stamps[k] /\ windows'[k] = windows[k]
        /\ stamps'[n + 1] = s /\ windows'[n + 1] = <<began, now>>
    BY <2>1, <2>4 DEF TimerTypeOK
  <2>7. TimerTypeOK'  BY <2>3, <2>5, <2>6 DEF TimerTypeOK
  <2>8. ReadInv'  BY <2>5 DEF ReadInv
  <2>9. StampsAreReal'
    <3>1. \A k \in 1..(n + 1) : k \in 1..n \/ k = n + 1  BY <2>3
    <3> QED  BY <2>2, <2>6, <3>1 DEF StampsAreReal
  <2> QED  BY <2>7, <2>8, <2>9
<1>6. CASE Retry
  BY <1>6 DEF Retry, TimerTypeOK, ReadInv, StampsAreReal
<1>7. CASE Report
  <2>1. \A k \in 1..(Readings - 1) :
          stamps[k] \in Time /\ stamps[k + 1] \in Time
    BY <1>7 DEF Report, TimerTypeOK
  <2>2. \A t, u \in Time : Stage(t, u) \in 0..(Half - 1)
    <3> SUFFICES ASSUME NEW t \in Time, NEW u \in Time
                 PROVE  Stage(t, u) \in 0..(Half - 1)
      OBVIOUS
    <3>1. Ticks(t) \in Int /\ Ticks(u) \in Int
      BY DEF Ticks, Time
    <3> QED  BY <3>1 DEF Stage
  <2>3. stg' \in [1..(Readings - 1) -> 0..(Half - 1)]
    BY <1>7, <2>1, <2>2 DEF Report
  <2> QED  BY <1>7, <2>3 DEF Report, TimerTypeOK, ReadInv, StampsAreReal
<1>8. CASE UNCHANGED timer
  BY <1>8 DEF timer, TimerTypeOK, ReadInv, StampsAreReal
<1> QED
  BY <1>1, <1>2, <1>3, <1>4, <1>5, <1>6, <1>7, <1>8 DEF TimerNext

\* Every variable keeps its type, and no packet takes more stamps than its
\* readings.
THEOREM TimerTypeCorrect == TimerSpec => []TimerTypeOK
<1>1. TimerInv => TimerTypeOK  BY DEF TimerInv
<1> QED  BY <1>1, TimerStart, TimerStep, PTL DEF TimerSpec

\* Whatever carries happen while the halves are read, each stamp is a time of
\* the counter between the call and the return of XTime_GetTime.
THEOREM StampsAreTimes == TimerSpec => []StampsAreReal
<1>1. TimerInv => StampsAreReal  BY DEF TimerInv
<1> QED  BY <1>1, TimerStart, TimerStep, PTL DEF TimerSpec

-----------------------------------------------------------------------------
(* Stage times.                                                             *)

\* Readings do not overlap, and the report is of the stamps.
OrderInv ==
  /\ \A k \in 1..(Len(windows) - 1) :
       NotAfter(windows[k][2], windows[k + 1][1])
  /\ \A k \in 1..Len(windows) :
       NotAfter(windows[k][2], IF step = "out" THEN now ELSE began)
  /\ stg # << >> => Len(stamps) = Readings /\ step = "out"
  /\ stg # << >> => \A k \in 1..(Readings - 1) :
                      stg[k] = Stage(stamps[k], stamps[k + 1])

StageInv == TimerInv /\ OrderInv

\* A tick leaves the readings in order, and a new reading begins after the last
\* one ended.
LEMMA StageNext == StageInv /\ [TimerNext]_timer => StageInv'
<1> SUFFICES ASSUME StageInv, [TimerNext]_timer PROVE OrderInv'
  BY TimerStep DEF StageInv
<1> USE HalvesAssumption DEF StageInv, TimerInv
<1>0. /\ now \in Time /\ began \in Time /\ Len(windows) \in Nat
      /\ \A k \in 1..Len(windows) : windows[k] \in Time \X Time
  BY DEF TimerTypeOK
<1>1. CASE Tick
  <2>1. now' \in Time /\ NotAfter(now, now')  BY <1>1 DEF Tick
  <2>2. UNCHANGED <<step, began, stamps, windows, stg>>  BY <1>1 DEF Tick
  <2>3. \A k \in 1..Len(windows) : windows[k][2] \in Time  BY <1>0
  <2>4. \A k \in 1..Len(windows) :
          NotAfter(windows[k][2], IF step = "out" THEN now' ELSE began)
    BY <1>0, <2>1, <2>3, NotAfterTransitive DEF OrderInv
  <2> QED  BY <2>2, <2>4 DEF OrderInv
<1>2. CASE Enter
  BY <1>2 DEF Enter, MoreToRead, OrderInv
<1>3. CASE ReadHigh \/ ReadLow \/ Retry
  BY <1>3 DEF ReadHigh, ReadLow, Retry, OrderInv
<1>4. CASE Return
  <2> DEFINE n == Len(windows)
  <2>1. /\ step = "again" /\ step' = "out" /\ now' = now /\ stg' = stg
        /\ windows' = Append(windows, <<began, now>>)
    BY <1>4 DEF Return
  <2>2. /\ Len(windows') = n + 1 /\ windows'[n + 1] = <<began, now>>
        /\ \A k \in 1..n : windows'[k] = windows[k]
    BY <1>0, <2>1 DEF TimerTypeOK
  <2>3. stg = << >>  BY <2>1 DEF OrderInv
  <2>4. \A k \in 1..n : NotAfter(windows[k][2], began)  BY <2>1 DEF OrderInv
  <2>5. NotAfter(began, now)  BY DEF ReadInv
  <2>6. \A k \in 1..n : NotAfter(windows[k][2], now)
    <3>1. \A k \in 1..n : windows[k][2] \in Time  BY <1>0
    <3> QED  BY <1>0, <2>4, <2>5, <3>1, NotAfterTransitive
  <2>7. \A k \in 1..(n + 1) : k \in 1..n \/ k = n + 1  BY <1>0
  <2>8. \A k \in 1..Len(windows') : NotAfter(windows'[k][2], now')
    <3>1. NotAfter(now, now)  BY <1>0, NotAfterReflexive
    <3> QED  BY <2>1, <2>2, <2>6, <2>7, <3>1
  <2>9. ASSUME NEW k \in 1..(Len(windows') - 1)
        PROVE  NotAfter(windows'[k][2], windows'[k + 1][1])
    <3>1. k \in 1..n  BY <1>0, <2>2
    <3>2. CASE k = n
      BY <1>0, <2>2, <2>4, <3>1, <3>2
    <3>3. CASE k \in 1..(n - 1)
      <4>1. k + 1 \in 1..n  BY <1>0, <3>3
      <4> QED  BY <2>2, <3>1, <3>3, <4>1 DEF OrderInv
    <3> QED  BY <1>0, <3>1, <3>2, <3>3
  <2> HIDE DEF n
  <2> QED  BY <2>1, <2>3, <2>8, <2>9 DEF OrderInv
<1>5. CASE Report
  <2>1. /\ step = "out" /\ Len(stamps) = Readings
        /\ UNCHANGED <<now, step, began, stamps, windows>>
        /\ stg' = [k \in 1..(Readings - 1) |-> Stage(stamps[k], stamps[k + 1])]
    BY <1>5 DEF Report
  <2>2. \A k \in 1..(Readings - 1) : stg'[k] = Stage(stamps'[k], stamps'[k + 1])
    <3>1. \A k \in 1..(Readings - 1) : stg'[k] = Stage(stamps[k], stamps[k + 1])
      BY <2>1
    <3> QED  BY <2>1, <3>1
  <2> QED  BY <2>1, <2>2 DEF OrderInv
<1>6. CASE UNCHANGED timer
  BY <1>6 DEF timer, OrderInv
<1> QED
  BY <1>1, <1>2, <1>3, <1>4, <1>5, <1>6 DEF TimerNext

\* A number below the modulus is its own remainder.
LEMMA SmallModulus ==
  ASSUME NEW d \in Nat, NEW n \in Nat, d < n PROVE d % n = d
OBVIOUS

\* Stamps in order, less than a wrap apart, give stage times that passed.
LEMMA StageInvReal == StageInv => StagesAreReal
<1> SUFFICES ASSUME StageInv, stg # << >>, NEW k \in 1..(Readings - 1),
                    Ticks(windows[k + 1][2]) - Ticks(windows[k][1]) < Half
             PROVE  /\ stg[k] <= Ticks(windows[k + 1][2]) - Ticks(windows[k][1])
                    /\ stg[k] >= Ticks(windows[k + 1][1]) - Ticks(windows[k][2])
  BY DEF StagesAreReal
<1> USE HalvesAssumption DEF StageInv, TimerInv
<1> DEFINE a == windows[k][1]
           s == stamps[k]
           b == windows[k][2]
           c == windows[k + 1][1]
           t == stamps[k + 1]
           d == windows[k + 1][2]
<1>1. /\ Len(stamps) = Readings /\ Len(windows) = Readings
      /\ k \in 1..Readings /\ k + 1 \in 1..Readings
  BY DEF OrderInv, TimerTypeOK
<1>2. /\ a \in Time /\ s \in Time /\ b \in Time
      /\ c \in Time /\ t \in Time /\ d \in Time
  <2>1. windows[k] \in Time \X Time /\ windows[k + 1] \in Time \X Time
    BY <1>1 DEF TimerTypeOK
  <2>2. stamps[k] \in Time /\ stamps[k + 1] \in Time  BY <1>1 DEF TimerTypeOK
  <2> QED  BY <2>1, <2>2
<1>3. NotAfter(a, s) /\ NotAfter(s, b) /\ NotAfter(c, t) /\ NotAfter(t, d)
  BY <1>1 DEF StampsAreReal
<1>4. NotAfter(b, c)  BY <1>1 DEF OrderInv
<1>5. stg[k] = (Ticks(t) - Ticks(s)) % Half  BY DEF OrderInv, Stage
<1> HIDE DEF a, b, c, d, s, t
<1>6. /\ Ticks(a) <= Ticks(s) /\ Ticks(s) <= Ticks(b) /\ Ticks(b) <= Ticks(c)
      /\ Ticks(c) <= Ticks(t) /\ Ticks(t) <= Ticks(d)
      /\ Ticks(a) \in Nat /\ Ticks(s) \in Nat /\ Ticks(b) \in Nat
      /\ Ticks(c) \in Nat /\ Ticks(t) \in Nat /\ Ticks(d) \in Nat
  BY <1>2, <1>3, <1>4, TicksMonotone
<1>7. Ticks(d) - Ticks(a) < Half  BY DEF a, d
<1>8. stg[k] = Ticks(t) - Ticks(s)
  <2>1. Ticks(t) - Ticks(s) \in Nat /\ Ticks(t) - Ticks(s) < Half
    BY <1>6, <1>7
  <2> QED  BY <1>5, <2>1, SmallModulus
<1>9. stg[k] <= Ticks(d) - Ticks(a) /\ stg[k] >= Ticks(c) - Ticks(b)
  BY <1>6, <1>8
<1> QED  BY <1>9 DEF a, b, c, d

\* The stage times are exact, for halves of any width, unless a stage takes a
\* whole half of ticks or more.
THEOREM StagesAreExact == TimerSpec => []StagesAreReal
<1>1. TimerInit => StageInv
  BY TimerStart DEF TimerInit, StageInv, OrderInv
<1> QED  BY <1>1, StageNext, StageInvReal, PTL DEF TimerSpec
=============================================================================
