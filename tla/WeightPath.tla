----------------------------- MODULE WeightPath -----------------------------
(***************************************************************************)
(* The way of a weight from a trained checkpoint to the memory of the core. *)
(* The frontend packs the layers into one buffer (process_pth_model), the   *)
(* firmware takes the buffer apart by pointer arithmetic, and the loader    *)
(* writes one register per weight, three neurons per word, layer after      *)
(* layer (mlp_weight_loader.h).  Each of the three has the network's shape  *)
(* written down for itself, and nothing in them checks that they agree.     *)
(***************************************************************************)
EXTENDS Integers, SequencesExt

CONSTANTS
  PanelShapes, PanelBiases,  \* the frontend: neurons and inputs, and biases, of a layer
  FirmwareBlocks,            \* the firmware: weights and biases from pointer to pointer
  LoaderShapes,              \* the loader: neurons and inputs of a layer
  Inputs,                    \* inputs of a neuron in the core, 64
  Words,                     \* words of one weight memory, 128
  Trained                    \* checkpoints: the layers of each

VARIABLES
  trained,     \* the checkpoint
  buffer,      \* model_buffer of the firmware
  layer,       \* load_weights_to_hw: the layer being written
  base,        \* current_base_addr
  k, n, i,     \* loops of load_layer_to_hw: word, neuron slot, input
  mem          \* the registers from 0x20000 on

cursor == <<layer, base, k, n, i>>
vars == <<trained, buffer, cursor, mem>>

Lanes == 3
Zero == <<"zero">>
Old == <<"old">>
Weight(l, j, x) == <<"weight", l, j, x>>
Bias(l, j) == <<"bias", l, j>>

\* A layer of a network, and one of a checkpoint, which may lack its weight or its
\* bias.
Shape == [out : Nat \ {0}, in : Nat \ {0}]
Layer == [out : Nat \ {0}, in : Nat \ {0}, complete : BOOLEAN]

ASSUME ShapesAssumption ==
  /\ Inputs \in Nat \ {0} /\ Words \in Nat \ {0}
  /\ PanelShapes \in Seq(Shape) /\ PanelBiases \in Seq(Nat)
  /\ Len(PanelBiases) = Len(PanelShapes)
  /\ FirmwareBlocks \in Seq([weights : Nat, biases : Nat])
  /\ LoaderShapes \in Seq(Shape) /\ LoaderShapes # << >>
  /\ \A l \in 1..Len(LoaderShapes) : LoaderShapes[l].in <= Inputs
  /\ Trained \subseteq Seq(Layer)

\* What has to hold of the three, and what no program checks.
LayoutsAgree ==
  /\ PanelShapes = LoaderShapes
  /\ PanelBiases = [l \in DOMAIN LoaderShapes |-> LoaderShapes[l].out]
  /\ FirmwareBlocks = [l \in DOMAIN LoaderShapes |->
       [weights |-> LoaderShapes[l].out * LoaderShapes[l].in, biases |-> LoaderShapes[l].out]]

LayerCount == Len(LoaderShapes)

-----------------------------------------------------------------------------
(* The frontend: process_pth_model.                                         *)

\* The layers of the checkpoint that are used: those with both parts.
Complete(model) == SelectSeq([p \in DOMAIN model |-> p], LAMBDA p : model[p].complete)
Kept == Complete(trained)

\* The trained weight of neuron j and input x, zero where the checkpoint has none.
PackedWeight(l, j, x) ==
  IF l <= Len(Kept) /\ j < trained[Kept[l]].out /\ x < trained[Kept[l]].in
  THEN Weight(Kept[l], j, x) ELSE Zero
PackedBias(l, j) ==
  IF l <= Len(Kept) /\ j < trained[Kept[l]].out THEN Bias(Kept[l], j) ELSE Zero

\* Row-major weights, cut to the template's layer, then the biases.
Block(l) ==
  [p \in 1..(PanelShapes[l].out * PanelShapes[l].in) |->
     PackedWeight(l, (p - 1) \div PanelShapes[l].in, (p - 1) % PanelShapes[l].in)]
  \o [p \in 1..PanelBiases[l] |-> PackedBias(l, p - 1)]

Packed == FlattenSeq([l \in DOMAIN PanelShapes |-> Block(l)])

-----------------------------------------------------------------------------
(* The firmware: the pointers W1, B1, ..., W4, B4 into model_buffer.        *)

WeightPointer[l \in 1..LayerCount] ==
  IF l = 1 THEN 0
  ELSE WeightPointer[l - 1] + FirmwareBlocks[l - 1].weights + FirmwareBlocks[l - 1].biases

BiasPointer(l) == WeightPointer[l] + FirmwareBlocks[l].weights

-----------------------------------------------------------------------------
(* The loader.                                                              *)

\* 0x20000 + bram * 512 + word * 4, in words.
Address(bram, word) == bram * Words + word
Addresses == 0..((Lanes * Inputs + Lanes) * Words - 1)

\* Fault: rounded down.
RowsDown(l) == LoaderShapes[l].out \div Lanes

\* num_words: the neurons divided by three, rounded up.
Rows(l) == (LoaderShapes[l].out + Lanes - 1) \div Lanes

\* The words of all the layers fit into the memory; f[l] is the first of layer l.
ASSUME FitAssumption ==
  \E f \in [1..(LayerCount + 1) -> 0..Words] :
    f[1] = 0 /\ \A l \in 1..LayerCount : f[l + 1] = f[l] + Rows(l)

Neuron == k * Lanes + n

\* Fault: the buffer is read column by column.
TransposedWeight ==
  IF Neuron < LoaderShapes[layer].out /\ i < LoaderShapes[layer].in
  THEN buffer[WeightPointer[layer] + Neuron + i * LoaderShapes[layer].out + 1] ELSE Zero

\* The value for input i of this slot: a weight, or zero for an unused slot and
\* for the inputs beyond those of the layer.
SlotWeight ==
  IF Neuron < LoaderShapes[layer].out /\ i < LoaderShapes[layer].in
  THEN buffer[WeightPointer[layer] + Neuron * LoaderShapes[layer].in + i + 1] ELSE Zero

WriteWeight ==
  /\ layer <= LayerCount /\ i < Inputs
  /\ mem' = [mem EXCEPT ![Address(n * Inputs + i, base + k)] = SlotWeight]
  /\ i' = i + 1
  /\ UNCHANGED <<trained, buffer, layer, base, k, n>>

SlotBias ==
  IF Neuron < LoaderShapes[layer].out THEN buffer[BiasPointer(layer) + Neuron + 1] ELSE Zero

\* Fault: the next layer starts where this one did.
NotAdvanced == base

\* *base_addr += num_words.
Advanced == base + Rows(layer)

\* The bias ends a slot; the last slot ends a word, and the last word the layer.
WriteBias ==
  /\ layer <= LayerCount /\ i = Inputs
  /\ mem' = [mem EXCEPT ![Address(Lanes * Inputs + n, base + k)] = SlotBias]
  /\ i' = 0
  /\ n' = (n + 1) % Lanes
  /\ LET lastSlot == n = Lanes - 1
         lastWord == lastSlot /\ k = Rows(layer) - 1
     IN /\ k' = IF lastWord THEN 0 ELSE IF lastSlot THEN k + 1 ELSE k
        /\ layer' = IF lastWord THEN layer + 1 ELSE layer
        /\ base' = IF lastWord THEN Advanced ELSE base
  /\ UNCHANGED <<trained, buffer>>

\* The frontend's file has come to the firmware; the memory still holds the words
\* of the model loaded before.
Init ==
  /\ trained \in Trained /\ buffer = Packed
  /\ layer = 1 /\ base = 0 /\ k = 0 /\ n = 0 /\ i = 0
  /\ mem = [a \in Addresses |-> Old]

Done == layer = LayerCount + 1 /\ UNCHANGED vars

Next == WriteWeight \/ WriteBias \/ Done

Spec == Init /\ [][Next]_vars

-----------------------------------------------------------------------------
(* Properties.                                                              *)

TypeOK ==
  /\ trained \in Trained
  /\ layer \in 1..(LayerCount + 1)
  /\ base \in 0..Words /\ k \in 0..(Words - 1) /\ n \in 0..(Lanes - 1) /\ i \in 0..Inputs
  /\ DOMAIN mem = Addresses /\ buffer = Packed

\* No register is written twice in one load: layers, words, slots and inputs
\* never collide, nor do the weights with the biases
\* (mlp_weight_loader.h:40-68).
WrittenOnce ==
  [][\A a \in Addresses : mem'[a] # mem[a] => mem[a] = Old]_vars

\* The core finds the layers one behind the other, and three neurons in a word.
FirstWord[l \in 1..LayerCount] == IF l = 1 THEN 0 ELSE FirstWord[l - 1] + Rows(l - 1)
WordOf(l, j) == FirstWord[l] + (j \div Lanes)

\* What the core finds at its input x for neuron j of layer l.
Effective(l, j, x) == mem[Address((j % Lanes) * Inputs + x, WordOf(l, j))]
EffectiveBias(l, j) == mem[Address(Lanes * Inputs + (j % Lanes), WordOf(l, j))]

\* Once a load is over the core computes the trained network: each neuron has its
\* trained weights and bias, and zero for everything the checkpoint does not have,
\* the slots of a last, partly filled word included.  It needs the frontend's
\* template, the firmware's pointers and the loader's calls to agree
\* (hft_frontend.py:26-36, 347-385, main.c:271-286, mlp_weight_loader.h:23-119).
LoadedAsTrained ==
  layer = LayerCount + 1 =>
    \A l \in 1..LayerCount : \A j \in 0..(Lanes * Rows(l) - 1) :
      /\ \A x \in 0..(Inputs - 1) :
           Effective(l, j, x) =
             IF j < LoaderShapes[l].out /\ x < LoaderShapes[l].in
             THEN PackedWeight(l, j, x) ELSE Zero
      /\ EffectiveBias(l, j) =
           IF j < LoaderShapes[l].out THEN PackedBias(l, j) ELSE Zero
=============================================================================
