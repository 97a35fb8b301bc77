---------------------------- MODULE ArmInference ----------------------------
(***************************************************************************)
(* The inference in integers, twice: arm_layer and arm_infer_once of main.c, *)
(* which the board runs on its processor and which "follow the same order   *)
(* as the RTL", and forward_q88 of verify_bitexact.py, the model the core   *)
(* is compared with.  One step multiplies and adds one input in both.        *)
(*                                                                          *)
(* Every weight is read once in an inference, so the model is any: a weight *)
(* is chosen, as the float it was trained to, when it is read.               *)
(***************************************************************************)
EXTENDS FixedPoint, Sequences

CONSTANTS
  Sizes,     \* 64, ARM_L1, ..., ARM_L4: features, then neurons of each layer
  Features,  \* values of a feature
  Floats     \* pieces of the weights and biases

ASSUME NetworkAssumption ==
  /\ Sizes \in Seq(Nat \ {0}) /\ Len(Sizes) >= 2
  /\ Sizes[Len(Sizes)] = 3
  /\ Features \subseteq Word /\ Floats \subseteq Int
  \* a layer of the widest values fits into an s32 after the shift
  /\ \A l \in 1..(Len(Sizes) - 1) :
       (Sizes[l] * (Top + 1) + Scale) * (Top + 1) <= Scale * IntTop

VARIABLES
  layer,   \* arm_infer_once: the call of arm_layer
  i,       \* arm_layer: the input to be added; 0 before the bias
  acc,     \* arm_layer: the accumulator
  in, out, \* arm_layer: its arrays; out holds the neurons before the current one
  emuIn, emuOut,  \* forward_q88: the same rows of its matrices
  sum, bias,      \* forward_q88: one element of a @ W.T, and its element of B
  wide     \* history: a weight was read that no word of Q8.8 holds

vars == <<layer, i, acc, in, out, emuIn, emuOut, sum, bias, wide>>

Layers == 1..(Len(Sizes) - 1)
Inputs == Sizes[layer]
Neurons == Sizes[layer + 1]
LastLayer == layer = Len(Sizes) - 1
Running == layer \in Layers

-----------------------------------------------------------------------------
(* main.c.                                                                  *)

\* Fault: the tables hold ints.
UncutTable(x) == WeightInt(x)
\* (s16)float_to_q88.
Table(x) == Low(WeightInt(x), Top)

Read(x) == wide' = (wide \/ Truncate(x) \notin Word)

\* s64 acc = B[j] << 8.
LoadBias ==
  /\ Running /\ i = 0
  /\ \E b \in Floats : acc' = Table(b) * Scale /\ bias' = Truncate(b) /\ Read(b)
  /\ i' = 1 /\ sum' = 0
  /\ UNCHANGED <<layer, in, out, emuIn, emuOut>>

AddProduct ==
  /\ Running /\ i \in 1..Inputs
  /\ \E w \in Floats :
       /\ acc' = acc + in[i] * Table(w)
       /\ sum' = sum + emuIn[i] * Truncate(w)
       /\ Read(w)
  /\ i' = i + 1
  /\ UNCHANGED <<layer, in, out, emuIn, emuOut, bias>>

\* Fault: the conversion to s32 comes before the shift.
NarrowedFirst(a) == Saturate(Shift(Low(a, IntTop)))
\* arm_sat((s32)(acc >> 8)).
Narrowed(a) == Saturate(Low(Shift(a), IntTop))

Rectified(v) == IF ~LastLayer /\ v < 0 THEN 0 ELSE v

-----------------------------------------------------------------------------
(* verify_bitexact.py.                                                      *)

\* One element of a: the weights are truncated and not cut to a word.
EmulatedNeuron ==
  LET s == Saturate(Shift(sum + bias * Scale))
  IN IF LastLayer THEN s ELSE IF s > 0 THEN s ELSE 0

-----------------------------------------------------------------------------
\* out[j] = o, in both programs; after the last neuron the next layer reads what
\* this one wrote.
StoreNeuron ==
  /\ Running /\ i = Inputs + 1
  /\ LET o == Append(out, Rectified(Narrowed(acc)))
         e == Append(emuOut, EmulatedNeuron)
         last == Len(out) = Neurons - 1
     IN /\ out' = IF last /\ ~LastLayer THEN << >> ELSE o
        /\ in' = IF last /\ ~LastLayer THEN o ELSE in
        /\ emuOut' = IF last /\ ~LastLayer THEN << >> ELSE e
        /\ emuIn' = IF last /\ ~LastLayer THEN e ELSE emuIn
        /\ layer' = IF last THEN layer + 1 ELSE layer
  /\ i' = 0 /\ acc' = 0 /\ sum' = 0 /\ bias' = 0
  /\ UNCHANGED wide

Init ==
  /\ layer = 1 /\ i = 0 /\ acc = 0
  /\ in \in [1..Sizes[1] -> Features]
  /\ emuIn = in
  /\ out = << >> /\ emuOut = << >> /\ sum = 0 /\ bias = 0 /\ wide = FALSE

Done == ~Running /\ UNCHANGED vars

Next == LoadBias \/ AddProduct \/ StoreNeuron \/ Done

Spec == Init /\ [][Next]_vars

-----------------------------------------------------------------------------
(* Properties.                                                              *)

\* The types of both programs (main.c:69-111, verify_bitexact.py:116-126).
TypeOK ==
  /\ layer \in 1..Len(Sizes)
  /\ i \in Nat /\ {acc, sum, bias} \subseteq Int
  /\ {in, out, emuIn, emuOut} \subseteq Seq(Word)
  /\ wide \in BOOLEAN
  /\ Len(emuIn) = Len(in) /\ Len(emuOut) = Len(out)
  /\ Running => Len(in) = Inputs /\ i <= Inputs + 1 /\ Len(out) < Neurons
  /\ ~Running => Len(out) = 3

\* The sum stays where it can be shifted and narrowed to s32 without a loss,
\* however far the weights and activations are driven (main.c:90-94).
NarrowingIsExact ==
  Running /\ i = Inputs + 1 => Low(Shift(acc), IntTop) = Shift(acc)

\* As long as every weight read fits into a word of Q8.8, the processor computes
\* what the script computes, neuron by neuron, with all saturations, floors and
\* rectifications; a wider weight is cut by the one and kept by the other
\* (main.c:76-111, verify_bitexact.py:75-126).
ImplementationsAgree == ~wide => in = emuIn /\ out = emuOut

\* The class that is answered has the largest score, except that a tie of HOLD
\* and BUY above SELL is answered with SELL (main.c:108-110,
\* verify_bitexact.py:129-135).
DecisionIsLargest ==
  ~Running =>
    LET d == Decision(out) + 1 IN
    (\A k \in 1..3 : out[d] >= out[k]) \/ (d = 1 /\ out[2] = out[3])
=============================================================================
