---------------------------- MODULE MCWeightPath ----------------------------
(* Instance of WeightPath for TLC: the template of three layers has one with *)
(* a full last word, one with a partly filled word and one that is narrower  *)
(* than the core; checkpoints are smaller, equal, larger, shorter, deeper,   *)
(* and have layers without a bias.  TLC also evaluates that the numbers the  *)
(* programs have written down fit on each other.                             *)
EXTENDS WeightPath, NetworkLayout

S(out, in) == [out |-> out, in |-> in]
L(out, in) == [out |-> out, in |-> in, complete |-> TRUE]
NoBias(out, in) == [out |-> out, in |-> in, complete |-> FALSE]

Small == <<S(4, 4), S(2, 4), S(3, 2)>>
SmallBiases == <<4, 2, 3>>
SmallBlocks ==
  <<[weights |-> 16, biases |-> 4], [weights |-> 8, biases |-> 2], [weights |-> 6, biases |-> 3]>>

Checkpoints ==
  {<<L(4, 4), L(2, 4), L(3, 2)>>, <<L(3, 2), L(2, 3), L(3, 2)>>,
   <<L(5, 6), L(4, 5), L(3, 4)>>, <<L(2, 2), L(3, 2)>>,
   <<L(4, 4), L(2, 4), L(2, 2), L(3, 2)>>,
   <<NoBias(4, 4), L(4, 4), NoBias(2, 3), L(2, 4), L(3, 2)>>}

\* The network of the code, 64-32-16-3 into a core of 64 inputs and 128 words.
Network == INSTANCE WeightPath
  WITH PanelShapes <- FPGA_LAYER_SHAPES, PanelBiases <- FPGA_BIAS_SIZES,
       FirmwareBlocks <- ModelPointers, LoaderShapes <- DefaultNetwork,
       Inputs <- 64, Words <- 128
ASSUME NumbersAgree == Network!LayoutsAgree
=============================================================================
