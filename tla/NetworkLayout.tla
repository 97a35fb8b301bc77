--------------------------- MODULE NetworkLayout ---------------------------
(***************************************************************************)
(* The shape of the network as three programs have it written down: numbers  *)
(* that must agree and that only their authors compare.                     *)
(***************************************************************************)
EXTENDS Integers

Of(out, in) == [out |-> out, in |-> in]
Pointers(weights, biases) == [weights |-> weights, biases |-> biases]

\* The frontend: per layer neurons and inputs, and the biases.
FPGA_LAYER_SHAPES == <<Of(64, 64), Of(32, 64), Of(16, 32), Of(3, 16)>>
FPGA_BIAS_SIZES == <<64, 32, 16, 3>>

\* The firmware: W1, B1, ..., W4, B4.
ModelPointers ==
  <<Pointers(64 * 64, 64), Pointers(32 * 64, 32), Pointers(16 * 32, 16), Pointers(3 * 16, 3)>>

\* The loader: load_default_network.
DefaultNetwork == <<Of(64, 64), Of(32, 64), Of(16, 32), Of(3, 16)>>
=============================================================================
