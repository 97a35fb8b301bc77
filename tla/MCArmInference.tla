--------------------------- MODULE MCArmInference ---------------------------
(* Instance of ArmInference for TLC: words of four bits, features at the ends *)
(* of the word; trained values at both ends, around zero between two units,   *)
(* and one that no word holds.                                                *)
EXTENDS ArmInference

Network == <<2, 1, 3>>
Ends == {-8, -1, 7}
Trained == {-32, -5, 3, 31, 500}
=============================================================================
