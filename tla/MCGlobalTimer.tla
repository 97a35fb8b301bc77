--------------------------- MODULE MCGlobalTimer ---------------------------
(* Instance of GlobalTimer for TLC; its constants are numbers.               *)
EXTENDS GlobalTimer
=============================================================================
