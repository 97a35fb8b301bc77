-------------------------- MODULE MCBoardFirmware --------------------------
(* Instance of BoardFirmware for TLC; its constants are numbers.             *)
EXTENDS BoardFirmware
=============================================================================
