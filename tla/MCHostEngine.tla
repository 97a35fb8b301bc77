--------------------------- MODULE MCHostEngine ---------------------------
(* Instances of HostEngine for TLC: a stream file of two rows around a blank *)
(* line, a file of one row, and the commands the frontend sends in each run. *)
EXTENDS HostEngine

TwoRowFile == <<"row", "blank", "row">>
OneRowFile == <<"row">>

Cmd(op, arg) == [op |-> op, arg |-> arg]
StreamCommands ==
  {Cmd("STREAM", "file"), Cmd("STREAM", "missing"), Cmd("TEST_STREAM", "none"),
   Cmd("STOP", "none"), Cmd("OTHER", "none")}
ModelCommands ==
  {Cmd("MODEL", "fits"), Cmd("MODEL", "short"), Cmd("MODEL", "empty"),
   Cmd("TEST_MODEL", "none"), Cmd("STREAM", "file")}
UploadCommands == ModelCommands \cup {Cmd("STOP", "none")}
=============================================================================
