---------------------------- MODULE ExecutionLog ----------------------------
(***************************************************************************)
(* The engine's log: the rows the two engines write, and what each of the    *)
(* scripts that evaluate a log reads from it.  A log is a sequence of rows,   *)
(* a row a sequence of cells; float formats are left out.                    *)
(***************************************************************************)
EXTENDS Integers, FiniteSets, FiniteSetsExt, Selection

\* A cell holds a number or a text.
Num(v) == [num |-> <<v>>, text |-> ""]
Text(s) == [num |-> << >>, text |-> s]
Missing == Text("")
IsNum(c) == c.num # << >>
Val(c) == c.num[1]

TimeoutText == Text("TIMEOUT")

-----------------------------------------------------------------------------
(* The writers.                                                             *)

Header(engine) ==
  <<Text("Timestamp_us"), Text("Latency_us"), Text("Result")>> \o
  IF engine = "windows" THEN << >>
  ELSE <<Text("recv_ticks"), Text("parse_ticks"), Text("dma_ticks"), Text("pl_ticks"),
         Text("read_ticks"), Text("out0"), Text("out1"), Text("out2"), Text("cycles")>>

\* A reply of 1, 21, 27 or 29 bytes; of the first byte only 0, 1, 2 are decisions.
ResultName(reply) ==
  CASE reply.first = 0 -> "SELL"
    [] reply.first = 1 -> "HOLD"
    [] reply.first = 2 -> "BUY"
    [] OTHER -> "UNKNOWN"

Cells(present, values) == [k \in DOMAIN values |-> IF present THEN Num(values[k]) ELSE Missing]

AnsweredRow(engine, now, latency, reply) ==
  <<Num(now), Num(latency), Text(ResultName(reply))>> \o
  IF engine = "windows" THEN << >>
  ELSE Cells(reply.bytes >= 21, reply.ticks) \o Cells(reply.bytes >= 27, reply.outs)
       \o Cells(reply.bytes >= 29, <<reply.cycles>>)

TimeoutRow(now) == <<Num(now), TimeoutText, TimeoutText>>

\* A file opened to append: the header is buffered if the file is empty, and
\* reaches it with the first row, which is flushed.
AppendRow(log, engine, row) == IF log = << >> THEN <<Header(engine), row>> ELSE Append(log, row)

-----------------------------------------------------------------------------
(* The readers.  Each takes the first row for the header.                    *)

Repeated(row) == row[1] = Text("Timestamp_us")
NotRepeated(rows) == Chosen(rows, {i \in DOMAIN rows : ~Repeated(rows[i])})

\* verify_bitexact.py, NAME_TO_ID; -1 for any other text.
NameToId(cell) ==
  CASE cell = Text("SELL") -> 0
    [] cell = Text("HOLD") -> 1
    [] cell = Text("BUY") -> 2
    [] OTHER -> -1

\* int() of the three cells, or zeros if one is no number.
Scores(row) ==
  LET cells == SubSeq(row, 9, 11)
  IN IF Len(row) >= 11 /\ \A k \in 1..3 : IsNum(cells[k])
     THEN [k \in 1..3 |-> Val(cells[k])] ELSE <<0, 0, 0>>

\* read_log.  hasLogits may be set by a row after the first TIMEOUT.
ReadLog(log) ==
  LET rows == NotRepeated(Tail(log))
      dec == [i \in DOMAIN rows |-> NameToId(rows[i][3])]
  IN [dec |-> dec,
      logits |-> [i \in DOMAIN rows |-> IF dec[i] = -1 THEN <<0, 0, 0>> ELSE Scores(rows[i])],
      hasLogits |-> \/ \E k \in DOMAIN log[1] : log[1][k] = Text("out0")
                    \/ \E i \in DOMAIN rows : dec[i] # -1 /\ Len(rows[i]) >= 11,
      timeouts |-> Cardinality({i \in DOMAIN rows : dec[i] = -1}),
      headers |-> Len(log) - 1 - Len(rows)]

\* quantization_analysis.py: the names of engines before and after the fix.
LegacyNameToId(cell) ==
  CASE cell = Text("HOLD") -> 0
    [] cell = Text("BUY") -> 1
    [] cell = Text("SELL") -> 2
    [] OTHER -> -1
QuantDecisions(log, fixedLog) ==
  [i \in 1..(Len(log) - 1) |->
     IF fixedLog THEN NameToId(log[i + 1][3]) ELSE LegacyNameToId(log[i + 1][3])]

\* analyze_jitter.py; without a column "cycles" it ends at once.
CycleColumn(log) == {k \in DOMAIN log[1] : log[1][k] = Text("cycles")}
JitterReport(log) ==
  LET rows == NotRepeated(Tail(log))
      col == CHOOSE k \in CycleColumn(log) : TRUE
      has == Chosen(rows, {i \in DOMAIN rows : Len(rows[i]) >= col /\ IsNum(rows[i][col])})
  IN [rows |-> Len(rows), missing |-> Len(rows) - Len(has),
      values |-> [i \in DOMAIN has |-> Val(has[i][col])]]

\* Fault: the ticks are looked for one column to the right.
OneToTheRight(log) ==
  LET Staged(r) == Len(r) >= 8 /\ r[4] # Missing /\ r[2] # TimeoutText
                   /\ \A k \in 5..9 : IsNum(r[k])
      has == Chosen(Tail(log), {i \in DOMAIN Tail(log) : Staged(Tail(log)[i])})
  IN [ticks |-> [i \in DOMAIN has |-> [k \in 1..5 |-> Val(has[i][k + 4])]],
      e2e |-> [i \in DOMAIN has |-> Val(has[i][2])]]
\* parse_stage_timing.py, of a log with eight columns or more.  The ticks of a row
\* are kept before its latency is converted, which may fail.
StageTimes(log) ==
  LET Staged(r) == Len(r) >= 8 /\ r[4] # Missing /\ r[2] # TimeoutText
                   /\ \A k \in 4..8 : IsNum(r[k])
      has == Chosen(Tail(log), {i \in DOMAIN Tail(log) : Staged(Tail(log)[i])})
      timed == Chosen(has, {i \in DOMAIN has : IsNum(has[i][2])})
  IN [ticks |-> [i \in DOMAIN has |-> [k \in 1..5 |-> Val(has[i][k + 3])]],
      e2e |-> [i \in DOMAIN timed |-> Val(timed[i][2])]]

\* analyze_linux_log.py: the latencies and their times since the first of them.
LatencyReport(log) ==
  LET rows == Tail(log)
      valid == Chosen(rows, {i \in DOMAIN rows : rows[i][2] # TimeoutText})
      start == Min({Val(valid[i][1]) : i \in DOMAIN valid})
  IN [timeouts |-> Len(rows) - Len(valid),
      times |-> [i \in DOMAIN valid |-> Val(valid[i][1]) - start],
      latencies |-> [i \in DOMAIN valid |-> Val(valid[i][2])]]
=============================================================================
