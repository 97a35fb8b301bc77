---------------------------- MODULE GlobalTimer ----------------------------
(***************************************************************************)
(* The time stamps of lwip_echo_server/src/main.c.  The 64-bit counter is   *)
(* read as two halves of 32 bits while it runs (XTime_GetTime), Readings    *)
(* times per packet, and the differences are sent as 32-bit stage times.    *)
(* A half holds Half values here, 2^32 on the board.                        *)
(***************************************************************************)
EXTENDS Integers, Sequences

CONSTANTS
  Half,      \* values of one half of the counter
  MaxHigh,   \* bound on the high half
  Readings   \* readings of the counter per packet, 6 in the code

ASSUME HalvesAssumption ==
  Half \in Nat \ {0} /\ MaxHigh \in Nat /\ Readings \in Nat \ {0}

VARIABLES
  now,       \* the counter
  step,      \* the next register read of XTime_GetTime
  hi, lo,    \* its locals
  began,     \* history: the counter when XTime_GetTime was entered
  stamps,    \* g_t_poll, t_cb, t_parse, t_dma, t_pl, t_read so far
  windows,   \* history: for each stamp the counter at its entry and return
  stg        \* the stage times of the reply

timer == <<now, step, hi, lo, began, stamps, windows, stg>>

Time == [high : 0..MaxHigh, low : 0..(Half - 1)]
Ticks(t) == t.high * Half + t.low

\* The order of two times.
NotAfter(s, t) == s.high < t.high \/ (s.high = t.high /\ s.low <= t.low)

\* The counter runs, by one tick or by many.
Tick ==
  /\ \E t \in Time : NotAfter(now, t) /\ t # now /\ now' = t
  /\ UNCHANGED <<step, hi, lo, began, stamps, windows, stg>>

-----------------------------------------------------------------------------
(* XTime_GetTime, and the code between two calls of it.                     *)

\* Fault: one reading too many.
OneMoreToRead == Len(stamps) <= Readings

MoreToRead == Len(stamps) < Readings

Enter ==
  /\ step = "out" /\ MoreToRead
  /\ began' = now
  /\ step' = "high"
  /\ UNCHANGED <<now, hi, lo, stamps, windows, stg>>

ReadHigh ==
  /\ step = "high"
  /\ hi' = now.high
  /\ step' = "low"
  /\ UNCHANGED <<now, lo, began, stamps, windows, stg>>

ReadLow ==
  /\ step = "low"
  /\ lo' = now.low
  /\ step' = "again"
  /\ UNCHANGED <<now, hi, began, stamps, windows, stg>>

\* Fault: the high half is not read again.
NotChecked == TRUE

\* The loop condition at 40.
SameHigh == now.high = hi

Return ==
  /\ step = "again" /\ SameHigh
  /\ stamps' = Append(stamps, [high |-> hi, low |-> lo])
  /\ windows' = Append(windows, <<began, now>>)
  /\ step' = "out"
  /\ UNCHANGED <<now, hi, lo, began, stg>>

Retry ==
  /\ step = "again" /\ ~SameHigh
  /\ step' = "high"
  /\ UNCHANGED <<now, hi, lo, began, stamps, windows, stg>>

\* Fault: the operands are swapped.
Backwards(s, t) == (Ticks(s) - Ticks(t)) % Half

\* (u32)(t - s).
Stage(s, t) == (Ticks(t) - Ticks(s)) % Half

\* The stage times of one reply.
Report ==
  /\ step = "out" /\ Len(stamps) = Readings /\ stg = << >>
  /\ stg' = [k \in 1..(Readings - 1) |-> Stage(stamps[k], stamps[k + 1])]
  /\ UNCHANGED <<now, step, hi, lo, began, stamps, windows>>

TimerInit ==
  /\ now \in Time
  /\ step = "out" /\ hi = 0 /\ lo = 0
  /\ began = now
  /\ stamps = << >> /\ windows = << >> /\ stg = << >>

TimerNext == Tick \/ Enter \/ ReadHigh \/ ReadLow \/ Return \/ Retry \/ Report

TimerSpec == TimerInit /\ [][TimerNext]_timer

-----------------------------------------------------------------------------
(* Properties.                                                              *)

\* Every variable keeps its type; a packet takes no more than its readings.
TimerTypeOK ==
  /\ now \in Time /\ began \in Time
  /\ step \in {"out", "high", "low", "again"}
  /\ hi \in 0..MaxHigh /\ lo \in 0..(Half - 1)
  /\ stamps \in Seq(Time) /\ windows \in Seq(Time \X Time)
  /\ Len(windows) = Len(stamps) /\ Len(stamps) <= Readings
  /\ stg = << >> \/ stg \in [1..(Readings - 1) -> 0..(Half - 1)]

\* Each stamp is a time the counter really had between the call and the return
\* of XTime_GetTime, whatever carries happened between the three register reads
\* (35-42).
StampsAreReal ==
  \A k \in 1..Len(stamps) :
    /\ NotAfter(windows[k][1], stamps[k])
    /\ NotAfter(stamps[k], windows[k][2])

\* A stage time never exceeds the time that passed between the entry of the
\* first reading and the return of the second, and is no shorter than the time
\* between them, as long as less than 2^32 ticks passed (382-387).
StagesAreReal ==
  stg # << >> =>
    \A k \in 1..(Readings - 1) :
      LET longest  == Ticks(windows[k + 1][2]) - Ticks(windows[k][1])
          shortest == Ticks(windows[k + 1][1]) - Ticks(windows[k][2])
      IN longest < Half => stg[k] <= longest /\ stg[k] >= shortest
=============================================================================
