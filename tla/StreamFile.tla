----------------------------- MODULE StreamFile -----------------------------
(***************************************************************************)
(* Files of features: what data_prep_binance.py and make_verify_stream.py   *)
(* write, and what the programs that read such a file make of it.  The two   *)
(* engines split a line at commas and take what stof takes; the scripts do   *)
(* the same with float().                                                   *)
(***************************************************************************)
EXTENDS FixedPoint, Selection

CONSTANTS
  Inputs,   \* 64, the features of a request
  NFeat,    \* 40, the columns of a file
  Periods   \* 8 klines or 20 trades in a row

ASSUME StreamAssumption ==
  /\ {Inputs, NFeat, Periods} \subseteq Nat \ {0}
  /\ NFeat > 1
  /\ Grain >= 3

\* A token is what stof and what float() make of it: a number or nothing.
Token == [cxx : Seq(Float), py : Seq(Float)]
Number(f) == [cxx |-> <<f>>, py |-> <<f>>]
Word0 == [cxx |-> << >>, py |-> << >>]                   \* True, False, an empty cell
Date(f) == [cxx |-> <<f>>, py |-> << >>]                 \* stof reads as far as it can
Huge == [cxx |-> << >>, py |-> <<[kind |-> "inf", pieces |-> 0]>>]  \* stof throws

\* A line is a sequence of tokens; the empty line has none.
Blank == << >>

-----------------------------------------------------------------------------
(* Readers.                                                                 *)

\* 64 features: zero-padded or cut.
Fit(s) == [k \in 1..Inputs |-> IF k <= Len(s) THEN s[k] ELSE 0]
Zeros == Fit(<< >>)

HostWords(floats) == Fit([k \in DOMAIN floats |-> HostWord(floats[k])])
LegacyWords(floats) == Fit([k \in DOMAIN floats |-> LegacyWord(floats[k])])
VerifierWords(floats) == Fit([k \in DOMAIN floats |-> VerifierWord(floats[k])])

\* What the engines send for a line that is not empty.
EngineFeatures(engine, line) ==
  LET floats == FlattenSeq([k \in DOMAIN line |-> line[k].cxx])
  IN IF engine = "linux" THEN HostWords(floats) ELSE LegacyWords(floats)

PyFloats(line) == FlattenSeq([k \in DOMAIN line |-> line[k].py])

\* parse_stream of the verifier: row i of the log belongs to line i of the file;
\* an empty line, and a line the file does not have, are rows of zeros.
ParseStream(file, n, legacy) ==
  [i \in 1..n |-> IF i > Len(file) THEN Zeros
                  ELSE IF legacy THEN LegacyWords(PyFloats(file[i]))
                  ELSE VerifierWords(PyFloats(file[i]))]

\* parse_stream_rows of quantization_analysis.py.
ParseStreamRows(file, n) ==
  [i \in 1..n |-> IF i > Len(file) THEN Zeros
                  ELSE LegacyWords(PyFloats(file[i]))]

-----------------------------------------------------------------------------
(* make_verify_stream.py.                                                   *)

Full(x) == [k \in 1..NFeat |-> x]
Tile(x, y) == [k \in 1..NFeat |-> IF k % 2 = 1 THEN x ELSE y]
Linspace(x, y) == [k \in 1..NFeat |-> x + ((y - x) * (k - 1)) \div (NFeat - 1)]
Highest == Top * Grain
Lowest == Bottom * Grain
OneHot(x, k) == [Full(0) EXCEPT ![k] = x]

\* Fault: the corners stay inside the words.
TameCorners ==
  <<Full(0), Full(Grain), Full(-Grain), Tile(Grain, -Grain), Tile(-Grain, Grain),
    Linspace(-Grain, Grain), Linspace(Grain, -Grain)>>
  \o FlattenSeq([k \in 1..NFeat |-> <<OneHot(Grain, k), OneHot(-Grain, k)>>])
Corners ==
  <<Full(0), Full(Highest), Full(Lowest), Full(Grain), Full(-Grain),
    Tile(Highest, Lowest), Tile(Lowest, Highest),
    Linspace(Lowest, Highest), Linspace(Highest, Lowest)>>
  \o FlattenSeq([k \in 1..NFeat |-> <<OneHot(Highest, k), OneHot(Lowest, k)>>])

\* build: the corners and random rows, cut to n rows, on the grid.
Build(n, random) ==
  LET rows == Corners \o random
  IN [r \in 1..(IF n < Len(rows) THEN n ELSE Len(rows)) |->
        [k \in 1..NFeat |-> Saturate(Truncate(rows[r][k]))]]

\* "%.6f": one unit is 3906.25 of the last decimal, so only every fourth value is
\* exact and the others are rounded by less than a piece.
Printed(w) ==
  LET size == IF w < 0 THEN -w ELSE w
      off == CASE size % 4 = 0 -> 0
               [] size % 4 = 1 -> -1
               [] size % 4 = 3 -> 1
               [] OTHER -> IF (size \div 4) % 2 = 0 THEN -1 ELSE 1
  IN Number(Finite(IF w < 0 THEN w * Grain - off ELSE w * Grain + off))

SaveTxt(rows) == [r \in DOMAIN rows |-> [k \in DOMAIN rows[r] |-> Printed(rows[r][k])]]

-----------------------------------------------------------------------------
(* data_prep_binance.py.  A raw record holds a float, or nothing, for each of *)
(* the columns that are used.                                                *)

\* to_numeric(errors='coerce') makes a NaN of what is no number, and dropna drops
\* the records with a NaN, whether it was made or read.
IsNaN(cell) == cell = << >> \/ cell[1].kind = "nan"
Numeric(records) ==
  Chosen(records, {i \in DOMAIN records : \A c \in DOMAIN records[i] : ~IsNaN(records[i][c])})

\* Fault: the last record starts no row.
MissesLast(raw) ==
  LET numeric == Numeric(Tail(raw))
  IN [i \in 1..(Len(numeric) - Periods) |->
        FlattenSeq([j \in 1..Periods |-> FlattenSeq(numeric[i + j - 1])])]
\* prepare_klines_features and prepare_trades_features: the first row of the file
\* is its header, whatever it holds.
Prepared(raw) ==
  LET numeric == Numeric(Tail(raw))
  IN [i \in 1..(Len(numeric) - Periods + 1) |->
        FlattenSeq([j \in 1..Periods |-> FlattenSeq(numeric[i + j - 1])])]

\* to_csv writes every digit.
ToCsv(rows) == [r \in DOMAIN rows |-> [k \in DOMAIN rows[r] |-> Number(rows[r][k])]]
=============================================================================
