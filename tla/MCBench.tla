------------------------------ MODULE MCBench ------------------------------
(* Instance of Bench for TLC: words of four bits with a Scale of 4, files of   *)
(* two columns for requests of three features.                               *)
EXTENDS Bench

Two == <<<<4, 0, 4, 0>>, <<-4, 4, 4, 1>>>>
Three == <<<<5, 4, 0>>, <<-3, 4, 1>>, <<2, 2, -1>>>>
\* The second corner, all features at their largest, overflows this network.
ASSUME NetworkOverflows == OverflowsAt(Fit([c \in 1..NFeat |-> Top]))

\* All corners and one random row, and a cut after the corners' beginning.
StimulusCalls ==
  {[n |-> 14, random |-> <<<<-30, 18>>>>], [n |-> 3, random |-> << >>]}

\* Two columns of a file with its header, with and without a text between the
\* records, a file without header, and one that is too short.
At(x) == <<Finite(x)>>
HeaderRow == <<<< >>, << >>>>
Market ==
  {<<HeaderRow, <<At(4), At(9)>>, <<At(-7), At(70)>>, <<At(12), At(0)>>>>,
   <<HeaderRow, <<At(4), At(9)>>, <<At(5), << >>>>, <<At(-7), At(70)>>, <<At(1), At(2)>>>>,
   <<<<At(4), At(9)>>, <<At(3), At(3)>>, <<<<[kind |-> "nan", pieces |-> 0]>>, At(1)>>,
     <<At(-7), At(7)>>, <<At(1), At(6)>>>>,
   <<HeaderRow, <<At(1), At(1)>>>>}

\* Plain lines, a blank line, a line that holds nothing, and the tokens the
\* programs differ about.
Line == <<Number(Finite(17)), Word0, Number(Finite(-9))>>
OwnStreams ==
  {<<Line, <<Word0>>, Line, <<Number(Finite(200)), Number(Finite(-200))>>>>,
   <<Line, Blank, <<Number(Finite(30))>>, Line>>,
   <<<<Date(Finite(500)), Number(Finite(5))>>, <<Huge, Number(Finite(9))>>,
     <<Number([kind |-> "nan", pieces |-> 0]), Number(Finite(900000))>>>>}
=============================================================================
