---------------------------- MODULE Bench_proofs ----------------------------
(***************************************************************************)
(* Theorems about a measurement from end to end, for every stream file,      *)
(* every network that fits the accumulator and every number of requests,     *)
(* faults and runs: what the verifier accuses and what it passes, and that   *)
(* every script reads from a log what was put there.                         *)
(***************************************************************************)
EXTENDS Bench, DataInduction

-----------------------------------------------------------------------------
(* Selections.                                                              *)

\* Joining sequences of one element gives the sequence of the elements.
LEMMA FlattenSingles ==
  ASSUME NEW C, NEW s \in Seq(C)
  PROVE  FlattenSeq([k \in DOMAIN s |-> <<s[k]>>]) = s
<1> DEFINE Singles(t) == [k \in DOMAIN t |-> <<t[k]>>]
           S == {t \in Seq(C) : FlattenSeq(Singles(t)) = t}
<1>1. << >> \in S
  <2>1. Singles(<< >>) = << >>  OBVIOUS
  <2> QED  BY <2>1, FlattenJoin
<1>2. ASSUME NEW t \in Seq(C), NEW c \in C, t \in S PROVE Append(t, c) \in S
  <2>1. Singles(t) \in Seq(Seq(C)) /\ <<c>> \in Seq(C)
    <3> DEFINE L == Seq(C)
    <3>1. Len(t) \in Nat /\ DOMAIN t = 1..Len(t) /\ \A k \in 1..Len(t) : <<t[k]>> \in L
      OBVIOUS
    <3> HIDE DEF L
    <3>2. [k \in DOMAIN t |-> <<t[k]>>] \in Seq(L)  BY <3>1
    <3> QED  BY <3>2 DEF L
  <2>2. Singles(Append(t, c)) = Append(Singles(t), <<c>>)  OBVIOUS
  <2>3. FlattenSeq(Append(Singles(t), <<c>>)) = FlattenSeq(Singles(t)) \o <<c>>
    <3> HIDE DEF Singles
    <3> QED  BY <2>1, FlattenAppend
  <2>4. t \o <<c>> = Append(t, c) /\ Append(t, c) \in Seq(C)  OBVIOUS
  <2>5. FlattenSeq(Singles(t)) = t  BY <1>2
  <2> HIDE DEF Singles
  <2> QED  BY <2>2, <2>3, <2>4, <2>5
<1> HIDE DEF S
<1>3. Seq(C) \subseteq S  BY <1>1, <1>2, InductionOnSeq
<1> QED  BY <1>3 DEF S

\* A selection from a sequence that is one element longer.
LEMMA ChosenAppend ==
  ASSUME NEW C, NEW I, NEW s \in Seq(C), NEW c \in C
  PROVE  Chosen(Append(s, c), I)
           = IF Len(s) + 1 \in I THEN Append(Chosen(s, I), c) ELSE Chosen(s, I)
<1> DEFINE Pieces(t) == [k \in DOMAIN t |-> IF k \in I THEN <<t[k]>> ELSE << >>]
           last == IF Len(s) + 1 \in I THEN <<c>> ELSE << >>
<1>1. Pieces(s) \in Seq(Seq(C)) /\ last \in Seq(C)
  <2> DEFINE L == Seq(C)
  <2>1. /\ Len(s) \in Nat /\ DOMAIN s = 1..Len(s) /\ << >> \in L
        /\ \A k \in 1..Len(s) : <<s[k]>> \in L
    OBVIOUS
  <2>2. last \in L  OBVIOUS
  <2> HIDE DEF L, last
  <2>3. Pieces(s) \in Seq(L)  BY <2>1
  <2> QED  BY <2>2, <2>3 DEF L
<1>2. Pieces(Append(s, c)) = Append(Pieces(s), last)  OBVIOUS
<1>3. Chosen(s, I) = FlattenSeq(Pieces(s))
      /\ Chosen(Append(s, c), I) = FlattenSeq(Pieces(Append(s, c)))
  BY DEF Chosen
<1> HIDE DEF Pieces, last
<1>4. FlattenSeq(Append(Pieces(s), last)) = FlattenSeq(Pieces(s)) \o last
  BY <1>1, FlattenAppend
<1>5. FlattenSeq(Pieces(s)) \in Seq(C)  BY <1>1, FlattenJoin
<1>6. FlattenSeq(Pieces(s)) \o last
        = IF Len(s) + 1 \in I THEN Append(FlattenSeq(Pieces(s)), c) ELSE FlattenSeq(Pieces(s))
  BY <1>5 DEF last
<1> QED  BY <1>2, <1>3, <1>4, <1>6

\* The numbers of the first n rows.
Numbers(n) == [i \in 1..n |-> i]

\* A selection is given by the numbers of the rows it takes, which ascend.
LEMMA ChosenByNumber ==
  ASSUME NEW C, NEW I, NEW s \in Seq(C)
  PROVE  LET ids == Chosen(Numbers(Len(s)), I) IN
         /\ ids \in Seq(I \cap 1..Len(s))
         /\ Chosen(s, I) = [j \in 1..Len(ids) |-> s[ids[j]]]
         /\ \A j, k \in 1..Len(ids) : j < k => ids[j] < ids[k]
<1> DEFINE Ids(t) == Chosen(Numbers(Len(t)), I)
           Given(t) == /\ Ids(t) \in Seq(I \cap 1..Len(t))
                       /\ Chosen(t, I) = [j \in 1..Len(Ids(t)) |-> t[Ids(t)[j]]]
                       /\ \A j, k \in 1..Len(Ids(t)) : j < k => Ids(t)[j] < Ids(t)[k]
           S == {t \in Seq(C) : Given(t)}
<1>1. << >> \in S
  <2>1. Numbers(Len(<< >>)) = << >>  BY DEF Numbers
  <2>2. Chosen(<< >>, I) = << >>
    <3>1. [k \in DOMAIN << >> |-> IF k \in I THEN <<(<< >>)[k]>> ELSE << >>] = << >>  OBVIOUS
    <3> QED  BY <3>1, FlattenJoin DEF Chosen
  <2>3. Ids(<< >>) = << >>  BY <2>1, <2>2
  <2> HIDE DEF Ids
  <2>4. << >> \in Seq(I \cap 1..Len(<< >>)) /\ << >> \in Seq(C) /\ Len(<< >>) = 0  OBVIOUS
  <2>5. << >> = [j \in 1..0 |-> (<< >>)[(<< >>)[j]]]  OBVIOUS
  <2>6. Given(<< >>)
    <3>1. Ids(<< >>) \in Seq(I \cap 1..Len(<< >>)) /\ Len(Ids(<< >>)) = 0  BY <2>3, <2>4
    <3>2. 1..0 = {}  OBVIOUS
    <3>3. Chosen(<< >>, I) = [j \in 1..Len(Ids(<< >>)) |-> (<< >>)[Ids(<< >>)[j]]]
      BY <2>2, <2>3, <2>4, <2>5
    <3> QED  BY <3>1, <3>2, <3>3
  <2> HIDE DEF Given
  <2> QED  BY <2>4, <2>6
<1>2. ASSUME NEW t \in Seq(C), NEW c \in C, t \in S PROVE Append(t, c) \in S
  <2> DEFINE u == Append(t, c)
             n == Len(t)
  <2>1. u \in Seq(C) /\ Len(u) = n + 1 /\ n \in Nat /\ u[n + 1] = c
        /\ \A k \in 1..n : u[k] = t[k]
    OBVIOUS
  <2>2. Numbers(n) \in Seq(Nat) /\ Len(Numbers(n)) = n  BY DEF Numbers
  <2>3. Numbers(n + 1) = Append(Numbers(n), n + 1)
    BY DEF Numbers
  <2>4. Ids(u) = IF n + 1 \in I THEN Append(Ids(t), n + 1) ELSE Ids(t)
    <3>1. Chosen(Append(Numbers(n), n + 1), I)
            = IF n + 1 \in I THEN Append(Chosen(Numbers(n), I), n + 1) ELSE Chosen(Numbers(n), I)
      <4> DEFINE N == Numbers(n)
                 L == Nat
                 m == n + 1
      <4>1. m \in L /\ N \in Seq(L) /\ Len(N) = n  BY <2>1, <2>2
      <4> HIDE DEF n, N, L, m
      <4>2. Chosen(Append(N, m), I)
              = IF Len(N) + 1 \in I THEN Append(Chosen(N, I), m) ELSE Chosen(N, I)
        BY <4>1, ChosenAppend
      <4> QED  BY <4>1, <4>2 DEF N, m
    <3> QED  BY <2>1, <2>3, <3>1
  <2>5. Chosen(u, I) = IF n + 1 \in I THEN Append(Chosen(t, I), c) ELSE Chosen(t, I)
    BY ChosenAppend
  <2>6. Given(t)  BY <1>2
  <2> DEFINE ids == Ids(t)
  <2>7. /\ ids \in Seq(I \cap 1..n)
        /\ Chosen(t, I) = [j \in 1..Len(ids) |-> t[ids[j]]]
        /\ \A j, k \in 1..Len(ids) : j < k => ids[j] < ids[k]
    BY <2>6
  <2> HIDE DEF u, ids, n
  <2>8. \A j \in 1..Len(ids) : ids[j] \in I /\ ids[j] \in 1..n  BY <2>7
  <2>9. CASE n + 1 \in I
    <3> DEFINE more == Append(ids, n + 1)
    <3>1. Ids(u) = more  BY <2>4, <2>9 DEF ids
    <3>2. more \in Seq(I \cap 1..(n + 1)) /\ Len(more) = Len(ids) + 1 /\ Len(ids) \in Nat
      BY <2>1, <2>7, <2>9
    <3>3. \A j \in 1..Len(ids) : more[j] = ids[j]  BY <2>7
    <3>4. more[Len(ids) + 1] = n + 1  BY <2>7
    <3> HIDE DEF more
    <3>5. \A j, k \in 1..Len(more) : j < k => more[j] < more[k]
      <4> TAKE j \in 1..Len(more), k \in 1..Len(more)
      <4> HAVE j < k
      <4>1. j \in 1..Len(ids) /\ more[j] = ids[j] /\ ids[j] \in 1..n
        BY <2>8, <3>2, <3>3
      <4>2. CASE k = Len(ids) + 1
        BY <2>1, <3>4, <4>1, <4>2
      <4>3. CASE k # Len(ids) + 1
        <5>1. k \in 1..Len(ids)
          <6>1. Len(more) = Len(ids) + 1 /\ Len(ids) \in Nat  BY <3>2
          <6> QED  BY <4>3, <6>1
        <5>2. more[k] = ids[k]  BY <3>3, <5>1
        <5> QED  BY <2>7, <4>1, <5>1, <5>2
      <4> QED  BY <4>2, <4>3
    <3>6. Append(Chosen(t, I), c) = [j \in 1..Len(more) |-> u[more[j]]]
      <4> DEFINE f == [j \in 1..Len(ids) |-> t[ids[j]]]
                 g == [j \in 1..Len(more) |-> u[more[j]]]
      <4>1. f \in Seq(C) /\ Len(f) = Len(ids)
        BY <2>1, <2>7, <2>8
      <4>2. \A j \in 1..Len(ids) : g[j] = f[j]
        BY <2>1, <2>8, <3>2, <3>3
      <4>3. g[Len(ids) + 1] = c  BY <2>1, <3>2, <3>4
      <4>4. DOMAIN g = 1..(Len(ids) + 1) /\ g = [j \in 1..Len(more) |-> g[j]]
        BY <3>2
      <4> HIDE DEF f, g
      <4>5. Append(f, c) = g
        <5>1. Append(f, c) \in Seq(C) /\ Len(Append(f, c)) = Len(more)
              /\ Append(f, c)[Len(ids) + 1] = c
              /\ \A j \in 1..Len(ids) : Append(f, c)[j] = f[j]
          BY <3>2, <4>1
        <5>2. \A j \in 1..Len(more) : j \in 1..Len(ids) \/ j = Len(ids) + 1  BY <3>2
        <5>3. \A j \in 1..Len(more) : Append(f, c)[j] = g[j]
          BY <4>2, <4>3, <5>1, <5>2
        <5>4. g = [j \in 1..Len(more) |-> Append(f, c)[j]]  BY <4>4, <5>3
        <5> DEFINE h == Append(f, c)
        <5>5. h \in Seq(C) /\ Len(h) = Len(more)  BY <5>1
        <5> HIDE DEF h
        <5>6. h = [j \in 1..Len(more) |-> h[j]]  BY <5>5
        <5> QED  BY <5>4, <5>6 DEF h
      <4> QED  BY <2>7, <4>5 DEF f, g
    <3>7. Chosen(u, I) = Append(Chosen(t, I), c)  BY <2>5, <2>9
    <3>8. Given(u)
      <4> SUFFICES /\ more \in Seq(I \cap 1..Len(u))
                   /\ Chosen(u, I) = [j \in 1..Len(more) |-> u[more[j]]]
                   /\ \A j, k \in 1..Len(more) : j < k => more[j] < more[k]
        BY <3>1
      <4> QED  BY <2>1, <3>2, <3>5, <3>6, <3>7
    <3> HIDE DEF Given
    <3> QED  BY <2>1, <3>8 DEF u
  <2>10. CASE n + 1 \notin I
    <3>1. Ids(u) = ids  BY <2>4, <2>10 DEF ids
    <3>2. ids \in Seq(I \cap 1..(n + 1))  BY <2>1, <2>7
    <3>3. [j \in 1..Len(ids) |-> t[ids[j]]] = [j \in 1..Len(ids) |-> u[ids[j]]]
      BY <2>1, <2>8
    <3>4. Chosen(u, I) = Chosen(t, I)  BY <2>5, <2>10
    <3>5. Given(u)
      <4> SUFFICES /\ ids \in Seq(I \cap 1..Len(u))
                   /\ Chosen(u, I) = [j \in 1..Len(ids) |-> u[ids[j]]]
                   /\ \A j, k \in 1..Len(ids) : j < k => ids[j] < ids[k]
        BY <3>1
      <4> QED  BY <2>1, <2>7, <3>2, <3>3, <3>4
    <3> HIDE DEF Given
    <3> QED  BY <2>1, <3>5 DEF u
  <2> QED  BY <2>9, <2>10
<1> HIDE DEF S
<1>3. Seq(C) \subseteq S  BY <1>1, <1>2, InductionOnSeq
<1> HIDE DEF Given
<1>4. Given(s)  BY <1>3 DEF S
<1> QED  BY <1>4 DEF Given

\* A selection of every element.
LEMMA ChosenAll ==
  ASSUME NEW C, NEW s \in Seq(C), NEW I, DOMAIN s \subseteq I
  PROVE  Chosen(s, I) = s
<1>1. [k \in DOMAIN s |-> IF k \in I THEN <<s[k]>> ELSE << >>] = [k \in DOMAIN s |-> <<s[k]>>]
  OBVIOUS
<1> QED  BY <1>1, FlattenSingles DEF Chosen
-----------------------------------------------------------------------------
(* The inductive invariant.                                                 *)

Features == [1..Inputs -> Word]
Reply == [first : {0, 1, 2, 255}, bytes : {1, 21, 27, 29}, cycles : Nat,
          ticks : [1..5 -> Nat], outs : [1..3 -> Word]]
Origin == [line : Nat, run : Nat, asked : Features, got : Seq(Reply)]
LogRow == {Header(e) : e \in {"linux", "windows"}} \cup {TimeoutRow(n) : n \in Nat}
            \cup {AnsweredRow(e, n, Latency(n), r) : e \in {"linux", "windows"}, n \in Nat, r \in Reply}

\* What a measurement is about, and the stimulus in the file.
SetUp ==
  /\ engine \in {"linux", "windows"} /\ core \in {"exact", "faulty"}
  /\ bytes \in {1, 21, 27, 29}
  /\ file \in Seq(Seq(Token))
  /\ made.by = "verify" =>
       made.rows \in Seq([1..NFeat -> Word]) /\ file = SaveTxt(made.rows)
  /\ made.by = "prepare" => made.raw \in RawFiles /\ made.rows = Prepared(made.raw)

Types ==
  /\ at \in 0..(Len(file) + 1) /\ runs \in Nat \ {0} /\ faults \in Nat
  /\ socket \in Seq(Reply) /\ origin \in Seq(Origin) /\ log \in Seq(LogRow)

\* A reply is an upload's acknowledgment or answers one of the first n requests.
AnswersUpTo(reply, n) ==
  reply = StaleAck \/ \E q \in 1..n : reply = ReplyTo(origin[q].asked, q)

\* The i-th data row and what it came from.
RowKept(i) ==
  LET o == origin[i] IN
  /\ o.line \in 1..Len(file) /\ file[o.line] # Blank
  /\ o.asked = EngineFeatures(engine, file[o.line])
  /\ \/ o.got = << >> /\ log[i + 1] = TimeoutRow(i)
     \/ /\ Len(o.got) = 1 /\ AnswersUpTo(o.got[1], i)
        /\ log[i + 1] = AnsweredRow(engine, i, Latency(i), o.got[1])

\* The log has its header once, and a row for every request.
LogKept ==
  /\ log # << >> => Len(log) = Len(origin) + 1 /\ log[1] = Header(engine)
  /\ log = << >> => origin = << >>
  /\ \A i \in 1..Len(origin) : RowKept(i)

SocketKept == \A k \in 1..Len(socket) : AnswersUpTo(socket[k], Len(origin))

\* One run over a file without an empty line has its rows at their lines.
InStep ==
  (runs = 1 /\ \A l \in DOMAIN file : file[l] # Blank) =>
    /\ \A i \in 1..Len(origin) : origin[i].line = i
    /\ at # 0 => at = Len(origin) + 1

BenchInv == SetUp /\ Types /\ LogKept /\ SocketKept /\ InStep

-----------------------------------------------------------------------------
(* Words and sums.                                                          *)

\* The conversions of the engines give words.
LEMMA WordsOfFloats ==
  /\ \A v \in Int : Saturate(v) \in Word /\ Low(v, Top) \in Word
  /\ \A v \in Word : Saturate(v) = v
  /\ 0 \in Word /\ Word \subseteq Int
  /\ \A v \in Int : Truncate(v) \in Int /\ Round(v) \in Int
  /\ \A f \in Float : HostWord(f) \in Word /\ LegacyWord(f) \in Word
<1> USE WidthAssumption
<1>1. Top \in Nat /\ Grain \in Nat \ {0} /\ LongTop \in Nat /\ IntTop \in Nat  OBVIOUS
<1>2. \A v \in Int : Saturate(v) \in Word  BY <1>1 DEF Saturate, Word, Bottom
<1>3. \A v \in Int : Low(v, Top) \in Word
  <2> TAKE v \in Int
  <2>1. (v + Top + 1) % (2 * (Top + 1)) \in 0..(2 * (Top + 1) - 1)  BY <1>1
  <2> QED  BY <1>1, <2>1 DEF Low, Word, Bottom
<1>4. \A v \in Word : Saturate(v) = v  BY <1>1 DEF Saturate, Word, Bottom
<1>5. 0 \in Word /\ Word \subseteq Int  BY <1>1 DEF Word, Bottom
<1>6. \A v \in Int : v \div Grain \in Int /\ v % Grain \in Int  BY <1>1
<1>7. \A v \in Int : Truncate(v) \in Int /\ Round(v) \in Int
  <2> TAKE v \in Int
  <2>1. -v \in Int  OBVIOUS
  <2>2. Truncate(v) \in Int  BY <1>6, <2>1 DEF Truncate
  <2>3. Round(v) \in Int  BY <1>6 DEF Round
  <2> QED  BY <2>2, <2>3
<1>8. \A v \in Int : Lrint(v) \in Int
  BY <1>1, <1>7 DEF Lrint
<1>9. \A f \in Float : HostWord(f) \in Word /\ LegacyWord(f) \in Word
  <2> TAKE f \in Float
  <2>1. f.pieces \in Int  BY DEF Float
  <2>2. HostWord(f) \in Word  BY <1>2, <1>5, <1>8, <2>1 DEF HostWord
  <2>3. LegacyWord(f) \in Word  BY <1>3, <1>5, <1>7, <2>1 DEF LegacyWord
  <2> QED  BY <2>2, <2>3
<1> QED  BY <1>2, <1>3, <1>4, <1>5, <1>7, <1>9

\* Sixty-four features are words, whatever a line holds.
LEMMA FeaturesOfLine ==
  ASSUME NEW line \in Seq(Token), engine \in {"linux", "windows"}
  PROVE  EngineFeatures(engine, line) \in Features
<1> DEFINE cxx == [k \in DOMAIN line |-> line[k].cxx]
           floats == FlattenSeq(cxx)
<1>1. cxx \in Seq(Seq(Float))
  <2> DEFINE L == Seq(Float)
  <2>1. DOMAIN line = 1..Len(line) /\ Len(line) \in Nat /\ \A k \in 1..Len(line) : line[k].cxx \in L
    <3>1. \A t \in Token : t.cxx \in Seq(Float)  BY DEF Token
    <3>2. DOMAIN line = 1..Len(line) /\ Len(line) \in Nat /\ \A k \in 1..Len(line) : line[k] \in Token
      OBVIOUS
    <3> QED  BY <3>1, <3>2
  <2> HIDE DEF L
  <2>2. cxx \in Seq(L)  BY <2>1
  <2> QED  BY <2>2 DEF L
<1> HIDE DEF cxx
<1>2. floats \in Seq(Float)  BY <1>1, FlattenJoin
<1> HIDE DEF floats
<1>3. ASSUME NEW s \in Seq(Word) PROVE Fit(s) \in Features
  <2>1. \A k \in 1..Len(s) : s[k] \in Word  OBVIOUS
  <2>2. Inputs \in Nat /\ Len(s) \in Nat /\ 0 \in Word  BY StreamAssumption, WordsOfFloats
  <2> DEFINE W == Word
  <2> HIDE DEF W
  <2>3. \A k \in 1..Inputs : (IF k <= Len(s) THEN s[k] ELSE 0) \in W  BY <2>1, <2>2 DEF W
  <2>4. Fit(s) \in [1..Inputs -> W]  BY <2>3 DEF Fit
  <2> QED  BY <2>4 DEF Features, W
<1>4. DOMAIN floats = 1..Len(floats) /\ Len(floats) \in Nat
      /\ \A k \in 1..Len(floats) : floats[k] \in Float
  BY <1>2
<1>5. [k \in DOMAIN floats |-> HostWord(floats[k])] \in Seq(Word)
  BY <1>4, WordsOfFloats
<1>6. [k \in DOMAIN floats |-> LegacyWord(floats[k])] \in Seq(Word)
  BY <1>4, WordsOfFloats
<1> QED  BY <1>3, <1>5, <1>6 DEF EngineFeatures, HostWords, LegacyWords, floats, cxx

\* The sums of the first numbers of a sequence exist as a function.
LEMMA RunningSums ==
  ASSUME NEW n \in Nat, NEW c, \A k \in 1..n : c[k] \in Int
  PROVE  \E f \in [0..n -> Int] :
           /\ f[0] = 0
           /\ \A k \in 1..n : f[k] = f[k - 1] + c[k]
<1> DEFINE Sums(f, m) == /\ f \in [0..m -> Int] /\ f[0] = 0
                         /\ \A k \in 1..m : f[k] = f[k - 1] + c[k]
           S == {m \in Nat : m <= n => \E f : Sums(f, m)}
<1>1. 0 \in S
  <2>1. Sums([k \in 0..0 |-> 0], 0)  OBVIOUS
  <2> QED  BY <2>1
<1>2. ASSUME NEW m \in Nat, m \in S PROVE m + 1 \in S
  <2> SUFFICES ASSUME m + 1 <= n PROVE \E f : Sums(f, m + 1)
    OBVIOUS
  <2>1. PICK f : Sums(f, m)  BY <1>2
  <2> DEFINE h == [k \in 0..(m + 1) |-> IF k <= m THEN f[k] ELSE f[m] + c[m + 1]]
  <2>2. f[m] \in Int /\ c[m + 1] \in Int  BY <2>1
  <2>3. h \in [0..(m + 1) -> Int] /\ h[0] = 0  BY <2>1, <2>2
  <2>4. ASSUME NEW k \in 1..(m + 1) PROVE h[k] = h[k - 1] + c[k]
    <3>1. CASE k = m + 1
      <4>1. h[m + 1] = f[m] + c[m + 1] /\ h[m] = f[m] /\ k - 1 = m  BY <3>1
      <4> QED  BY <3>1, <4>1
    <3>2. CASE k # m + 1
      <4>1. k \in 1..m /\ k \in 0..(m + 1) /\ k - 1 \in 0..(m + 1) /\ k <= m /\ k - 1 <= m  BY <3>2
      <4>2. h[k] = f[k] /\ h[k - 1] = f[k - 1]  BY <4>1
      <4> QED  BY <2>1, <4>1, <4>2
    <3> QED  BY <3>1, <3>2
  <2> HIDE DEF h
  <2>5. Sums(h, m + 1)  BY <2>3, <2>4
  <2> HIDE DEF Sums
  <2> QED  BY <2>5
<1>3. n \in S
  <2> HIDE DEF S
  <2>1. Nat \subseteq S  BY <1>1, <1>2, InductionOnNat
  <2> QED  BY <2>1
<1>4. PICK f : Sums(f, n)  BY <1>3
<1> QED  BY <1>4

Square == (Top + 1) * (Top + 1)

\* A product of two words.
LEMMA ProductBounds ==
  ASSUME NEW a \in Word, NEW b \in Word
  PROVE  a * b \in Int /\ -Square <= a * b /\ a * b <= Square
<1>1. Top \in Nat  BY WidthAssumption
<1>2. a \in Int /\ b \in Int /\ -(Top + 1) <= a /\ a <= Top + 1 /\ -(Top + 1) <= b /\ b <= Top + 1
  BY <1>1 DEF Word, Bottom
<1> DEFINE t == Top + 1
<1>3. t \in Nat /\ -t <= a /\ a <= t /\ -t <= b /\ b <= t  BY <1>1, <1>2
<1> HIDE DEF t
<1>4. (t - a) * (t + b) >= 0 /\ (t + a) * (t - b) >= 0
  BY <1>2, <1>3
<1>5. (t - a) * (t - b) >= 0 /\ (t + a) * (t + b) >= 0
  BY <1>2, <1>3
<1>6. (t - a) * (t + b) + (t + a) * (t - b) = 2 * (t * t) - 2 * (a * b)
  BY <1>2, <1>3
<1>7. (t - a) * (t - b) + (t + a) * (t + b) = 2 * (t * t) + 2 * (a * b)
  BY <1>2, <1>3
<1>8. a * b \in Int /\ t * t \in Int  BY <1>2, <1>3
<1>9. -(t * t) <= a * b /\ a * b <= t * t
  <2> DEFINE p == a * b
             q == t * t
             u == (t - a) * (t + b)
             v == (t + a) * (t - b)
             w == (t - a) * (t - b)
             z == (t + a) * (t + b)
  <2>1. p \in Int /\ q \in Int /\ u \in Int /\ v \in Int /\ w \in Int /\ z \in Int
    BY <1>2, <1>3
  <2>2. u >= 0 /\ v >= 0 /\ w >= 0 /\ z >= 0 /\ u + v = 2 * q - 2 * p /\ w + z = 2 * q + 2 * p
    BY <1>4, <1>5, <1>6, <1>7
  <2> HIDE DEF p, q, u, v, w, z
  <2>3. -q <= p /\ p <= q  BY <2>1, <2>2
  <2> QED  BY <2>3 DEF p, q
<1> QED  BY <1>8, <1>9 DEF Square, t

\* A sum of n products of words.
LEMMA DotBounds ==
  ASSUME NEW n \in Nat, NEW neuron \in Seq(Word), Len(neuron) = n + 1,
         NEW x, \A k \in 1..n : x[k] \in Word
  PROVE  /\ Dot(neuron, x) \in Int
         /\ -(n * Square) <= Dot(neuron, x) /\ Dot(neuron, x) <= n * Square
<1> DEFINE c == [k \in 1..n |-> neuron[k] * x[k]]
<1>1. \A k \in 1..n : neuron[k] \in Word /\ x[k] \in Word  OBVIOUS
<1>2. \A k \in 1..n : c[k] = neuron[k] * x[k]  OBVIOUS
<1>3. \A k \in 1..n : c[k] \in Int /\ -Square <= c[k] /\ c[k] <= Square
  <2> TAKE k \in 1..n
  <2>1. neuron[k] \in Word /\ x[k] \in Word  BY <1>1
  <2> HIDE DEF c
  <2> QED  BY <1>2, <2>1, ProductBounds
<1> HIDE DEF c
<1>4. PICK f \in [0..n -> Int] : f[0] = 0 /\ \A k \in 1..n : f[k] = f[k - 1] + c[k]
  BY <1>3, RunningSums
<1> DEFINE Sum(g) == g = [k \in 0..n |-> IF k = 0 THEN 0 ELSE g[k - 1] + neuron[k] * x[k]]
           sum == CHOOSE g : Sum(g)
<1>5. Sum(f)
  <2>1. \A k \in 0..n : f[k] = IF k = 0 THEN 0 ELSE f[k - 1] + neuron[k] * x[k]
    <3> TAKE k \in 0..n
    <3>1. CASE k = 0  BY <1>4, <3>1
    <3>2. CASE k # 0
      <4>1. k \in 1..n  BY <3>2
      <4> QED  BY <1>2, <1>4, <3>2, <4>1
    <3> QED  BY <3>1, <3>2
  <2>2. f = [k \in 0..n |-> f[k]]  OBVIOUS
  <2> QED  BY <2>1, <2>2
<1>6. Sum(sum)
  <2> HIDE DEF Sum
  <2> QED  BY <1>5
<1>7. Dot(neuron, x) = sum[n]
  <2>1. Len(neuron) - 1 = n  OBVIOUS
  <2> QED  BY <2>1 DEF Dot
<1> HIDE DEF sum
<1>8. sum[0] = 0  BY <1>6
<1>9. ASSUME NEW k \in 1..n PROVE sum[k] = sum[k - 1] + c[k]
  <2>1. k \in 0..n /\ k # 0  OBVIOUS
  <2> QED  BY <1>2, <1>6, <2>1
<1>10. Square \in Int
  BY WidthAssumption DEF Square
<1> HIDE DEF Sum
<1> DEFINE S == {m \in Nat : m <= n =>
                   sum[m] \in Int /\ -(m * Square) <= sum[m] /\ sum[m] <= m * Square}
<1>11. 0 \in S
  <2>1. 0 * Square = 0  BY <1>10
  <2> QED  BY <1>8, <2>1
<1>12. ASSUME NEW m \in Nat, m \in S PROVE m + 1 \in S
  <2> SUFFICES ASSUME m + 1 <= n
               PROVE  /\ sum[m + 1] \in Int
                      /\ -((m + 1) * Square) <= sum[m + 1] /\ sum[m + 1] <= (m + 1) * Square
    OBVIOUS
  <2>1. m + 1 \in 1..n /\ (m + 1) - 1 = m  OBVIOUS
  <2>2. sum[m + 1] = sum[m] + c[m + 1]  BY <1>9, <2>1
  <2>3. c[m + 1] \in Int /\ -Square <= c[m + 1] /\ c[m + 1] <= Square  BY <1>3, <2>1
  <2> DEFINE p == m * Square
  <2>4. (m + 1) * Square = p + Square /\ p \in Int  BY <1>10
  <2>5. sum[m] \in Int /\ -p <= sum[m] /\ sum[m] <= p  BY <1>12
  <2> DEFINE q == (m + 1) * Square
  <2>6. q = p + Square  BY <2>4
  <2> HIDE DEF p, q
  <2>7. sum[m + 1] \in Int /\ -q <= sum[m + 1] /\ sum[m + 1] <= q
    <3>1. p \in Int  BY <2>4
    <3>2. q \in Int  BY <1>10, <2>6, <3>1
    <3> DEFINE new == sum[m + 1]
               old == sum[m]
               step == c[m + 1]
    <3>3. new = old + step /\ old \in Int /\ step \in Int /\ -p <= old /\ old <= p
          /\ -Square <= step /\ step <= Square
      BY <2>2, <2>3, <2>5
    <3> HIDE DEF new, old, step
    <3>4. new \in Int /\ -q <= new /\ new <= q  BY <1>10, <2>6, <3>1, <3>2, <3>3
    <3> QED  BY <3>4 DEF new
  <2> QED  BY <2>7 DEF q
<1> HIDE DEF S
<1>13. Nat \subseteq S  BY <1>11, <1>12, InductionOnNat
<1>14. n \in S  BY <1>13
<1> QED  BY <1>7, <1>14 DEF S

-----------------------------------------------------------------------------
(* The core and its emulation.                                              *)

\* The low bits of a number that fits are the number.
LEMMA LowKeeps ==
  ASSUME NEW top \in Nat, NEW v \in (-top - 1)..top
  PROVE  Low(v, top) = v
<1> DEFINE n == 2 * (top + 1)
           x == v + top + 1
<1>1. n \in Nat \ {0} /\ x \in 0..(n - 1)  OBVIOUS
<1>2. Low(v, top) = (x % n) - (top + 1)  BY DEF Low
<1>3. x = v + top + 1  OBVIOUS
<1> HIDE DEF n, x
<1>4. x % n = x  BY <1>1
<1> QED  BY <1>2, <1>3, <1>4, <1>1

\* What the emulation computes of a neuron.
Emulated(neuron, x) == Saturate(Shift(Dot(neuron, x) + BiasOf(neuron) * Scale))

\* The accumulator holds the sum of a neuron, and the core computes what the
\* verifier does (verify_bitexact.py:116-126).
LEMMA NeuronIsEmulated ==
  ASSUME NEW layer, NEW inputs \in Nat, Neurons(layer, inputs), NEW k \in DOMAIN layer,
         NEW x, \A j \in 1..inputs : x[j] \in Word
  PROVE  /\ CoreNeuron("exact", layer[k], x) = Emulated(layer[k], x)
         /\ \A kind : CoreNeuron(kind, layer[k], x) \in Word
         /\ Emulated(layer[k], x) \in Word
         /\ SumOf(layer[k], x) \in Int
         /\ \A kind : CoreNeuron(kind, layer[k], x)
              = IF kind = "faulty" THEN Low(SumOf(layer[k], x), Top) ELSE Saturate(SumOf(layer[k], x))
<1> DEFINE neuron == layer[k]
           sum == Dot(neuron, x) + BiasOf(neuron) * Scale
<1>1. neuron \in Seq(Word) /\ Len(neuron) = inputs + 1
      /\ inputs * Square + (Top + 1) * Scale <= AccTop
  <2>1. layer \in Seq(Seq(Word)) /\ Len(layer[k]) = inputs + 1
        /\ inputs * ((Top + 1) * (Top + 1)) + (Top + 1) * Scale <= AccTop
    BY DEF Neurons
  <2> DEFINE L == Seq(Word)
  <2>2. layer \in Seq(L)  BY <2>1
  <2> HIDE DEF L
  <2>3. layer[k] \in L  BY <2>2
  <2> QED  BY <2>1, <2>3 DEF L, Square
<1>2. BiasOf(neuron) \in Word
  <2> HIDE DEF neuron
  <2>1. Len(neuron) \in 1..Len(neuron)  BY <1>1
  <2> QED  BY <1>1, <2>1 DEF BiasOf
<1>3. Dot(neuron, x) \in Int /\ -(inputs * Square) <= Dot(neuron, x)
      /\ Dot(neuron, x) <= inputs * Square
  <2> HIDE DEF neuron
  <2> QED  BY <1>1, DotBounds
<1>4. Top \in Nat /\ Scale \in Nat \ {0} /\ AccTop \in Nat
  BY WidthAssumption, BenchAssumption
<1> HIDE DEF neuron
<1>5. BiasOf(neuron) * Scale \in Int /\ -((Top + 1) * Scale) <= BiasOf(neuron) * Scale
      /\ BiasOf(neuron) * Scale <= (Top + 1) * Scale
  <2> DEFINE b == BiasOf(neuron)
             t == Top + 1
  <2>1. b \in Int /\ -t <= b /\ b <= t /\ t \in Nat  BY <1>2, <1>4 DEF Word, Bottom
  <2> HIDE DEF b, t
  <2>2. b * Scale \in Int /\ (t + b) * Scale >= 0 /\ (t - b) * Scale >= 0  BY <1>4, <2>1
  <2>3. (t + b) * Scale = t * Scale + b * Scale /\ (t - b) * Scale = t * Scale - b * Scale
    BY <1>4, <2>1
  <2>4. -(t * Scale) <= b * Scale /\ b * Scale <= t * Scale
    <3> DEFINE u == b * Scale
               v == t * Scale
               y == (t + b) * Scale
               z == (t - b) * Scale
    <3>1. u \in Int /\ v \in Int /\ y >= 0 /\ z >= 0 /\ y = v + u /\ z = v - u
      BY <1>4, <2>1, <2>2, <2>3
    <3> HIDE DEF u, v, y, z
    <3>2. -v <= u /\ u <= v  BY <3>1
    <3> QED  BY <3>2 DEF u, v
  <2> QED  BY <2>2, <2>4 DEF b, t
<1>6. sum \in (-AccTop - 1)..AccTop
  <2> DEFINE d == Dot(neuron, x)
             b == BiasOf(neuron) * Scale
             p == inputs * Square
             q == (Top + 1) * Scale
  <2>1. p \in Int /\ q \in Int
    <3>1. Square \in Int  BY <1>4 DEF Square
    <3> QED  BY <1>4, <3>1
  <2>2. d \in Int /\ -p <= d /\ d <= p /\ b \in Int /\ -q <= b /\ b <= q /\ p + q <= AccTop
    BY <1>1, <1>3, <1>5
  <2> HIDE DEF d, b, p, q
  <2>3. d + b \in (-AccTop - 1)..AccTop  BY <1>4, <2>1, <2>2
  <2> QED  BY <2>3 DEF d, b
<1> HIDE DEF sum
<1>7. Low(sum, AccTop) = sum  BY <1>4, <1>6, LowKeeps
<1>8. Shift(sum) \in Int
  <2>1. sum \in Int  BY <1>4, <1>6
  <2> QED  BY <1>4, <2>1 DEF Shift
<1>9. Saturate(Shift(sum)) \in Word /\ Low(Shift(sum), Top) \in Word
  BY <1>8, WordsOfFloats
<1>10. ASSUME NEW kind
       PROVE  CoreNeuron(kind, neuron, x)
                = IF kind = "faulty" THEN Low(Shift(sum), Top) ELSE Saturate(Shift(sum))
  BY <1>7 DEF CoreNeuron, sum
<1>11. Emulated(neuron, x) = Saturate(Shift(sum))  BY DEF Emulated, sum
<1>12. SumOf(neuron, x) = Shift(sum)  BY DEF SumOf, sum
<1> QED  BY <1>8, <1>9, <1>10, <1>11, <1>12 DEF neuron

\* The core computes words, and an exact one what the verifier computes, for every
\* network that fits the accumulator (verify_bitexact.py:116-126).
LEMMA CoreIsEmulated ==
  ASSUME NEW x \in Features
  PROVE  /\ \A kind : CoreScores(kind, x) \in [1..3 -> Word]
         /\ CoreScores("exact", x) = ForwardQ88(x)
<1> DEFINE H(kind) == [k \in DOMAIN Hidden |-> Relu(CoreNeuron(kind, Hidden[k], x))]
           E == [k \in DOMAIN Hidden |-> Relu(Emulated(Hidden[k], x))]
           n == Len(Hidden)
<1>1. /\ Neurons(Hidden, Inputs) /\ Neurons(Output, n) /\ Inputs \in Nat /\ n \in Nat
      /\ DOMAIN Hidden = 1..n /\ DOMAIN Output = 1..3
  <2>1. Neurons(Hidden, Inputs) /\ Neurons(Output, Len(Hidden)) /\ Len(Output) = 3
    BY NetworkAssumption
  <2>2. Hidden \in Seq(Seq(Word)) /\ Output \in Seq(Seq(Word))  BY <2>1 DEF Neurons
  <2> QED  BY <2>1, <2>2, StreamAssumption
<1>2. \A w \in Word : Relu(w) \in Word
  BY WordsOfFloats DEF Relu
<1>3. \A j \in 1..Inputs : x[j] \in Word  BY DEF Features
<1>4. ASSUME NEW kind PROVE \A j \in 1..n : H(kind)[j] \in Word
  BY <1>1, <1>2, <1>3, NeuronIsEmulated
<1>5. H("exact") = E
  BY <1>1, <1>3, NeuronIsEmulated
<1>6. ASSUME NEW kind
      PROVE  CoreScores(kind, x) = [k \in DOMAIN Output |-> CoreNeuron(kind, Output[k], H(kind))]
  BY DEF CoreScores
<1>7. ForwardQ88(x) = [k \in DOMAIN Output |-> Emulated(Output[k], E)]
  BY DEF ForwardQ88, Emulated
<1> HIDE DEF H, E, n
<1>8. ASSUME NEW kind PROVE CoreScores(kind, x) \in [1..3 -> Word]
  <2>1. \A k \in 1..3 : CoreNeuron(kind, Output[k], H(kind)) \in Word
    BY <1>1, <1>4, NeuronIsEmulated
  <2> QED  BY <1>1, <1>6, <2>1
<1>9. CoreScores("exact", x) = ForwardQ88(x)
  <2>1. \A k \in DOMAIN Output : CoreNeuron("exact", Output[k], E) = Emulated(Output[k], E)
    BY <1>1, <1>4, <1>5, NeuronIsEmulated
  <2> QED  BY <1>5, <1>6, <1>7, <2>1
<1> QED  BY <1>8, <1>9

\* What the firmware sends has its type.
LEMMA ReplyTyped ==
  ASSUME bytes \in {1, 21, 27, 29}
  PROVE  /\ StaleAck \in Reply
         /\ \A x \in Features, q \in Nat : ReplyTo(x, q) \in Reply
<1>1. 0 \in Word /\ CoreCycles \in Nat  BY WordsOfFloats, BenchAssumption
<1>2. StaleAck \in Reply
  <2>1. <<0, 0, 0, 0, 0>> \in [1..5 -> Nat] /\ <<0, 0, 0>> \in [1..3 -> Word]  BY <1>1
  <2> QED  BY <2>1 DEF StaleAck, Reply
<1>3. ASSUME NEW x \in Features, NEW q \in Nat PROVE ReplyTo(x, q) \in Reply
  <2> DEFINE outs == CoreScores(core, x)
             ticks == [k \in 1..5 |-> 5 * q + k]
  <2>1. outs \in [1..3 -> Word]  BY CoreIsEmulated
  <2>2. ticks \in [1..5 -> Nat]  OBVIOUS
  <2>3. Decision(outs) \in {0, 1, 2, 255}  BY DEF Decision
  <2>4. ReplyTo(x, q) = [first |-> Decision(outs), bytes |-> bytes, cycles |-> CoreCycles,
                         ticks |-> ticks, outs |-> outs]
    BY DEF ReplyTo
  <2> HIDE DEF outs, ticks
  <2> QED  BY <1>1, <2>1, <2>2, <2>3, <2>4 DEF Reply
<1> QED  BY <1>2, <1>3

-----------------------------------------------------------------------------
(* The cells of a log.                                                      *)

\* A number is told from a text, and a text from another.
LEMMA CellsDiffer ==
  /\ \A v \in Int : IsNum(Num(v)) /\ Val(Num(v)) = v
  /\ \A s : ~IsNum(Text(s)) /\ Text(s).text = s
  /\ ~IsNum(Missing) /\ ~IsNum(TimeoutText)
  /\ \A v \in Int : /\ Num(v) # Missing /\ Num(v) # TimeoutText
                    /\ \A s : Num(v) # Text(s)
<1>1. ASSUME NEW v \in Int PROVE IsNum(Num(v)) /\ Val(Num(v)) = v
  <2>1. <<v>> # << >> /\ <<v>>[1] = v  OBVIOUS
  <2> QED  BY <2>1 DEF Num, IsNum, Val
<1>2. \A s : ~IsNum(Text(s)) /\ Text(s).text = s  BY DEF Text, IsNum
<1>3. ~IsNum(Missing) /\ ~IsNum(TimeoutText)  BY <1>2 DEF Missing, TimeoutText
<1> QED  BY <1>1, <1>2, <1>3

\* The columns of a row that shows a reply (hft_engine_linux.cpp:190-220).
LEMMA RowOfReply ==
  ASSUME NEW e, NEW n \in Nat, NEW r \in Reply
  PROVE  LET row == AnsweredRow(e, n, Latency(n), r) IN
         /\ row[1] = Num(n) /\ row[2] = Num(Latency(n)) /\ row[3] = Text(ResultName(r))
         /\ e = "windows" => Len(row) = 3
         /\ e # "windows" =>
              /\ Len(row) = 12
              /\ \A k \in 1..5 : row[3 + k] = IF r.bytes >= 21 THEN Num(r.ticks[k]) ELSE Missing
              /\ \A k \in 1..3 : row[8 + k] = IF r.bytes >= 27 THEN Num(r.outs[k]) ELSE Missing
              /\ row[12] = IF r.bytes >= 29 THEN Num(r.cycles) ELSE Missing
<1> DEFINE row == AnsweredRow(e, n, Latency(n), r)
           a == <<Num(n), Num(Latency(n)), Text(ResultName(r))>>
           b == Cells(r.bytes >= 21, r.ticks)
           c == Cells(r.bytes >= 27, r.outs)
           d == Cells(r.bytes >= 29, <<r.cycles>>)
<1>1. r.ticks \in [1..5 -> Nat] /\ r.outs \in [1..3 -> Word] /\ r.cycles \in Nat
  BY DEF Reply
<1>3. /\ Len(a) = 3 /\ a \o << >> = a
      /\ a[1] = Num(n) /\ a[2] = Num(Latency(n)) /\ a[3] = Text(ResultName(r))
  <2>1. a \in Seq({Num(n), Num(Latency(n)), Text(ResultName(r))})  OBVIOUS
  <2> QED  BY <2>1
<1>4. /\ Len(b) = 5
      /\ \A k \in 1..5 : b[k] = IF r.bytes >= 21 THEN Num(r.ticks[k]) ELSE Missing
  <2>1. b = [k \in 1..5 |-> IF r.bytes >= 21 THEN Num(r.ticks[k]) ELSE Missing]
    BY <1>1 DEF Cells
  <2> HIDE DEF b
  <2> QED  BY <2>1
<1>5. /\ Len(c) = 3
      /\ \A k \in 1..3 : c[k] = IF r.bytes >= 27 THEN Num(r.outs[k]) ELSE Missing
  <2>1. c = [k \in 1..3 |-> IF r.bytes >= 27 THEN Num(r.outs[k]) ELSE Missing]
    BY <1>1 DEF Cells
  <2> HIDE DEF c
  <2> QED  BY <2>1
<1>6. /\ Len(d) = 1
      /\ d[1] = IF r.bytes >= 29 THEN Num(r.cycles) ELSE Missing
  <2>1. d = [k \in 1..1 |-> IF r.bytes >= 29 THEN Num(<<r.cycles>>[k]) ELSE Missing]
    BY DEF Cells
  <2>2. <<r.cycles>>[1] = r.cycles  OBVIOUS
  <2> HIDE DEF d
  <2>3. \A k \in 1..1 : k = 1  OBVIOUS
  <2> QED  BY <2>1, <2>2, <2>3
<1>7. row = IF e = "windows" THEN a \o << >> ELSE a \o ((b \o c) \o d)
  BY DEF AnsweredRow
<1> HIDE DEF row, a, b, c, d
<1>8. CASE e = "windows"
  <2>1. row = a  BY <1>3, <1>7, <1>8
  <2> QED  BY <1>3, <1>8, <2>1 DEF row
<1>9. CASE e # "windows"
  <2> DEFINE bc == b \o c
             bcd == bc \o d
  <2>1. Len(bc) = 8 /\ (\A k \in 1..5 : bc[k] = b[k]) /\ \A k \in 1..3 : bc[5 + k] = c[k]
    <3>1. Len(b) \in Nat /\ Len(c) \in Nat  BY <1>4, <1>5
    <3>2. /\ Len(b \o c) = Len(b) + Len(c)
          /\ \A m \in 1..Len(b) : (b \o c)[m] = b[m]
          /\ \A m \in 1..Len(c) : (b \o c)[Len(b) + m] = c[m]
      BY <3>1, JoinedParts
    <3> QED  BY <1>4, <1>5, <3>2
  <2> HIDE DEF bc
  <2>2. Len(bcd) = 9 /\ (\A k \in 1..8 : bcd[k] = bc[k]) /\ bcd[9] = d[1]
    <3>1. Len(bcd) = 9 /\ (\A k \in 1..8 : bcd[k] = bc[k])
          /\ \A k \in 1..1 : bcd[8 + k] = d[k]
      <4>1. Len(bc) \in Nat /\ Len(d) \in Nat  BY <1>6, <2>1
      <4>2. /\ Len(bc \o d) = Len(bc) + Len(d)
            /\ \A m \in 1..Len(bc) : (bc \o d)[m] = bc[m]
            /\ \A m \in 1..Len(d) : (bc \o d)[Len(bc) + m] = d[m]
        BY <4>1, JoinedParts
      <4> QED  BY <1>6, <2>1, <4>2
    <3>2. bcd[8 + 1] = d[1]  BY <3>1
    <3> QED  BY <3>1, <3>2
  <2> HIDE DEF bcd
  <2>3. row = a \o bcd  BY <1>7, <1>9 DEF bc, bcd
  <2>4. Len(row) = 12 /\ (\A k \in 1..3 : row[k] = a[k]) /\ \A k \in 1..9 : row[3 + k] = bcd[k]
    <3>1. Len(a) \in Nat /\ Len(bcd) \in Nat  BY <1>3, <2>2
    <3>2. /\ Len(a \o bcd) = Len(a) + Len(bcd)
          /\ \A m \in 1..Len(a) : (a \o bcd)[m] = a[m]
          /\ \A m \in 1..Len(bcd) : (a \o bcd)[Len(a) + m] = bcd[m]
      BY <3>1, JoinedParts
    <3>3. Len(a) = 3 /\ Len(bcd) = 9  BY <1>3, <2>2
    <3> QED  BY <2>3, <3>2, <3>3
  <2>5. \A k \in 1..5 : row[3 + k] = b[k]  BY <2>1, <2>2, <2>4
  <2>6. \A k \in 1..3 : row[8 + k] = c[k]
    <3> TAKE k \in 1..3
    <3>1. 5 + k \in 1..8 /\ 5 + k \in 1..9 /\ 3 + (5 + k) = 8 + k  OBVIOUS
    <3>2. row[3 + (5 + k)] = bcd[5 + k] /\ bcd[5 + k] = bc[5 + k] /\ bc[5 + k] = c[k]
      BY <2>1, <2>2, <2>4, <3>1
    <3> QED  BY <3>1, <3>2
  <2>7. row[12] = d[1]
    <3>1. row[3 + 9] = bcd[9]  BY <2>4
    <3> QED  BY <2>2, <3>1
  <2>8. row[1] = Num(n) /\ row[2] = Num(Latency(n)) /\ row[3] = Text(ResultName(r))
    BY <1>3, <2>4
  <2> QED  BY <1>4, <1>5, <1>6, <1>9, <2>4, <2>5, <2>6, <2>7, <2>8 DEF row
<1> QED  BY <1>8, <1>9

\* The columns of a header (hft_engine_linux.cpp:103-109).
LEMMA HeaderColumns ==
  ASSUME NEW e
  PROVE  /\ Header(e)[1] = Text("Timestamp_us") /\ Header(e)[2] = Text("Latency_us")
         /\ Header(e)[3] = Text("Result")
         /\ e = "windows" => Len(Header(e)) = 3
         /\ e # "windows" =>
              /\ Len(Header(e)) = 12
              /\ Header(e)[9] = Text("out0") /\ Header(e)[12] = Text("cycles")
              /\ \A k \in 4..11 : Header(e)[k] # Text("cycles")
<1> DEFINE a == <<Text("Timestamp_us"), Text("Latency_us"), Text("Result")>>
           b == <<Text("recv_ticks"), Text("parse_ticks"), Text("dma_ticks"), Text("pl_ticks"),
                  Text("read_ticks"), Text("out0"), Text("out1"), Text("out2"), Text("cycles")>>
<1>2. /\ Len(a) = 3 /\ a \o << >> = a /\ a[1] = Text("Timestamp_us")
      /\ a[2] = Text("Latency_us") /\ a[3] = Text("Result")
  <2>1. a \in Seq({Text("Timestamp_us"), Text("Latency_us"), Text("Result")})  OBVIOUS
  <2> QED  BY <2>1
<1>4. Len(b) = 9 /\ b[6] = Text("out0") /\ b[9] = Text("cycles")  OBVIOUS
<1>5. \A k \in 1..8 : b[k] # Text("cycles")
  <2>1. /\ b[1] = Text("recv_ticks") /\ b[2] = Text("parse_ticks") /\ b[3] = Text("dma_ticks")
        /\ b[4] = Text("pl_ticks") /\ b[5] = Text("read_ticks") /\ b[6] = Text("out0")
        /\ b[7] = Text("out1") /\ b[8] = Text("out2")
    OBVIOUS
  <2>2. \A k \in 1..8 : k = 1 \/ k = 2 \/ k = 3 \/ k = 4 \/ k = 5 \/ k = 6 \/ k = 7 \/ k = 8
    OBVIOUS
  <2>3. \A k \in 1..8 : b[k].text # "cycles"
    <3> HIDE DEF b
    <3> QED  BY <2>1, <2>2 DEF Text
  <2>4. Text("cycles").text = "cycles"  BY DEF Text
  <2> HIDE DEF b
  <2> QED  BY <2>3, <2>4
<1>6. Header(e) = IF e = "windows" THEN a \o << >> ELSE a \o b  BY DEF Header
<1> HIDE DEF a, b
<1>7. CASE e = "windows"
  <2>1. Header(e) = a  BY <1>2, <1>6, <1>7
  <2> QED  BY <1>2, <1>7, <2>1
<1>8. CASE e # "windows"
  <2> DEFINE h == Header(e)
  <2>1. h = a \o b  BY <1>6, <1>8
  <2> HIDE DEF h
  <2>2. Len(h) = 12 /\ (\A k \in 1..3 : h[k] = a[k]) /\ \A k \in 1..9 : h[3 + k] = b[k]
    <3>1. Len(a) \in Nat /\ Len(b) \in Nat  BY <1>2, <1>4
    <3>2. /\ Len(a \o b) = Len(a) + Len(b)
          /\ \A m \in 1..Len(a) : (a \o b)[m] = a[m]
          /\ \A m \in 1..Len(b) : (a \o b)[Len(a) + m] = b[m]
      BY <3>1, JoinedParts
    <3>3. Len(a) = 3 /\ Len(b) = 9  BY <1>2, <1>4
    <3> QED  BY <2>1, <3>2, <3>3
  <2>3. h[3 + 6] = b[6] /\ h[3 + 9] = b[9]  BY <2>2
  <2>4. h[9] = Text("out0") /\ h[12] = Text("cycles")  BY <1>4, <2>3
  <2>5. \A k \in 4..11 : h[k] # Text("cycles")
    <3> TAKE k \in 4..11
    <3>1. k - 3 \in 1..8 /\ k - 3 \in 1..9 /\ 3 + (k - 3) = k  OBVIOUS
    <3>2. h[3 + (k - 3)] = b[k - 3]  BY <2>2, <3>1
    <3> QED  BY <1>5, <3>1, <3>2
  <2> QED  BY <1>2, <1>8, <2>2, <2>4, <2>5 DEF h
<1> QED  BY <1>7, <1>8

\* The columns of a row for a request without an answer.
LEMMA RowOfTimeout ==
  ASSUME NEW n \in Nat
  PROVE  /\ Len(TimeoutRow(n)) = 3
         /\ TimeoutRow(n)[1] = Num(n)
         /\ TimeoutRow(n)[2] = TimeoutText /\ TimeoutRow(n)[3] = TimeoutText
BY DEF TimeoutRow

-----------------------------------------------------------------------------
(* Every step keeps the invariant.                                          *)

\* The set-up does not change.
LEMMA SetUpKept == ASSUME SetUp, UNCHANGED bench PROVE SetUp'
  BY DEF SetUp, bench

\* A line of the file is a sequence of tokens.
LEMMA LineTyped == ASSUME SetUp, NEW l \in 1..Len(file) PROVE file[l] \in Seq(Token)
<1> DEFINE L == Seq(Token)
<1>1. file \in Seq(L)  BY DEF SetUp
<1> HIDE DEF L
<1>2. file[l] \in L  BY <1>1
<1> QED  BY <1>2 DEF L

\* Rows and replies stand while the history grows at its end.
LEMMA RowsStand ==
  ASSUME BenchInv, UNCHANGED bench,
         Len(origin) <= Len(origin'), \A i \in 1..Len(origin) : origin'[i] = origin[i],
         \A i \in 1..Len(origin) : log'[i + 1] = log[i + 1]
  PROVE  /\ \A i \in 1..Len(origin) : RowKept(i)'
         /\ \A r : \A m \in 0..Len(origin) : AnswersUpTo(r, m) => AnswersUpTo(r, m)'
<1>1. ASSUME NEW r, NEW m \in 0..Len(origin), AnswersUpTo(r, m) PROVE AnswersUpTo(r, m)'
  <2>1. \A q \in 1..m : q \in 1..Len(origin) /\ origin'[q] = origin[q]
    <3>1. Len(origin) \in Nat  BY DEF BenchInv, Types
    <3> QED  BY <3>1
  <2>2. core' = core /\ bytes' = bytes  BY DEF bench
  <2> QED  BY <1>1, <2>1, <2>2 DEF AnswersUpTo, ReplyTo
<1>2. ASSUME NEW i \in 1..Len(origin) PROVE RowKept(i)'
  <2>1. RowKept(i)  BY DEF BenchInv, LogKept
  <2>2. file' = file /\ engine' = engine /\ origin'[i] = origin[i] /\ log'[i + 1] = log[i + 1]
    BY DEF bench
  <2>3. i \in 0..Len(origin)
    <3>1. Len(origin) \in Nat  BY DEF BenchInv, Types
    <3> QED  BY <3>1
  <2>4. AnswersUpTo(origin[i].got[1], i) => AnswersUpTo(origin[i].got[1], i)'
    BY <1>1, <2>3
  <2> QED  BY <2>1, <2>2, <2>4 DEF RowKept, AnswersUpTo
<1> QED  BY <1>1, <1>2

\* An empty line is passed over.
LEMMA SkipBlankKeeps == ASSUME BenchInv, SkipBlank PROVE BenchInv'
<1>1. /\ at \in 1..Len(file) /\ file[at] = Blank /\ at' = at + 1
      /\ UNCHANGED <<bench, socket, log, origin, faults, runs>>
  BY DEF SkipBlank, Streaming, Skipped
<1>2. SetUp'  BY <1>1, SetUpKept DEF BenchInv
<1>3. Types /\ LogKept /\ SocketKept /\ InStep  BY DEF BenchInv
<1>4. file' = file /\ engine' = engine /\ Len(file) \in Nat
  <2>1. file \in Seq(Seq(Token))  BY DEF BenchInv, SetUp
  <2> QED  BY <1>1, <2>1 DEF bench
<1>5. Types'
  <2>1. at' \in 0..(Len(file) + 1)  BY <1>1, <1>4
  <2> QED  BY <1>1, <1>3, <1>4, <2>1 DEF Types
<1>6. Len(origin) \in Nat  BY <1>3 DEF Types
<1>7. /\ \A i \in 1..Len(origin) : RowKept(i)'
      /\ \A r : \A m \in 0..Len(origin) : AnswersUpTo(r, m) => AnswersUpTo(r, m)'
  BY <1>1, <1>6, RowsStand
<1>8. LogKept'  BY <1>1, <1>3, <1>4, <1>7 DEF LogKept
<1>9. SocketKept'  BY <1>1, <1>3, <1>6, <1>7 DEF SocketKept
<1>10. InStep'
  <2>1. at \in DOMAIN file
    <3>1. file \in Seq(Seq(Token))  BY DEF BenchInv, SetUp
    <3> QED  BY <1>1, <3>1
  <2>2. ~\A l \in DOMAIN file' : file'[l] # Blank  BY <1>1, <1>4, <2>1
  <2> QED  BY <2>2 DEF InStep
<1> QED  BY <1>2, <1>5, <1>8, <1>9, <1>10 DEF BenchInv

\* The stream ends and the log has its header.
LEMMA FinishKeeps == ASSUME BenchInv, Finish PROVE BenchInv'
<1>1. /\ at' = 0 /\ log' = IF log = << >> THEN <<Header(engine)>> ELSE log
      /\ UNCHANGED <<bench, socket, origin, faults, runs>>
  BY DEF Finish
<1>2. SetUp'  BY <1>1, SetUpKept DEF BenchInv
<1>3. SetUp /\ Types /\ LogKept /\ SocketKept /\ InStep  BY DEF BenchInv
<1>4. file' = file /\ engine' = engine /\ Len(file) \in Nat
  <2>1. file \in Seq(Seq(Token))  BY DEF BenchInv, SetUp
  <2> QED  BY <1>1, <2>1 DEF bench
<1>5. Types'
  <2>1. Header(engine) \in LogRow  BY <1>3 DEF SetUp, LogRow
  <2>2. log' \in Seq(LogRow)  BY <1>1, <1>3, <2>1 DEF Types
  <2> QED  BY <1>1, <1>3, <1>4, <2>2 DEF Types
<1>6. Len(origin) \in Nat  BY <1>3 DEF Types
<1>7. log = << >> => Len(origin) = 0
  BY <1>3 DEF LogKept
<1>8. \A i \in 1..Len(origin) : log'[i + 1] = log[i + 1]
  BY <1>1, <1>7
<1>9. /\ \A i \in 1..Len(origin) : RowKept(i)'
      /\ \A r : \A m \in 0..Len(origin) : AnswersUpTo(r, m) => AnswersUpTo(r, m)'
  BY <1>1, <1>6, <1>8, RowsStand
<1>10. LogKept'
  <2>1. log' # << >> /\ Len(log') = Len(origin) + 1 /\ log'[1] = Header(engine)
    BY <1>1, <1>3, <1>7 DEF LogKept
  <2> QED  BY <1>1, <1>4, <1>9, <2>1 DEF LogKept
<1>11. SocketKept'  BY <1>1, <1>3, <1>6, <1>9 DEF SocketKept
<1>12. InStep'  BY <1>1, <1>3, <1>4 DEF InStep
<1> QED  BY <1>2, <1>5, <1>10, <1>11, <1>12 DEF BenchInv

\* The engine is started again on the same file and log.
LEMMA AgainKeeps == ASSUME BenchInv, Again PROVE BenchInv'
<1>1. /\ runs' = runs + 1 /\ at' = 1 /\ socket' = << >>
      /\ UNCHANGED <<bench, log, origin, faults>>
  BY DEF Again
<1>2. SetUp'  BY <1>1, SetUpKept DEF BenchInv
<1>3. SetUp /\ Types /\ LogKept /\ SocketKept /\ InStep  BY DEF BenchInv
<1>4. file' = file /\ engine' = engine /\ Len(file) \in Nat
  <2>1. file \in Seq(Seq(Token))  BY DEF BenchInv, SetUp
  <2> QED  BY <1>1, <2>1 DEF bench
<1>5. Types'
  <2>1. << >> \in Seq(Reply)  OBVIOUS
  <2> QED  BY <1>1, <1>3, <1>4, <2>1 DEF Types
<1>6. Len(origin) \in Nat  BY <1>3 DEF Types
<1>7. \A i \in 1..Len(origin) : RowKept(i)'
  BY <1>1, <1>6, RowsStand
<1>8. LogKept'  BY <1>1, <1>3, <1>4, <1>7 DEF LogKept
<1>9. SocketKept'
  <2>1. Len(socket') = 0  BY <1>1
  <2> QED  BY <2>1 DEF SocketKept
<1>10. InStep'
  <2>1. runs' # 1  BY <1>1, <1>3 DEF Types
  <2> QED  BY <2>1 DEF InStep
<1> QED  BY <1>2, <1>5, <1>8, <1>9, <1>10 DEF BenchInv

\* One line is asked for and its row written, whatever becomes of the answer.
LEMMA AskKeeps ==
  ASSUME BenchInv, NEW fate \in {"prompt", "late", "lost"}, Ask(fate)
  PROVE  BenchInv'
<1>0. PICK n \in Nat : n = Len(origin)
  BY DEF BenchInv, Types
<1>00. PICK x : x = EngineFeatures(engine, file[at])  OBVIOUS
<1> DEFINE own == ReplyTo(x, n + 1)
           waiting == IF fate = "prompt" THEN Append(socket, own) ELSE socket
           afterwards == IF fate = "late" THEN <<own>> ELSE << >>
           got == IF waiting = << >> THEN << >> ELSE <<Head(waiting)>>
           o == [line |-> at, run |-> runs, asked |-> x, got |-> got]
           row == IF waiting = << >> THEN TimeoutRow(n + 1)
                  ELSE AnsweredRow(engine, n + 1, Latency(n + 1), Head(waiting))
           rest == IF waiting = << >> THEN afterwards ELSE Tail(waiting) \o afterwards
           K == {r \in Reply : r = StaleAck \/ r = own \/ AnswersUpTo(r, n)}
<1>1. /\ at \in 1..Len(file) /\ file[at] # Blank /\ at' = at + 1
      /\ log' = AppendRow(log, engine, row) /\ origin' = Append(origin, o) /\ socket' = rest
      /\ UNCHANGED <<bench, runs>>
  BY <1>0, <1>00 DEF Ask, Streaming, Skipped, Request
<1>2. faults' \in {faults, faults + 1}
  BY DEF Ask
<1>3. SetUp /\ Types /\ LogKept /\ SocketKept /\ InStep  BY DEF BenchInv
<1>4. file' = file /\ engine' = engine /\ core' = core /\ bytes' = bytes /\ Len(file) \in Nat
  <2>1. file \in Seq(Seq(Token))  BY <1>3 DEF SetUp
  <2> QED  BY <1>1, <2>1 DEF bench
<1>5. x \in Features
  <2>1. engine \in {"linux", "windows"} /\ file[at] \in Seq(Token)
    BY <1>1, <1>3, LineTyped DEF SetUp
  <2> QED  BY <1>00, <2>1, FeaturesOfLine
<1>7. own \in Reply
  <2>1. bytes \in {1, 21, 27, 29} /\ n + 1 \in Nat  BY <1>3 DEF SetUp
  <2> QED  BY <1>5, <2>1, ReplyTyped
<1> HIDE DEF own
<1>8. socket \in Seq(K)
  <2>1. \A k \in 1..Len(socket) : socket[k] \in K
    BY <1>0, <1>3 DEF SocketKept, Types
  <2>2. Len(socket) \in Nat /\ socket \in Seq(Reply)  BY <1>3 DEF Types
  <2> HIDE DEF K
  <2> QED  BY <2>1, <2>2
<1>9. own \in K  BY <1>7
<1>10. waiting \in Seq(K) /\ afterwards \in Seq(K)
  <2> HIDE DEF K
  <2> QED  BY <1>8, <1>9
<1>11. /\ rest \in Seq(K) /\ (waiting # << >> => Head(waiting) \in K)
  <2> HIDE DEF K, waiting, afterwards
  <2> QED  BY <1>10
<1>12. waiting # << >> => Head(waiting) \in Reply  BY <1>11
<1>13. got \in Seq(Reply) /\ o \in Origin /\ row \in LogRow
  <2>1. got \in Seq(Reply)
    <3> HIDE DEF waiting
    <3> QED  BY <1>12
  <2>2. at \in Nat /\ runs \in Nat  BY <1>1, <1>3, <1>4 DEF Types
  <2>3. o \in Origin
    <3> HIDE DEF got
    <3> QED  BY <1>5, <2>1, <2>2 DEF Origin
  <2>4. row \in LogRow
    <3> HIDE DEF waiting
    <3>1. n + 1 \in Nat /\ engine \in {"linux", "windows"}  BY <1>3 DEF SetUp
    <3>2. TimeoutRow(n + 1) \in LogRow  BY <3>1 DEF LogRow
    <3>3. waiting # << >> => AnsweredRow(engine, n + 1, Latency(n + 1), Head(waiting)) \in LogRow
      BY <1>12, <3>1 DEF LogRow
    <3> QED  BY <3>2, <3>3
  <2> QED  BY <2>1, <2>3, <2>4
<1> HIDE DEF o, row
<1>14. /\ Len(origin') = n + 1 /\ origin'[n + 1] = o /\ origin' \in Seq(Origin)
       /\ \A i \in 1..n : origin'[i] = origin[i]
  BY <1>0, <1>1, <1>3, <1>13 DEF Types
<1>15. Header(engine) \in LogRow  BY <1>3 DEF SetUp, LogRow
<1>16. /\ Len(log') = n + 2 /\ log'[1] = Header(engine) /\ log'[n + 2] = row
       /\ log' \in Seq(LogRow) /\ log' # << >>
       /\ \A i \in 1..n : log'[i + 1] = log[i + 1]
  <2>1. CASE log = << >>
    <3>1. n = 0  BY <1>0, <1>3, <2>1 DEF LogKept
    <3>2. log' = <<Header(engine), row>>  BY <1>1, <2>1 DEF AppendRow
    <3> QED  BY <1>13, <1>15, <3>1, <3>2
  <2>2. CASE log # << >>
    <3>1. log' = Append(log, row)  BY <1>1, <2>2 DEF AppendRow
    <3>2. Len(log) = n + 1 /\ log[1] = Header(engine)  BY <1>0, <1>3, <2>2 DEF LogKept
    <3>3. log \in Seq(LogRow)  BY <1>3 DEF Types
    <3> QED  BY <1>13, <3>1, <3>2, <3>3
  <2> QED  BY <2>1, <2>2
<1>17. /\ \A i \in 1..n : RowKept(i)'
       /\ \A r : \A m \in 0..n : AnswersUpTo(r, m) => AnswersUpTo(r, m)'
  <2>1. n <= Len(origin')  BY <1>14
  <2> QED  BY <1>0, <1>1, <1>14, <1>16, <2>1, RowsStand
<1>18. ASSUME NEW r, r \in K PROVE AnswersUpTo(r, n + 1)'
  <2>1. CASE r = StaleAck  BY <2>1 DEF AnswersUpTo
  <2>2. CASE r = own
    <3>1. origin'[n + 1].asked = x  BY <1>14 DEF o
    <3>2. r = ReplyTo(x, n + 1)'  BY <1>4, <2>2 DEF own, ReplyTo
    <3>3. n + 1 \in 1..(n + 1)  OBVIOUS
    <3>4. r = ReplyTo(origin[n + 1].asked, n + 1)'  BY <1>4, <3>1, <3>2 DEF ReplyTo
    <3> QED  BY <3>3, <3>4 DEF AnswersUpTo
  <2>3. CASE AnswersUpTo(r, n)
    <3>1. n \in 0..n /\ 1..n \subseteq 1..(n + 1)  OBVIOUS
    <3>2. AnswersUpTo(r, n)'  BY <1>17, <2>3, <3>1
    <3> QED  BY <3>1, <3>2 DEF AnswersUpTo
  <2> QED  BY <1>18, <2>1, <2>2, <2>3
<1>19. RowKept(n + 1)'
  <2>1. origin'[n + 1] = o /\ log'[(n + 1) + 1] = row  BY <1>14, <1>16
  <2>2. /\ origin'[n + 1].line = at /\ origin'[n + 1].asked = x
        /\ origin'[n + 1].got = got
    BY <2>1 DEF o
  <2>3. CASE waiting = << >>
    <3>1. got = << >> /\ row = TimeoutRow(n + 1)  BY <2>3 DEF row
    <3> HIDE DEF got, waiting
    <3> QED  BY <1>00, <1>1, <1>4, <2>1, <2>2, <3>1 DEF RowKept
  <2>4. CASE waiting # << >>
    <3> DEFINE head == Head(waiting)
    <3>1. got = <<head>> /\ row = AnsweredRow(engine, n + 1, Latency(n + 1), head)  BY <2>4 DEF row
    <3>2. head \in K  BY <1>11, <2>4
    <3> HIDE DEF got, waiting, head, K
    <3>3. got[1] = head /\ Len(got) = 1  BY <3>1
    <3>4. PICK h : h = head  OBVIOUS
    <3>5. AnswersUpTo(h, n + 1)'  BY <1>18, <3>2, <3>4
    <3>6. origin'[n + 1].got[1] = h  BY <2>2, <3>3, <3>4
    <3>7. AnswersUpTo(origin[n + 1].got[1], n + 1)'  BY <3>5, <3>6 DEF AnswersUpTo
    <3> QED  BY <1>00, <1>1, <1>4, <2>1, <2>2, <3>1, <3>3, <3>7 DEF RowKept
  <2> QED  BY <2>3, <2>4
<1>20. SetUp'  BY <1>1, <1>3, SetUpKept
<1>21. Types'
  <2>1. rest \in Seq(Reply)
    <3>1. \A k \in 1..Len(rest) : rest[k] \in K
      <4> HIDE DEF K, rest
      <4> QED  BY <1>11
    <3>2. \A k \in 1..Len(rest) : rest[k] \in Reply  BY <3>1
    <3>3. Len(rest) \in Nat /\ rest = [k \in 1..Len(rest) |-> rest[k]]
      <4> HIDE DEF K, rest
      <4> QED  BY <1>11
    <3> HIDE DEF K, rest
    <3> QED  BY <3>2, <3>3
  <2>2. at' \in 0..(Len(file') + 1)  BY <1>1, <1>4
  <2>3. runs' \in Nat \ {0} /\ faults' \in Nat  BY <1>1, <1>2, <1>3 DEF Types
  <2> HIDE DEF rest
  <2> QED  BY <1>1, <1>14, <1>16, <2>1, <2>2, <2>3 DEF Types
<1>22. LogKept'
  <2>1. \A i \in 1..(n + 1) : i \in 1..n \/ i = n + 1  OBVIOUS
  <2>2. ASSUME NEW i \in 1..(n + 1) PROVE RowKept(i)'
    <3>1. CASE i \in 1..n  BY <1>17, <3>1
    <3>2. CASE i = n + 1
      <4> HIDE DEF RowKept
      <4> QED  BY <1>19, <3>2
    <3> QED  BY <2>1, <3>1, <3>2
  <2>3. Len(log') = Len(origin') + 1  BY <1>14, <1>16
  <2> QED  BY <1>4, <1>14, <1>16, <2>2, <2>3 DEF LogKept
<1>23. SocketKept'
  <2> SUFFICES ASSUME NEW k, k \in 1..Len(socket') PROVE AnswersUpTo(socket[k], Len(origin))'
    BY DEF SocketKept
  <2>1. PICK h : h = rest[k]  OBVIOUS
  <2> HIDE DEF K, rest
  <2>2. h \in K /\ socket'[k] = h
    <3>1. k \in 1..Len(rest)  BY <1>1
    <3> QED  BY <1>1, <1>11, <2>1, <3>1
  <2>3. AnswersUpTo(h, n + 1)'  BY <1>18, <2>2
  <2> QED  BY <1>14, <2>2, <2>3 DEF AnswersUpTo
<1>24. InStep'
  <2> SUFFICES ASSUME runs' = 1, \A l \in DOMAIN file' : file'[l] # Blank
               PROVE  /\ \A i \in 1..Len(origin') : origin'[i].line = i
                      /\ at' # 0 => at' = Len(origin') + 1
    BY DEF InStep
  <2>1. /\ \A i \in 1..n : origin[i].line = i
        /\ at # 0 => at = n + 1
    BY <1>0, <1>1, <1>3, <1>4 DEF InStep
  <2>2. at = n + 1  BY <1>1, <1>4, <2>1
  <2>3. origin'[n + 1].line = n + 1  BY <1>14, <2>2 DEF o
  <2>4. \A i \in 1..(n + 1) : i \in 1..n \/ i = n + 1  OBVIOUS
  <2> QED  BY <1>1, <1>14, <2>1, <2>2, <2>3, <2>4
<1> QED  BY <1>20, <1>21, <1>22, <1>23, <1>24 DEF BenchInv

-----------------------------------------------------------------------------
(* The files that are made.                                                 *)

Row == [1..NFeat -> Int]

\* The corners are rows of numbers.
LEMMA CornersTyped == Corners \in Seq(Row)
<1>1. NFeat \in Nat /\ NFeat > 1 /\ Grain \in Nat /\ Top \in Nat
  BY StreamAssumption, WidthAssumption
<1>2. Highest \in Int /\ Lowest \in Int /\ Grain \in Int /\ -Grain \in Int /\ 0 \in Int
  BY <1>1 DEF Highest, Lowest, Bottom
<1>3. \A a \in Int : Full(a) \in Row  BY DEF Full, Row
<1>4. \A a, b \in Int : Tile(a, b) \in Row  BY DEF Tile, Row
<1>5. \A a \in Int : \A k \in 1..NFeat : OneHot(a, k) \in Row
  <2> TAKE a \in Int
  <2> TAKE k \in 1..NFeat
  <2>1. Full(0) \in Row  BY <1>2, <1>3
  <2> QED  BY <2>1 DEF OneHot, Row
<1>6. \A a, b \in Int : Linspace(a, b) \in Row
  <2> TAKE a \in Int, b \in Int
  <2>1. ASSUME NEW k \in 1..NFeat
        PROVE  a + ((b - a) * (k - 1)) \div (NFeat - 1) \in Int
    <3> DEFINE p == (b - a) * (k - 1)
               q == NFeat - 1
    <3>1. p \in Int  BY <1>1
    <3>2. q \in Nat \ {0}  BY <1>1
    <3> HIDE DEF p, q
    <3>3. p \div q \in Int  BY <3>1, <3>2
    <3>4. a + p \div q \in Int  BY <3>3
    <3> QED  BY <3>4 DEF p, q
  <2> QED  BY <2>1 DEF Linspace, Row
<1> DEFINE first == <<Full(0), Full(Highest), Full(Lowest), Full(Grain), Full(-Grain),
                      Tile(Highest, Lowest), Tile(Lowest, Highest),
                      Linspace(Lowest, Highest), Linspace(Highest, Lowest)>>
           pairs == [k \in 1..NFeat |-> <<OneHot(Highest, k), OneHot(Lowest, k)>>]
           R == Row
<1> HIDE DEF R
<1>7. first \in Seq(R)
  <2>1. /\ Full(0) \in R /\ Full(Highest) \in R /\ Full(Lowest) \in R /\ Full(Grain) \in R
        /\ Full(-Grain) \in R /\ Tile(Highest, Lowest) \in R /\ Tile(Lowest, Highest) \in R
        /\ Linspace(Lowest, Highest) \in R /\ Linspace(Highest, Lowest) \in R
    BY <1>2, <1>3, <1>4, <1>6 DEF R
  <2> QED  BY <2>1
<1>8. FlattenSeq(pairs) \in Seq(R)
  <2> DEFINE L == Seq(R)
  <2>1. \A k \in 1..NFeat : <<OneHot(Highest, k), OneHot(Lowest, k)>> \in L
    BY <1>2, <1>5 DEF R
  <2> HIDE DEF L
  <2>2. pairs \in Seq(L)  BY <1>1, <2>1
  <2> HIDE DEF pairs
  <2>3. pairs \in Seq(Seq(R))  BY <2>2 DEF L
  <2> QED  BY <2>3, FlattenJoin
<1>9. Corners = first \o FlattenSeq(pairs)  BY DEF Corners
<1> HIDE DEF first, pairs
<1>10. first \o FlattenSeq(pairs) \in Seq(R)  BY <1>7, <1>8
<1> QED  BY <1>9, <1>10 DEF R

\* The stimulus is rows of words.
LEMMA BuildTyped ==
  ASSUME NEW n \in Nat, NEW random \in Seq(Row)
  PROVE  Build(n, random) \in Seq([1..NFeat -> Word])
<1> DEFINE rows == Corners \o random
           m == IF n < Len(rows) THEN n ELSE Len(rows)
           W == [1..NFeat -> Word]
           R == Row
<1>1. rows \in Seq(R)
  <2>1. Corners \in Seq(R) /\ random \in Seq(R)  BY CornersTyped
  <2> HIDE DEF R
  <2> QED  BY <2>1
<1> HIDE DEF rows, R
<1>2. m \in Nat /\ \A r \in 1..m : rows[r] \in R  BY <1>1
<1>3. ASSUME NEW r \in 1..m PROVE [k \in 1..NFeat |-> Saturate(Truncate(rows[r][k]))] \in W
  <2>1. \A k \in 1..NFeat : rows[r][k] \in Int  BY <1>2 DEF R, Row
  <2> QED  BY <2>1, WordsOfFloats
<1>4. Build(n, random) = [r \in 1..m |-> [k \in 1..NFeat |-> Saturate(Truncate(rows[r][k]))]]
  BY DEF Build, rows
<1> HIDE DEF m, W
<1>5. [r \in 1..m |-> [k \in 1..NFeat |-> Saturate(Truncate(rows[r][k]))]] \in Seq(W)
  BY <1>2, <1>3
<1> QED  BY <1>4, <1>5 DEF W

\* A number is a token.
LEMMA NumberTyped == \A f \in Float : Number(f) \in Token
<1> TAKE f \in Float
<1>1. <<f>> \in Seq(Float)  OBVIOUS
<1> QED  BY <1>1 DEF Number, Token

\* The printed stimulus is a file.
LEMMA SaveTxtTyped ==
  ASSUME NEW rows \in Seq([1..NFeat -> Word])
  PROVE  SaveTxt(rows) \in Seq(Seq(Token))
<1> DEFINE W == [1..NFeat -> Word]
           L == Seq(Token)
<1>1. Len(rows) \in Nat /\ DOMAIN rows = 1..Len(rows) /\ \A r \in 1..Len(rows) : rows[r] \in W
  <2>1. rows \in Seq(W)  OBVIOUS
  <2> HIDE DEF W
  <2> QED  BY <2>1
<1>2. \A w \in Word : Printed(w) \in Token
  <2> TAKE w \in Word
  <2>1. w \in Int /\ Grain \in Int  BY WordsOfFloats, WidthAssumption
  <2>2. PICK v \in Int : Printed(w) = Number(Finite(v))
    <3> DEFINE size == IF w < 0 THEN -w ELSE w
               off == CASE size % 4 = 0 -> 0
                        [] size % 4 = 1 -> -1
                        [] size % 4 = 3 -> 1
                        [] OTHER -> IF (size \div 4) % 2 = 0 THEN -1 ELSE 1
               p == w * Grain
    <3>1. off \in Int /\ p \in Int
      <4>1. size % 4 \in {0, 1, 2, 3}  BY <2>1
      <4> HIDE DEF size
      <4> QED  BY <2>1, <4>1
    <3>2. Printed(w) = Number(Finite(IF w < 0 THEN p - off ELSE p + off))
      BY DEF Printed
    <3> HIDE DEF off, p
    <3>3. (IF w < 0 THEN p - off ELSE p + off) \in Int  BY <3>1
    <3> QED  BY <3>2, <3>3
  <2>3. Finite(v) \in Float  BY DEF Finite, Float
  <2> QED  BY <2>2, <2>3, NumberTyped
<1>3. ASSUME NEW r \in 1..Len(rows)
      PROVE  [k \in DOMAIN rows[r] |-> Printed(rows[r][k])] \in L
  <2>1. rows[r] \in W  BY <1>1
  <2>2. DOMAIN rows[r] = 1..NFeat /\ \A k \in 1..NFeat : rows[r][k] \in Word  BY <2>1
  <2>3. NFeat \in Nat  BY StreamAssumption
  <2>4. \A k \in 1..NFeat : Printed(rows[r][k]) \in Token  BY <1>2, <2>2
  <2> DEFINE T == Token
             row == [k \in 1..NFeat |-> Printed(rows[r][k])]
  <2>5. \A k \in 1..NFeat : row[k] \in T  BY <2>4
  <2> HIDE DEF T
  <2>6. row \in Seq(T)  BY <2>3, <2>5
  <2> QED  BY <2>2, <2>6 DEF T
<1>4. SaveTxt(rows) = [r \in 1..Len(rows) |-> [k \in DOMAIN rows[r] |-> Printed(rows[r][k])]]
  BY <1>1 DEF SaveTxt
<1> HIDE DEF L
<1>5. SaveTxt(rows) \in Seq(L)  BY <1>1, <1>3, <1>4
<1> QED  BY <1>5 DEF L

-----------------------------------------------------------------------------
(* The windows over the records.                                            *)

\* The two parts of two sequences joined.
LEMMA PartsOfJoin ==
  ASSUME NEW C, NEW s \in Seq(C), NEW t \in Seq(C)
  PROVE  /\ SubSeq(s \o t, 1, Len(s)) = s
         /\ SubSeq(s \o t, Len(s) + 1, Len(s) + Len(t)) = t
<1> DEFINE a == SubSeq(s \o t, 1, Len(s))
           b == SubSeq(s \o t, Len(s) + 1, Len(s) + Len(t))
<1>1. Len(s) \in Nat /\ Len(t) \in Nat /\ s \o t \in Seq(C) /\ Len(s \o t) = Len(s) + Len(t)
  OBVIOUS
<1>2. a \in Seq(C) /\ Len(a) = Len(s) /\ \A k \in 1..Len(s) : a[k] = s[k]
  BY <1>1
<1>3. b \in Seq(C) /\ Len(b) = Len(t) /\ \A k \in 1..Len(t) : b[k] = t[k]
  BY <1>1
<1> HIDE DEF a, b
<1>4. a = s  BY <1>2, SeqEqual
<1>5. b = t  BY <1>3, SeqEqual
<1> QED  BY <1>4, <1>5 DEF a, b

\* One sequence joined is itself.
LEMMA FlattenOne == ASSUME NEW C, NEW x \in Seq(C) PROVE FlattenSeq(<<x>>) = x
<1> DEFINE L == Seq(C)
<1>1. << >> \in Seq(L) /\ x \in L  OBVIOUS
<1>2. FlattenSeq(Append(<< >>, x)) = FlattenSeq(<< >>) \o x  BY <1>1, FlattenAppend
<1>3. FlattenSeq(<< >>) = << >>  BY FlattenJoin
<1>4. << >> \o x = x /\ Append(<< >>, x) = <<x>>  OBVIOUS
<1> QED  BY <1>2, <1>3, <1>4

\* Sequences of one width joined.
LEMMA FlattenWidth ==
  ASSUME NEW C, NEW w \in Nat, NEW s \in Seq(Seq(C)), \A i \in 1..Len(s) : Len(s[i]) = w
  PROVE  Len(FlattenSeq(s)) = w * Len(s)
<1> DEFINE L == Seq(C)
           S == {t \in Seq(L) : (\A i \in 1..Len(t) : Len(t[i]) = w)
                                  => Len(FlattenSeq(t)) = w * Len(t)}
<1>1. << >> \in S
  <2>1. FlattenSeq(<< >>) = << >>  BY FlattenJoin
  <2>2. w * 0 = 0 /\ << >> \in Seq(L)  OBVIOUS
  <2> HIDE DEF L
  <2> QED  BY <2>1, <2>2
<1>2. ASSUME NEW t \in Seq(L), NEW x \in L, t \in S PROVE Append(t, x) \in S
  <2> DEFINE u == Append(t, x)
  <2>1. /\ Len(u) = Len(t) + 1 /\ Len(t) \in Nat /\ u[Len(t) + 1] = x /\ u \in Seq(L)
        /\ \A i \in 1..Len(t) : u[i] = t[i]
    <3> HIDE DEF L
    <3> QED  OBVIOUS
  <2>2. FlattenSeq(u) = FlattenSeq(t) \o x  BY FlattenAppend
  <2>3. FlattenSeq(t) \in Seq(C)  BY FlattenJoin
  <2>4. Len(FlattenSeq(t) \o x) = Len(FlattenSeq(t)) + Len(x)  BY <2>3
  <2> HIDE DEF u, L
  <2>5. ASSUME \A i \in 1..Len(u) : Len(u[i]) = w
        PROVE  Len(FlattenSeq(u)) = w * Len(u)
    <3>1. Len(FlattenSeq(t)) = w * Len(t)  BY <1>2, <2>1, <2>5
    <3>2. Len(x) = w  BY <2>1, <2>5
    <3>3. w * (Len(t) + 1) = w * Len(t) + w  BY <2>1
    <3> QED  BY <2>1, <2>2, <2>4, <3>1, <3>2, <3>3
  <2>6. u \in S  BY <2>1, <2>5
  <2> HIDE DEF S
  <2> QED  BY <2>6 DEF u
<1> HIDE DEF S, L
<1>3. Seq(L) \subseteq S  BY <1>1, <1>2, InductionOnSeq
<1>4. s \in Seq(L)  BY DEF L
<1> QED  BY <1>3, <1>4 DEF S

\* The P elements of R from the i-th on.
Window(R, i, P) == [j \in 1..P |-> R[i + j - 1]]

\* A window and its neighbour share all but the first and the last element.
LEMMA WindowsSlide ==
  ASSUME NEW C, NEW R \in Seq(Seq(C)), NEW w \in Nat, \A i \in 1..Len(R) : Len(R[i]) = w,
         NEW P \in Nat \ {0}, NEW i \in 1..(Len(R) - P)
  PROVE  LET row == FlattenSeq(Window(R, i, P))
             next == FlattenSeq(Window(R, i + 1, P))
         IN /\ SubSeq(row, w + 1, w * P) = SubSeq(next, 1, w * (P - 1))
            /\ SubSeq(next, w * (P - 1) + 1, w * P) = R[i + P]
<1> DEFINE L == Seq(C)
           mid == Window(R, i + 1, P - 1)
           row == FlattenSeq(Window(R, i, P))
           next == FlattenSeq(Window(R, i + 1, P))
           last == R[i + P]
           head == R[i]
<1>1. \A k \in 1..Len(R) : R[k] \in L /\ Len(R[k]) = w
  <2>1. R \in Seq(L)  OBVIOUS
  <2> HIDE DEF L
  <2> QED  BY <2>1
<1>2. Len(R) \in Nat /\ i \in 1..Len(R) /\ i + P \in 1..Len(R)
      /\ \A j \in 1..(P - 1) : i + j \in 1..Len(R)
  OBVIOUS
<1> HIDE DEF L
<1>3. mid \in Seq(L) /\ Len(mid) = P - 1 /\ \A j \in 1..(P - 1) : mid[j] = R[i + j]
  <2>1. \A j \in 1..(P - 1) : (i + 1) + j - 1 = i + j  OBVIOUS
  <2>2. mid = [j \in 1..(P - 1) |-> R[i + j]]  BY <2>1 DEF Window
  <2>3. \A j \in 1..(P - 1) : R[i + j] \in L  BY <1>1, <1>2
  <2>4. P - 1 \in Nat  OBVIOUS
  <2>5. [j \in 1..(P - 1) |-> R[i + j]] \in Seq(L)  BY <2>3, <2>4
  <2> HIDE DEF mid
  <2>6. Len(mid) = P - 1 /\ \A j \in 1..(P - 1) : mid[j] = R[i + j]  BY <2>2, <2>4
  <2> QED  BY <2>2, <2>5, <2>6
<1>4. head \in L /\ last \in L /\ Len(head) = w /\ Len(last) = w  BY <1>1, <1>2
<1>5. Window(R, i, P) = <<head>> \o mid
  <2> DEFINE u == Window(R, i, P)
             v == <<head>> \o mid
  <2>1. u \in Seq(L) /\ Len(u) = P /\ \A j \in 1..P : u[j] = R[i + j - 1]
    <3>1. \A j \in 1..P : i + j - 1 \in 1..Len(R)  BY <1>2
    <3> QED  BY <1>1, <3>1 DEF Window
  <2>2. v \in Seq(L) /\ Len(v) = P /\ v[1] = head /\ \A j \in 1..(P - 1) : v[1 + j] = mid[j]
    <3> HIDE DEF mid, head
    <3> QED  BY <1>3, <1>4
  <2> HIDE DEF u, v
  <2>3. ASSUME NEW j \in 1..P PROVE u[j] = v[j]
    <3>1. CASE j = 1
      <4>1. i + 1 - 1 = i  OBVIOUS
      <4> QED  BY <2>1, <2>2, <3>1, <4>1
    <3>2. CASE j # 1
      <4>1. j - 1 \in 1..(P - 1) /\ 1 + (j - 1) = j /\ i + j - 1 = i + (j - 1)  BY <3>2
      <4> QED  BY <1>3, <2>1, <2>2, <4>1
    <3> QED  BY <3>1, <3>2
  <2>4. u = v  BY <2>1, <2>2, <2>3, SeqEqual
  <2> QED  BY <2>4 DEF u, v
<1>6. Window(R, i + 1, P) = Append(mid, last)
  <2> DEFINE u == Window(R, i + 1, P)
             v == Append(mid, last)
  <2>1. u \in Seq(L) /\ Len(u) = P /\ \A j \in 1..P : u[j] = R[i + j]
    <3>1. \A j \in 1..P : i + j \in 1..Len(R) /\ (i + 1) + j - 1 = i + j  BY <1>2
    <3>2. u = [j \in 1..P |-> R[i + j]]  BY <3>1 DEF Window
    <3>3. \A j \in 1..P : R[i + j] \in L  BY <1>1, <3>1
    <3>4. [j \in 1..P |-> R[i + j]] \in Seq(L)  BY <3>3
    <3> HIDE DEF u
    <3>5. Len(u) = P /\ \A j \in 1..P : u[j] = R[i + j]  BY <3>2
    <3> QED  BY <3>2, <3>4, <3>5
  <2>2. v \in Seq(L) /\ Len(v) = P /\ v[P] = last /\ \A j \in 1..(P - 1) : v[j] = mid[j]
    <3> HIDE DEF mid, last
    <3> QED  BY <1>3, <1>4
  <2> HIDE DEF u, v
  <2>3. ASSUME NEW j \in 1..P PROVE u[j] = v[j]
    <3>1. CASE j = P  BY <2>1, <2>2, <3>1
    <3>2. CASE j # P
      <4>1. j \in 1..(P - 1)  BY <3>2
      <4> QED  BY <1>3, <2>1, <2>2, <4>1
    <3> QED  BY <3>1, <3>2
  <2>4. u = v  BY <2>1, <2>2, <2>3, SeqEqual
  <2> QED  BY <2>4 DEF u, v
<1> DEFINE m == FlattenSeq(mid)
<1> HIDE DEF mid, head, last
<1>7. mid \in Seq(Seq(C)) /\ <<head>> \in Seq(Seq(C)) /\ head \in Seq(C) /\ last \in Seq(C)
  BY <1>3, <1>4 DEF L
<1>8. row = head \o m
  <2>1. FlattenSeq(<<head>> \o mid) = FlattenSeq(<<head>>) \o FlattenSeq(mid)
    BY <1>7, FlattenJoin
  <2>2. FlattenSeq(<<head>>) = head  BY <1>7, FlattenOne
  <2> QED  BY <1>5, <2>1, <2>2
<1>9. next = m \o last
  <2>1. FlattenSeq(Append(mid, last)) = FlattenSeq(mid) \o last  BY <1>7, FlattenAppend
  <2> QED  BY <1>6, <2>1
<1>10. m \in Seq(C)  BY <1>7, FlattenJoin
<1>11. Len(m) = w * (P - 1)
  <2>1. \A j \in 1..Len(mid) : Len(mid[j]) = w  BY <1>1, <1>2, <1>3
  <2>2. Len(FlattenSeq(mid)) = w * Len(mid)  BY <1>7, <2>1, FlattenWidth
  <2> QED  BY <1>3, <2>2
<1>12. w * P = w * (P - 1) + w /\ w * (P - 1) \in Nat
  <2>1. P - 1 \in Nat  OBVIOUS
  <2>2. w * (P - 1) \in Nat  BY <2>1
  <2> QED  BY <2>2
<1> DEFINE a == w * (P - 1)
           b == w * P
<1>13. b = a + w /\ a \in Nat /\ Len(m) = a  BY <1>11, <1>12
<1> HIDE DEF m, row, next, a, b
<1>14. SubSeq(head \o m, Len(head) + 1, Len(head) + Len(m)) = m  BY <1>7, <1>10, PartsOfJoin
<1>15. /\ SubSeq(m \o last, 1, Len(m)) = m
       /\ SubSeq(m \o last, Len(m) + 1, Len(m) + Len(last)) = last
  BY <1>7, <1>10, PartsOfJoin
<1>16. b = w + a  BY <1>13
<1>17. SubSeq(row, w + 1, b) = m  BY <1>4, <1>8, <1>13, <1>14, <1>16
<1>18. SubSeq(next, 1, a) = m /\ SubSeq(next, a + 1, b) = last
  BY <1>4, <1>9, <1>13, <1>15
<1> QED  BY <1>17, <1>18 DEF row, next, a, b, last

\* A record without a gap is its numbers.
LEMMA CellsJoined ==
  ASSUME NEW C, NEW r \in Seq(Seq(C)), \A c \in DOMAIN r : r[c] # << >> /\ Len(r[c]) <= 1
  PROVE  FlattenSeq(r) \in Seq(C) /\ Len(FlattenSeq(r)) = Len(r)
<1> DEFINE L == Seq(C)
           s == [k \in DOMAIN r |-> r[k][1]]
<1>1. DOMAIN r = 1..Len(r) /\ Len(r) \in Nat /\ \A k \in 1..Len(r) : r[k] \in L
  <2>1. r \in Seq(L)  OBVIOUS
  <2> HIDE DEF L
  <2> QED  BY <2>1
<1>2. ASSUME NEW k \in 1..Len(r) PROVE r[k][1] \in C /\ r[k] = <<r[k][1]>>
  <2> DEFINE c == r[k]
  <2>1. c \in Seq(C) /\ c # << >> /\ Len(c) <= 1  BY <1>1
  <2> HIDE DEF c
  <2>2. Len(c) = 1 /\ c[1] \in C
    <3>1. Len(c) # 0  BY <2>1, EmptySeq
    <3>2. Len(c) \in Nat  BY <2>1
    <3>3. Len(c) = 1
      <4>1. Len(c) <= 1  BY <2>1
      <4> DEFINE n == Len(c)
      <4>2. n \in Nat /\ n <= 1 /\ n # 0  BY <3>1, <3>2, <4>1
      <4> HIDE DEF n
      <4>3. n = 1  BY <4>2
      <4> QED  BY <4>3 DEF n
    <3> QED  BY <2>1, <3>3
  <2>3. c = <<c[1]>>
    <3>1. <<c[1]>> \in Seq(C) /\ Len(<<c[1]>>) = 1 /\ \A j \in 1..1 : <<c[1]>>[j] = c[j]
      BY <2>2
    <3> QED  BY <2>1, <2>2, <3>1, SeqEqual
  <2> QED  BY <2>2, <2>3 DEF c
<1>3. s \in Seq(C) /\ Len(s) = Len(r) /\ DOMAIN s = DOMAIN r
  BY <1>1, <1>2
<1>4. r = [k \in DOMAIN s |-> <<s[k]>>]
  <2>1. \A k \in 1..Len(r) : r[k] = <<s[k]>>  BY <1>1, <1>2
  <2>2. r = [k \in 1..Len(r) |-> r[k]]  BY <1>1
  <2> HIDE DEF s
  <2> QED  BY <1>1, <1>3, <2>1, <2>2
<1> HIDE DEF s
<1>5. FlattenSeq([k \in DOMAIN s |-> <<s[k]>>]) = s  BY <1>3, FlattenSingles
<1> QED  BY <1>3, <1>4, <1>5

\* The records that are used have a number in every column.
LEMMA NumericRecords ==
  ASSUME NEW raw \in RawFiles
  PROVE  LET numeric == Numeric(Tail(raw)) IN
         /\ numeric \in Seq(Seq(Seq(Float)))
         /\ \A i \in 1..Len(numeric) : /\ FlattenSeq(numeric[i]) \in Seq(Float)
                                       /\ Len(FlattenSeq(numeric[i])) = Len(raw[1])
<1> DEFINE R == Seq(Seq(Float))
           records == Tail(raw)
           I == {i \in DOMAIN records : \A c \in DOMAIN records[i] : ~IsNaN(records[i][c])}
           ids == Chosen(Numbers(Len(records)), I)
           numeric == Numeric(records)
           w == Len(raw[1])
<1>1. raw \in Seq(R) /\ raw # << >>
      /\ \A i \in DOMAIN raw : Len(raw[i]) = w /\ \A c \in DOMAIN raw[i] : Len(raw[i][c]) <= 1
  BY FilesAssumption
<1> HIDE DEF R, w
<1>2. /\ records \in Seq(R) /\ Len(raw) \in Nat /\ Len(records) = Len(raw) - 1
      /\ \A i \in 1..Len(records) : records[i] = raw[i + 1] /\ i + 1 \in DOMAIN raw
  BY <1>1
<1> HIDE DEF records
<1>3. /\ ids \in Seq(I \cap 1..Len(records))
      /\ Chosen(records, I) = [j \in 1..Len(ids) |-> records[ids[j]]]
  <2>1. records \in Seq(R)  BY <1>2
  <2> HIDE DEF I, numeric
  <2> QED  BY <2>1, ChosenByNumber
<1>4. numeric = [j \in 1..Len(ids) |-> records[ids[j]]]  BY <1>3 DEF Numeric
<1>5. Len(ids) \in Nat /\ \A j \in 1..Len(ids) : ids[j] \in I /\ ids[j] \in 1..Len(records)
  <2> HIDE DEF ids, I
  <2> QED  BY <1>3
<1> HIDE DEF ids, numeric
<1>6. Len(numeric) = Len(ids) /\ \A j \in 1..Len(ids) : numeric[j] = records[ids[j]]
  BY <1>4, <1>5
<1>7. \A j \in 1..Len(ids) : records[ids[j]] \in R  BY <1>2, <1>5
<1>8. numeric \in Seq(R)
  <2> HIDE DEF I
  <2> QED  BY <1>4, <1>5, <1>7
<1>9. ASSUME NEW j \in 1..Len(numeric)
      PROVE  FlattenSeq(numeric[j]) \in Seq(Float) /\ Len(FlattenSeq(numeric[j])) = w
  <2> DEFINE r == numeric[j]
  <2>1. r \in R /\ r = raw[ids[j] + 1] /\ ids[j] + 1 \in DOMAIN raw
        /\ \A c \in DOMAIN r : r[c] # << >>
    BY <1>2, <1>5, <1>6, <1>7 DEF IsNaN
  <2>2. Len(r) = w /\ \A c \in DOMAIN r : Len(r[c]) <= 1  BY <1>1, <2>1
  <2> HIDE DEF r
  <2>3. r \in Seq(Seq(Float))  BY <2>1 DEF R
  <2>4. \A c \in DOMAIN r : r[c] # << >> /\ Len(r[c]) <= 1  BY <2>1, <2>2
  <2>5. FlattenSeq(r) \in Seq(Float) /\ Len(FlattenSeq(r)) = Len(r)
    BY <2>3, <2>4, CellsJoined
  <2> QED  BY <2>2, <2>5 DEF r
<1> QED  BY <1>8, <1>9 DEF R, records, numeric, w

\* The rows of a prepared file are windows over its records.
LEMMA PreparedRows ==
  ASSUME NEW raw \in RawFiles
  PROVE  LET numeric == Numeric(Tail(raw))
             R == [i \in DOMAIN numeric |-> FlattenSeq(numeric[i])]
         IN /\ R \in Seq(Seq(Float)) /\ Len(R) = Len(numeric)
            /\ \A i \in 1..Len(R) : Len(R[i]) = Len(raw[1])
            /\ Prepared(raw) = [i \in 1..(Len(R) - Periods + 1) |-> FlattenSeq(Window(R, i, Periods))]
            /\ Prepared(raw) \in Seq(Seq(Float))
<1> DEFINE numeric == Numeric(Tail(raw))
           R == [i \in DOMAIN numeric |-> FlattenSeq(numeric[i])]
           L == Seq(Float)
           n == Len(R) - Periods + 1
<1>1. /\ numeric \in Seq(Seq(Seq(Float)))
      /\ \A i \in 1..Len(numeric) : FlattenSeq(numeric[i]) \in L /\ Len(FlattenSeq(numeric[i])) = Len(raw[1])
  BY NumericRecords
<1> HIDE DEF numeric, L
<1>2. Len(numeric) \in Nat /\ DOMAIN numeric = 1..Len(numeric)
  <2> DEFINE M == Seq(Seq(Float))
  <2>1. numeric \in Seq(M)  BY <1>1
  <2> HIDE DEF M
  <2> QED  BY <2>1
<1>3. R \in Seq(L) /\ Len(R) = Len(numeric) /\ \A i \in 1..Len(R) : R[i] \in L /\ Len(R[i]) = Len(raw[1])
  BY <1>1, <1>2
<1>4. Periods \in Nat \ {0}  BY StreamAssumption
<1>5. ASSUME NEW i \in 1..n
      PROVE  /\ Window(R, i, Periods) \in Seq(L)
             /\ Window(R, i, Periods) = [j \in 1..Periods |-> FlattenSeq(numeric[i + j - 1])]
  <2>1. \A j \in 1..Periods : i + j - 1 \in 1..Len(R)  BY <1>2, <1>3, <1>4
  <2>2. \A j \in 1..Periods : R[i + j - 1] \in L /\ R[i + j - 1] = FlattenSeq(numeric[i + j - 1])
    BY <1>2, <1>3, <2>1
  <2> HIDE DEF R
  <2>3. [j \in 1..Periods |-> R[i + j - 1]] \in Seq(L)
    <3>1. \A j \in 1..Periods : R[i + j - 1] \in L  BY <2>2
    <3> HIDE DEF n
    <3> QED  BY <1>4, <3>1
  <2> QED  BY <2>2, <2>3 DEF Window
<1>6. Prepared(raw) = [i \in 1..n |-> FlattenSeq([j \in 1..Periods |-> FlattenSeq(numeric[i + j - 1])])]
  BY <1>3 DEF Prepared, numeric
<1> HIDE DEF R
<1>7. Prepared(raw) = [i \in 1..n |-> FlattenSeq(Window(R, i, Periods))]
  <2> HIDE DEF n
  <2> QED  BY <1>5, <1>6
<1>8. \A i \in 1..n : FlattenSeq(Window(R, i, Periods)) \in L
  <2> TAKE i \in 1..n
  <2>1. Window(R, i, Periods) \in Seq(Seq(Float))  BY <1>5 DEF L
  <2> QED  BY <2>1, FlattenJoin DEF L
<1>9. Prepared(raw) \in Seq(L)
  <2>1. 1..n = 1..(IF n < 0 THEN 0 ELSE n) /\ n \in Int  BY <1>2, <1>3, <1>4
  <2> DEFINE m == IF n < 0 THEN 0 ELSE n
  <2>2. m \in Nat /\ 1..n = 1..m  BY <2>1
  <2> HIDE DEF m, n
  <2>3. \A i \in 1..m : FlattenSeq(Window(R, i, Periods)) \in L  BY <1>8, <2>2
  <2>4. [i \in 1..m |-> FlattenSeq(Window(R, i, Periods))] \in Seq(L)  BY <2>2, <2>3
  <2> QED  BY <1>7, <2>2, <2>4
<1>10. R \in Seq(Seq(Float)) /\ Prepared(raw) \in Seq(Seq(Float))  BY <1>3, <1>9 DEF L
<1> QED  BY <1>3, <1>7, <1>10 DEF R, numeric, n

\* A prepared file is a file.
LEMMA ToCsvTyped ==
  ASSUME NEW rows \in Seq(Seq(Float))
  PROVE  ToCsv(rows) \in Seq(Seq(Token))
<1> DEFINE F == Seq(Float)
           L == Seq(Token)
<1>1. Len(rows) \in Nat /\ DOMAIN rows = 1..Len(rows) /\ \A r \in 1..Len(rows) : rows[r] \in F
  <2>1. rows \in Seq(F)  OBVIOUS
  <2> HIDE DEF F
  <2> QED  BY <2>1
<1>2. ASSUME NEW r \in 1..Len(rows)
      PROVE  [k \in DOMAIN rows[r] |-> Number(rows[r][k])] \in L
  <2> DEFINE row == rows[r]
             T == Token
  <2>1. row \in Seq(Float)  BY <1>1
  <2> HIDE DEF row
  <2>2. Len(row) \in Nat /\ DOMAIN row = 1..Len(row) /\ \A k \in 1..Len(row) : Number(row[k]) \in T
    BY <2>1, NumberTyped
  <2> HIDE DEF T
  <2>3. [k \in DOMAIN row |-> Number(row[k])] \in Seq(T)  BY <2>2
  <2> QED  BY <2>3 DEF row, T
<1> HIDE DEF L
<1>3. ToCsv(rows) \in Seq(L)  BY <1>1, <1>2 DEF ToCsv
<1> QED  BY <1>3 DEF L

-----------------------------------------------------------------------------
(* The invariant holds.                                                     *)

\* A measurement starts within the invariant.
LEMMA BenchStarts == ASSUME Init PROVE BenchInv
<1>1. /\ engine \in {"linux", "windows"} /\ core \in {"exact", "faulty"}
      /\ bytes \in {1, 21, 27, 29} /\ socket \in {<< >>, <<StaleAck>>}
      /\ at = 1 /\ log = << >> /\ origin = << >> /\ faults = 0 /\ runs = 1
  BY DEF Init
<1>2. SetUp
  <2>1. CASE \E s \in Stimuli :
               /\ made = [by |-> "verify", rows |-> Build(s.n, s.random), raw |-> << >>]
               /\ file = SaveTxt(made.rows)
    <3>1. PICK s \in Stimuli :
            /\ made = [by |-> "verify", rows |-> Build(s.n, s.random), raw |-> << >>]
            /\ file = SaveTxt(made.rows)
      BY <2>1
    <3>2. s.n \in Nat /\ s.random \in Seq(Row)  BY FilesAssumption DEF Row
    <3>3. made.by = "verify" /\ made.rows \in Seq([1..NFeat -> Word])
      <4>1. made.rows = Build(s.n, s.random)  BY <3>1
      <4>2. Build(s.n, s.random) \in Seq([1..NFeat -> Word])  BY <3>2, BuildTyped
      <4> QED  BY <3>1, <4>1, <4>2
    <3>4. file \in Seq(Seq(Token))
      <4>1. SaveTxt(made.rows) \in Seq(Seq(Token))  BY <3>3, SaveTxtTyped
      <4> QED  BY <3>1, <4>1
    <3>5. made.by # "prepare"  BY <3>3
    <3> QED  BY <1>1, <3>1, <3>3, <3>4, <3>5 DEF SetUp
  <2>2. CASE \E r \in RawFiles :
               /\ made = [by |-> "prepare", rows |-> Prepared(r), raw |-> r]
               /\ file = ToCsv(made.rows)
    <3>1. PICK r \in RawFiles :
            /\ made = [by |-> "prepare", rows |-> Prepared(r), raw |-> r]
            /\ file = ToCsv(made.rows)
      BY <2>2
    <3>2. made.by = "prepare" /\ made.raw = r /\ made.rows = Prepared(r)  BY <3>1
    <3>3. made.rows \in Seq(Seq(Float))  BY <3>2, PreparedRows
    <3>4. file \in Seq(Seq(Token))
      <4>1. ToCsv(made.rows) \in Seq(Seq(Token))  BY <3>3, ToCsvTyped
      <4> QED  BY <3>1, <4>1
    <3>5. made.by # "verify"  BY <3>2
    <3> QED  BY <1>1, <3>2, <3>4, <3>5 DEF SetUp
  <2>3. CASE made = [by |-> "user", rows |-> << >>, raw |-> << >>] /\ file \in OwnFiles
    <3>1. file \in Seq(Seq(Token))
      <4> DEFINE F == Seq(Seq(Token))
      <4>1. OwnFiles \subseteq F  BY FilesAssumption
      <4> HIDE DEF F
      <4>2. file \in F  BY <2>3, <4>1
      <4> QED  BY <4>2 DEF F
    <3>2. made.by # "verify" /\ made.by # "prepare"  BY <2>3
    <3> QED  BY <1>1, <3>1, <3>2 DEF SetUp
  <2> QED  BY <2>1, <2>2, <2>3 DEF Init
<1>3. StaleAck \in Reply  BY <1>1, ReplyTyped
<1>4. Types
  <2>1. Len(file) \in Nat
    <3>1. file \in Seq(Seq(Token))  BY <1>2 DEF SetUp
    <3> QED  BY <3>1
  <2>2. socket \in Seq(Reply)
    <3>1. << >> \in Seq(Reply) /\ <<StaleAck>> \in Seq(Reply)  BY <1>3
    <3> QED  BY <1>1, <3>1
  <2>3. << >> \in Seq(Origin) /\ << >> \in Seq(LogRow)  OBVIOUS
  <2> QED  BY <1>1, <2>1, <2>2, <2>3 DEF Types
<1>5. Len(origin) = 0  BY <1>1
<1>6. LogKept  BY <1>1, <1>5 DEF LogKept
<1>7. SocketKept
  <2> SUFFICES ASSUME NEW k \in 1..Len(socket) PROVE AnswersUpTo(socket[k], Len(origin))
    BY DEF SocketKept
  <2>1. socket[k] = StaleAck  BY <1>1
  <2> QED  BY <2>1 DEF AnswersUpTo
<1>8. InStep  BY <1>1, <1>5 DEF InStep
<1> QED  BY <1>2, <1>4, <1>6, <1>7, <1>8 DEF BenchInv

\* Every step keeps the invariant.
LEMMA BenchSteps == ASSUME BenchInv, [Next]_vars PROVE BenchInv'
<1>1. CASE SkipBlank  BY <1>1, SkipBlankKeeps
<1>2. CASE \E fate \in {"prompt", "late", "lost"} : Ask(fate)  BY <1>2, AskKeeps
<1>3. CASE Finish  BY <1>3, FinishKeeps
<1>4. CASE Again  BY <1>4, AgainKeeps
<1>5. CASE UNCHANGED vars
  <2>1. UNCHANGED <<bench, at, socket, log, origin, faults, runs>>  BY <1>5 DEF vars
  <2>2. file' = file /\ engine' = engine  BY <2>1 DEF bench
  <2>3. SetUp /\ Types /\ LogKept /\ SocketKept /\ InStep  BY DEF BenchInv
  <2>4. SetUp'  BY <2>1, <2>3, SetUpKept
  <2>5. Types'  BY <2>1, <2>2, <2>3 DEF Types
  <2>6. Len(origin) \in Nat  BY <2>3 DEF Types
  <2>7. /\ \A i \in 1..Len(origin) : RowKept(i)'
        /\ \A r : \A m \in 0..Len(origin) : AnswersUpTo(r, m) => AnswersUpTo(r, m)'
    BY <2>1, <2>6, RowsStand
  <2>8. LogKept'  BY <2>1, <2>2, <2>3, <2>7 DEF LogKept
  <2>9. SocketKept'  BY <2>1, <2>3, <2>6, <2>7 DEF SocketKept
  <2>10. InStep'  BY <2>1, <2>2, <2>3 DEF InStep
  <2> QED  BY <2>4, <2>5, <2>8, <2>9, <2>10 DEF BenchInv
<1> QED  BY <1>1, <1>2, <1>3, <1>4, <1>5 DEF Next

\* The types, the rows of the log and what they came from, for every file.
THEOREM LogTellsOrigin == Spec => []BenchInv
<1>1. Init => BenchInv  BY BenchStarts
<1>2. BenchInv /\ [Next]_vars => BenchInv'  BY BenchSteps
<1> QED  BY <1>1, <1>2, PTL DEF Spec

-----------------------------------------------------------------------------
(* The data arrive as they were made.                                       *)

\* A multiple of Grain and a remainder are divided again.
LEMMA DivisionRestores ==
  ASSUME NEW g \in Nat \ {0}, NEW q \in Int, NEW r \in 0..(g - 1)
  PROVE  (q * g + r) \div g = q /\ (q * g + r) % g = r
<1> DEFINE x == q * g + r
           d == x \div g
           m == x % g
<1>1. x \in Int /\ d \in Int /\ m \in 0..(g - 1) /\ x = g * d + m
  <2>1. x \in Int  OBVIOUS
  <2> HIDE DEF x
  <2> QED  BY <2>1
<1>2. g * (q - d) = m - r
  <2>1. q * g + r = g * d + m  BY <1>1
  <2> HIDE DEF d, m, x
  <2> QED  BY <1>1, <2>1
<1> HIDE DEF x, d, m
<1>3. q - d = 0
  <2> DEFINE e == q - d
             f == m - r
  <2>1. e \in Int /\ f \in Int /\ -g < f /\ f < g /\ g * e = f  BY <1>1, <1>2
  <2> HIDE DEF e, f
  <2>2. CASE e >= 1
    <3>1. g * e >= g  BY <2>1, <2>2
    <3> QED  BY <2>1, <3>1
  <2>3. CASE e <= -1
    <3>1. g * e <= -g  BY <2>1, <2>3
    <3> QED  BY <2>1, <3>1
  <2>4. e = 0  BY <2>1, <2>2, <2>3
  <2> QED  BY <2>4 DEF e
<1>4. d = q  BY <1>1, <1>3
<1>5. m = r
  <2>1. g * 0 = 0  OBVIOUS
  <2>2. m - r = 0  BY <1>2, <1>3, <2>1
  <2> QED  BY <1>1, <2>2
<1> QED  BY <1>4, <1>5 DEF x, d, m

\* Less than half a unit is rounded away.
LEMMA RoundRestores ==
  ASSUME NEW w \in Int, NEW e \in {-1, 0, 1}
  PROVE  Round(w * Grain + e) = w
<1>1. Grain \in Nat /\ Grain >= 3  BY WidthAssumption, StreamAssumption
<1>2. CASE e = -1
  <2>1. w * Grain + e = (w - 1) * Grain + (Grain - 1)  BY <1>1, <1>2
  <2>2. Grain - 1 \in 0..(Grain - 1) /\ w - 1 \in Int /\ Grain \in Nat \ {0}  BY <1>1
  <2>3. /\ ((w - 1) * Grain + (Grain - 1)) \div Grain = w - 1
        /\ ((w - 1) * Grain + (Grain - 1)) % Grain = Grain - 1
    BY <2>2, DivisionRestores
  <2>4. Round(w * Grain + e) = IF \/ 2 * (Grain - 1) > Grain
                                  \/ 2 * (Grain - 1) = Grain /\ (w - 1) % 2 = 1
                               THEN (w - 1) + 1 ELSE w - 1
    BY <2>1, <2>3 DEF Round
  <2>5. 2 * (Grain - 1) > Grain  BY <1>1
  <2> QED  BY <2>4, <2>5
<1>3. CASE e \in {0, 1}
  <2>1. e \in 0..(Grain - 1) /\ Grain \in Nat \ {0}  BY <1>1, <1>3
  <2>2. (w * Grain + e) \div Grain = w /\ (w * Grain + e) % Grain = e
    BY <2>1, DivisionRestores
  <2>3. Round(w * Grain + e) = IF 2 * e > Grain \/ (2 * e = Grain /\ w % 2 = 1)
                               THEN w + 1 ELSE w
    BY <2>2 DEF Round
  <2>4. ~(2 * e > Grain) /\ 2 * e # Grain  BY <1>1, <1>3
  <2> QED  BY <2>3, <2>4
<1> QED  BY <1>2, <1>3

\* Six decimals are rounded back to the unit (make_verify_stream.py:86,
\* hft_engine_linux.cpp:51-60).
LEMMA PrintedRestored ==
  ASSUME NEW w \in Word
  PROVE  \E f \in Float : /\ Printed(w) = Number(f) /\ HostWord(f) = w
                          /\ f.kind = "finite" /\ Round(f.pieces) = w
<1> DEFINE size == IF w < 0 THEN -w ELSE w
           off == CASE size % 4 = 0 -> 0
                    [] size % 4 = 1 -> -1
                    [] size % 4 = 3 -> 1
                    [] OTHER -> IF (size \div 4) % 2 = 0 THEN -1 ELSE 1
           e == IF w < 0 THEN -off ELSE off
           f == Finite(w * Grain + e)
<1>1. w \in Int /\ Grain \in Int  BY WordsOfFloats, WidthAssumption
<1>2. off \in {-1, 0, 1}
  <2>1. size % 4 \in {0, 1, 2, 3}  BY <1>1
  <2> HIDE DEF size
  <2> QED  BY <2>1
<1>3. Printed(w) = Number(Finite(IF w < 0 THEN w * Grain - off ELSE w * Grain + off))
  BY DEF Printed
<1> HIDE DEF off
<1>4. e \in {-1, 0, 1}  BY <1>2
<1>5. (IF w < 0 THEN w * Grain - off ELSE w * Grain + off) = w * Grain + e
  <2> DEFINE p == w * Grain
  <2>1. p \in Int  BY <1>1
  <2> HIDE DEF p
  <2>2. (IF w < 0 THEN p - off ELSE p + off) = p + e  BY <1>2, <2>1
  <2> QED  BY <2>2 DEF p
<1> HIDE DEF e
<1>6. f \in Float /\ f.kind = "finite" /\ f.pieces = w * Grain + e
  <2>1. w * Grain + e \in Int  BY <1>1, <1>4
  <2> QED  BY <2>1 DEF Finite, Float
<1>7. Round(f.pieces) = w  BY <1>1, <1>4, <1>6, RoundRestores
<1>8. w \in (-LongTop - 1)..LongTop
  BY WidthAssumption DEF Word, Bottom
<1>9. Lrint(f.pieces) = w  BY <1>7, <1>8 DEF Lrint
<1>10. HostWord(f) = w  BY <1>6, <1>9, WordsOfFloats DEF HostWord
<1> QED  BY <1>3, <1>5, <1>6, <1>7, <1>10

\* A printed row of words is sent as it was.
LEMMA RowSurvives ==
  ASSUME NEW row \in [1..NFeat -> Word]
  PROVE  EngineFeatures("linux", [k \in DOMAIN row |-> Printed(row[k])]) = Fit(row)
<1> DEFINE line == [k \in DOMAIN row |-> Printed(row[k])]
           Back(k, f) == f \in Float /\ Printed(row[k]) = Number(f) /\ HostWord(f) = row[k]
           fs == [k \in 1..NFeat |-> CHOOSE f : Back(k, f)]
           cxx == [k \in DOMAIN line |-> line[k].cxx]
<1>1. NFeat \in Nat /\ DOMAIN row = 1..NFeat  BY StreamAssumption
<1>2. ASSUME NEW k \in 1..NFeat PROVE Back(k, fs[k])
  <2>1. row[k] \in Word  OBVIOUS
  <2>2. \E f : Back(k, f)  BY <2>1, PrintedRestored
  <2>3. fs[k] = CHOOSE f : Back(k, f)  OBVIOUS
  <2> HIDE DEF Back, fs
  <2> QED  BY <2>2, <2>3
<1> HIDE DEF fs
<1>3. fs \in Seq(Float) /\ Len(fs) = NFeat /\ DOMAIN fs = 1..NFeat
  <2>1. fs = [k \in 1..NFeat |-> fs[k]]  BY DEF fs
  <2>2. \A k \in 1..NFeat : fs[k] \in Float  BY <1>2
  <2> QED  BY <1>1, <2>1, <2>2
<1>4. cxx = [k \in DOMAIN fs |-> <<fs[k]>>]
  <2>1. ASSUME NEW k \in 1..NFeat PROVE line[k].cxx = <<fs[k]>>
    <3>1. line[k] = Number(fs[k])  BY <1>1, <1>2
    <3> QED  BY <3>1 DEF Number
  <2>2. DOMAIN line = 1..NFeat  BY <1>1
  <2> HIDE DEF line
  <2> QED  BY <1>3, <2>1, <2>2
<1>5. FlattenSeq(cxx) = fs  BY <1>3, <1>4, FlattenSingles
<1> HIDE DEF cxx
<1>6. EngineFeatures("linux", line) = HostWords(fs)  BY <1>5 DEF EngineFeatures, cxx
<1>7. [k \in DOMAIN fs |-> HostWord(fs[k])] = row
  BY <1>1, <1>2, <1>3
<1> QED  BY <1>6, <1>7 DEF HostWords

\* Where the invariant holds, the features sent are the stimulus as built.
LEMMA StimulusKept == BenchInv => StimulusSurvives
<1> SUFFICES ASSUME BenchInv, made.by = "verify", engine = "linux", NEW i \in DOMAIN origin
             PROVE  origin[i].asked = Fit(made.rows[origin[i].line])
  BY DEF StimulusSurvives
<1>1. SetUp /\ Types /\ LogKept  BY DEF BenchInv
<1>2. i \in 1..Len(origin)  BY <1>1 DEF Types
<1>3. origin[i].line \in 1..Len(file)
      /\ origin[i].asked = EngineFeatures(engine, file[origin[i].line])
  BY <1>1, <1>2 DEF LogKept, RowKept
<1> DEFINE W == [1..NFeat -> Word]
           rows == made.rows
           l == origin[i].line
<1>4. rows \in Seq(W) /\ file = SaveTxt(rows)  BY <1>1 DEF SetUp
<1> HIDE DEF W, rows, l
<1>5. file = [r \in 1..Len(rows) |-> [k \in DOMAIN rows[r] |-> Printed(rows[r][k])]]
      /\ Len(file) = Len(rows)
  BY <1>4 DEF SaveTxt
<1>6. l \in 1..Len(rows) /\ rows[l] \in W
  BY <1>3, <1>4, <1>5 DEF l
<1>7. file[l] = [k \in DOMAIN rows[l] |-> Printed(rows[l][k])]  BY <1>5, <1>6
<1>8. EngineFeatures("linux", file[l]) = Fit(rows[l])
  BY <1>6, <1>7, RowSurvives DEF W
<1> QED  BY <1>3, <1>8 DEF l, rows

\* The stimulus arrives as it was built, for every number of random rows, words
\* of any width and a grain of at least three pieces (make_verify_stream.py:72-87,
\* hft_engine_linux.cpp:51-60).
THEOREM StimulusArrives == Spec => []StimulusSurvives
<1>1. BenchInv => StimulusSurvives  BY StimulusKept
<1> QED  BY <1>1, LogTellsOrigin, PTL

\* The windows slide over the records and miss none, for every table and every
\* number of records in a row (data_prep_binance.py:50-60, 81-90).
THEOREM RecordsAreKept == Spec => []RecordsKept
<1>1. BenchInv => RecordsKept
  <2> SUFFICES ASSUME BenchInv, made.by = "prepare" PROVE RecordsKept
    BY DEF RecordsKept
  <2> DEFINE raw == made.raw
             numeric == Numeric(Tail(raw))
             R == [i \in DOMAIN numeric |-> FlattenSeq(numeric[i])]
             L == Seq(Float)
             rows == made.rows
             w == Len(raw[1])
             n == Len(R)
             ends == [i \in 1..(Len(rows) - 1) |->
                        SubSeq(rows[i + 1], w * (Periods - 1) + 1, w * Periods)]
  <2>1. raw \in RawFiles /\ rows = Prepared(raw)  BY DEF BenchInv, SetUp
  <2>2. /\ R \in Seq(L) /\ n = Len(numeric) /\ \A i \in 1..n : Len(R[i]) = w
        /\ rows = [i \in 1..(n - Periods + 1) |-> FlattenSeq(Window(R, i, Periods))]
    BY <2>1, PreparedRows
  <2>3. w \in Nat
    <3> DEFINE M == Seq(Seq(Float))
    <3>1. raw \in Seq(M) /\ raw # << >>  BY <2>1, FilesAssumption
    <3> HIDE DEF M, raw
    <3>2. raw[1] \in M  BY <3>1
    <3> QED  BY <3>2 DEF M
  <2>4. Periods \in Nat \ {0} /\ n \in Nat
    <3> HIDE DEF R, L
    <3> QED  BY <2>2, StreamAssumption
  <2>5. RecordsKept <=>
          /\ n >= Periods =>
               /\ rows # << >>
               /\ rows[1] \o FlattenSeq(ends) = FlattenSeq(R)
          /\ \A i \in 1..(Len(rows) - 1) :
               SubSeq(rows[i], w + 1, w * Periods) = SubSeq(rows[i + 1], 1, w * (Periods - 1))
    BY <2>2 DEF RecordsKept
  <2> HIDE DEF raw, numeric, R, rows, w, n
  <2>6. ASSUME NEW i \in 1..(n - Periods)
        PROVE  /\ SubSeq(rows[i], w + 1, w * Periods) = SubSeq(rows[i + 1], 1, w * (Periods - 1))
               /\ SubSeq(rows[i + 1], w * (Periods - 1) + 1, w * Periods) = R[i + Periods]
    <3>1. i \in 1..(n - Periods + 1) /\ i + 1 \in 1..(n - Periods + 1)  BY <2>4
    <3>2. rows[i] = FlattenSeq(Window(R, i, Periods)) /\ rows[i + 1] = FlattenSeq(Window(R, i + 1, Periods))
      BY <2>2, <3>1
    <3>3. R \in Seq(Seq(Float)) /\ \A k \in 1..Len(R) : Len(R[k]) = w  BY <2>2 DEF n
    <3>4. i \in 1..(Len(R) - Periods)  BY DEF n
    <3>5. /\ SubSeq(FlattenSeq(Window(R, i, Periods)), w + 1, w * Periods)
               = SubSeq(FlattenSeq(Window(R, i + 1, Periods)), 1, w * (Periods - 1))
          /\ SubSeq(FlattenSeq(Window(R, i + 1, Periods)), w * (Periods - 1) + 1, w * Periods)
               = R[i + Periods]
      BY <2>3, <2>4, <3>3, <3>4, WindowsSlide
    <3> QED  BY <3>2, <3>5
  <2>7. CASE n < Periods
    <3>1. 1..(n - Periods + 1) = {}  BY <2>4, <2>7
    <3>2. rows = << >>  BY <2>2, <3>1
    <3>3. 1..(Len(rows) - 1) = {}  BY <3>2
    <3>4. ~(n >= Periods)  BY <2>4, <2>7
    <3> HIDE DEF ends
    <3> QED  BY <2>5, <3>3, <3>4
  <2>8. CASE n >= Periods
    <3> DEFINE first == Window(R, 1, Periods)
               others == [i \in 1..(n - Periods) |-> R[i + Periods]]
    <3>1. Len(rows) = n - Periods + 1 /\ rows # << >> /\ rows[1] = FlattenSeq(first)
      <4> DEFINE m == n - Periods + 1
                 F(i) == FlattenSeq(Window(R, i, Periods))
      <4>1. m \in Nat \ {0} /\ 1 \in 1..m  BY <2>4, <2>8
      <4>2. rows = [i \in 1..m |-> F(i)]  BY <2>2
      <4> HIDE DEF m, F, first, ends, others, L
      <4>3. DOMAIN rows = 1..m /\ rows[1] = F(1)  BY <4>1, <4>2
      <4>4. Len(rows) = m  BY <4>1, <4>2
      <4>5. rows # << >>  BY <4>1, <4>4
      <4> QED  BY <4>3, <4>4, <4>5 DEF m, F, first
    <3>2. \A k \in 1..n : R[k] \in L
      <4> HIDE DEF L
      <4> QED  BY <2>2 DEF n
    <3>3. ends = others
      <4>1. Len(rows) - 1 = n - Periods  BY <2>4, <3>1
      <4> QED  BY <2>6, <4>1
    <3> HIDE DEF L, ends
    <3>4. first = [j \in 1..Periods |-> R[j]]
      <4>1. \A j \in 1..Periods : 1 + j - 1 = j  BY <2>4
      <4> QED  BY <4>1 DEF Window
    <3>5. first \in Seq(L) /\ Len(first) = Periods
      <4>1. \A j \in 1..Periods : R[j] \in L  BY <2>4, <2>8, <3>2
      <4>2. [j \in 1..Periods |-> R[j]] \in Seq(L) /\ Len([j \in 1..Periods |-> R[j]]) = Periods
        BY <2>4, <4>1
      <4> HIDE DEF first
      <4> QED  BY <3>4, <4>2
    <3>6. others \in Seq(L) /\ Len(others) = n - Periods
      <4>1. \A j \in 1..(n - Periods) : R[j + Periods] \in L  BY <2>4, <2>8, <3>2
      <4>2. n - Periods \in Nat  BY <2>4, <2>8
      <4> QED  BY <4>1, <4>2
    <3>7. first \o others = R
      <4> DEFINE s == first \o others
      <4>1. \A j \in 1..Periods : first[j] = R[j]  BY <3>4
      <4>2. \A j \in 1..(n - Periods) : others[j] = R[j + Periods]  OBVIOUS
      <4> HIDE DEF first, others
      <4>3. /\ s \in Seq(L) /\ Len(s) = n /\ \A j \in 1..Periods : s[j] = first[j]
            /\ \A j \in 1..(n - Periods) : s[Periods + j] = others[j]
        BY <2>4, <2>8, <3>5, <3>6
      <4> HIDE DEF s
      <4>4. ASSUME NEW j \in 1..n PROVE s[j] = R[j]
        <5>1. CASE j <= Periods  BY <2>4, <4>1, <4>3, <5>1
        <5>2. CASE j > Periods
          <6>1. j - Periods \in 1..(n - Periods) /\ Periods + (j - Periods) = j
                /\ (j - Periods) + Periods = j
            BY <2>4, <5>2
          <6> QED  BY <4>2, <4>3, <6>1
        <5> QED  BY <2>4, <5>1, <5>2
      <4>5. s = R  BY <2>2, <4>3, <4>4, SeqEqual DEF n
      <4> QED  BY <4>5 DEF s
    <3> HIDE DEF first, others
    <3>8. FlattenSeq(first \o others) = FlattenSeq(first) \o FlattenSeq(others)
      <4>1. first \in Seq(Seq(Float)) /\ others \in Seq(Seq(Float))  BY <3>5, <3>6 DEF L
      <4> QED  BY <4>1, FlattenJoin
    <3>9. rows[1] \o FlattenSeq(ends) = FlattenSeq(R)  BY <3>1, <3>3, <3>7, <3>8
    <3>10. \A i \in 1..(Len(rows) - 1) : i \in 1..(n - Periods)  BY <2>4, <3>1
    <3> QED  BY <2>5, <2>6, <3>1, <3>9, <3>10
  <2> QED  BY <2>4, <2>7, <2>8
<1> QED  BY <1>1, LogTellsOrigin, PTL

-----------------------------------------------------------------------------
(* What the scripts read from a log.                                        *)

\* A header is a sequence.
LEMMA HeaderDomain == ASSUME NEW e PROVE DOMAIN Header(e) = 1..Len(Header(e))
<1> DEFINE a == <<Text("Timestamp_us"), Text("Latency_us"), Text("Result")>>
           b == <<Text("recv_ticks"), Text("parse_ticks"), Text("dma_ticks"), Text("pl_ticks"),
                  Text("read_ticks"), Text("out0"), Text("out1"), Text("out2"), Text("cycles")>>
<1>1. Len(a) = 3 /\ Len(b) = 9 /\ Len(<< >>) = 0  OBVIOUS
<1>2. Header(e) = IF e = "windows" THEN a \o << >> ELSE a \o b  BY DEF Header
<1>3. a \in Seq({a[k] : k \in 1..3})  OBVIOUS
<1>4. b \in Seq({b[k] : k \in 1..9})  OBVIOUS
<1> DEFINE T == {a[k] : k \in 1..3} \cup {b[k] : k \in 1..9}
<1> HIDE DEF a, b
<1>5. a \in Seq(T) /\ b \in Seq(T) /\ << >> \in Seq(T)  BY <1>3, <1>4
<1> HIDE DEF T
<1>6. a \o b \in Seq(T) /\ a \o << >> \in Seq(T)  BY <1>5
<1> QED  BY <1>2, <1>6

\* The row of a request: what it shows of the answer, and where.
RowShown(i) ==
  LET row == log[i + 1] IN
  /\ ~Repeated(row) /\ row[1] = Num(i)
  /\ NameToId(row[3]) = IF Decided(i) THEN Answer(i).first ELSE -1
  /\ row[2] # TimeoutText <=> Answered(i)
  /\ Answered(i) => row[2] = Num(Latency(i))
  /\ engine = "windows" => Len(row) = 3
  /\ engine = "linux" /\ ~Answered(i) => Len(row) = 3
  /\ engine = "linux" /\ Answered(i) =>
       /\ Len(row) = 12
       /\ \A k \in 1..5 : row[3 + k] = IF Answer(i).bytes >= 21 THEN Num(Answer(i).ticks[k]) ELSE Missing
       /\ \A k \in 1..3 : row[8 + k] = IF Answer(i).bytes >= 27 THEN Num(Answer(i).outs[k]) ELSE Missing
       /\ row[12] = IF Answer(i).bytes >= 29 THEN Num(Answer(i).cycles) ELSE Missing
  /\ Answered(i) => /\ Answer(i) \in Reply
                    /\ Answer(i).bytes = 1 \/ Answer(i).cycles = CoreCycles
                    /\ Answer(i).bytes = bytes \/ Answer(i).first = 255

LEMMA RowsShown ==
  ASSUME BenchInv, NEW i \in 1..Len(origin)
  PROVE  RowShown(i)
<1> DEFINE row == log[i + 1]
           o == origin[i]
<1>1. engine \in {"linux", "windows"} /\ i \in Nat /\ i \in Int /\ Latency(i) \in Int /\ o \in Origin
  <2>1. origin \in Seq(Origin) /\ engine \in {"linux", "windows"}  BY DEF BenchInv, SetUp, Types
  <2> QED  BY <2>1 DEF Latency
<1>2. \/ o.got = << >> /\ row = TimeoutRow(i)
      \/ /\ Len(o.got) = 1 /\ AnswersUpTo(o.got[1], i)
         /\ row = AnsweredRow(engine, i, Latency(i), o.got[1])
  BY DEF BenchInv, LogKept, RowKept
<1>3. Answered(i) <=> o.got # << >>  BY DEF Answered
<1>4. Answer(i) = o.got[1]  BY DEF Answer
<1>5. Num(i) # Text("Timestamp_us") /\ Num(Latency(i)) # TimeoutText  BY <1>1, CellsDiffer
<1>6. CASE o.got = << >>
  <2>1. row = TimeoutRow(i)
    <3>1. Len(o.got) # 1  BY <1>6
    <3> QED  BY <1>2, <3>1
  <2>2. Len(row) = 3 /\ row[1] = Num(i) /\ row[2] = TimeoutText /\ row[3] = TimeoutText
    BY <1>1, <2>1, RowOfTimeout
  <2>3. NameToId(TimeoutText) = -1
    <3>1. TimeoutText # Text("SELL") /\ TimeoutText # Text("HOLD") /\ TimeoutText # Text("BUY")
      BY DEF TimeoutText, Text
    <3> QED  BY <3>1 DEF NameToId
  <2>4. ~Answered(i) /\ ~Decided(i)  BY <1>3, <1>6 DEF Decided
  <2> HIDE DEF row
  <2> QED  BY <1>5, <2>2, <2>3, <2>4 DEF RowShown, Repeated, row
<1>7. CASE o.got # << >>
  <2> DEFINE r == o.got[1]
  <2>1. row = AnsweredRow(engine, i, Latency(i), r) /\ AnswersUpTo(r, i)  BY <1>2, <1>7
  <2>2. r \in Reply
    <3>1. o.got \in Seq(Reply) /\ Len(o.got) = 1  BY <1>1, <1>2, <1>7 DEF Origin
    <3> HIDE DEF o
    <3> QED  BY <3>1
  <2>3. Answered(i) /\ Answer(i) = r  BY <1>3, <1>4, <1>7
  <2>4. r.bytes = 1 \/ r.cycles = CoreCycles
    <3> HIDE DEF r
    <3>1. StaleAck.bytes = 1  BY DEF StaleAck
    <3>2. \A x, q : ReplyTo(x, q).cycles = CoreCycles  BY DEF ReplyTo
    <3> QED  BY <2>1, <3>1, <3>2 DEF AnswersUpTo
  <2>13. r.bytes = bytes \/ r.first = 255
    <3> HIDE DEF r
    <3>1. StaleAck.first = 255  BY DEF StaleAck
    <3>2. \A x, q : ReplyTo(x, q).bytes = bytes  BY DEF ReplyTo
    <3> QED  BY <2>1, <3>1, <3>2 DEF AnswersUpTo
  <2>5. r.first \in {0, 1, 2, 255}  BY <2>2 DEF Reply
  <2> HIDE DEF r, row
  <2>6. /\ row[1] = Num(i) /\ row[2] = Num(Latency(i)) /\ row[3] = Text(ResultName(r))
        /\ engine = "windows" => Len(row) = 3
        /\ engine # "windows" =>
             /\ Len(row) = 12
             /\ \A k \in 1..5 : row[3 + k] = IF r.bytes >= 21 THEN Num(r.ticks[k]) ELSE Missing
             /\ \A k \in 1..3 : row[8 + k] = IF r.bytes >= 27 THEN Num(r.outs[k]) ELSE Missing
             /\ row[12] = IF r.bytes >= 29 THEN Num(r.cycles) ELSE Missing
    BY <1>1, <2>1, <2>2, RowOfReply
  <2>7. NameToId(Text(ResultName(r))) = IF r.first \in 0..2 THEN r.first ELSE -1
    <3>1. CASE r.first = 0  BY <3>1 DEF NameToId, ResultName, Text
    <3>2. CASE r.first = 1  BY <3>2 DEF NameToId, ResultName, Text
    <3>3. CASE r.first = 2  BY <3>3 DEF NameToId, ResultName, Text
    <3>4. CASE r.first = 255  BY <3>4 DEF NameToId, ResultName, Text
    <3> QED  BY <2>5, <3>1, <3>2, <3>3, <3>4
  <2>8. Decided(i) <=> r.first \in 0..2  BY <2>3 DEF Decided
  <2>9. NameToId(row[3]) = IF Decided(i) THEN r.first ELSE -1  BY <2>6, <2>7, <2>8
  <2>10. ~Repeated(row)  BY <1>5, <2>6 DEF Repeated
  <2>11. row[2] # TimeoutText  BY <1>5, <2>6
  <2>12. engine = "linux" => engine # "windows"  OBVIOUS
  <2> QED  BY <2>2, <2>3, <2>4, <2>6, <2>9, <2>10, <2>11, <2>12, <2>13 DEF RowShown, row
<1> QED  BY <1>6, <1>7

\* The data rows, which no reader takes for headers.
LEMMA DataRows ==
  ASSUME BenchInv, log # << >>
  PROVE  /\ Tail(log) \in Seq(LogRow) /\ Len(Tail(log)) = Len(origin) /\ Len(origin) \in Nat
         /\ Len(log) = Len(origin) + 1 /\ log[1] = Header(engine)
         /\ \A i \in 1..Len(origin) : Tail(log)[i] = log[i + 1]
         /\ NotRepeated(Tail(log)) = Tail(log)
         /\ DOMAIN origin = 1..Len(origin)
<1> DEFINE rows == Tail(log)
           n == Len(origin)
<1>1. log \in Seq(LogRow) /\ origin \in Seq(Origin) /\ Len(log) = n + 1 /\ log[1] = Header(engine)
  BY DEF BenchInv, Types, LogKept
<1> DEFINE L == LogRow
<1> HIDE DEF L, n
<1>2. log \in Seq(L)  BY <1>1 DEF L
<1>3. n \in Nat /\ DOMAIN origin = 1..n  BY <1>1 DEF n
<1>4. rows \in Seq(L) /\ Len(rows) = n /\ \A i \in 1..n : rows[i] = log[i + 1]
  BY <1>1, <1>2, <1>3
<1> HIDE DEF rows
<1>5. \A i \in 1..n : ~Repeated(rows[i])
  <2> TAKE i \in 1..n
  <2>1. RowShown(i)  BY RowsShown DEF n
  <2> QED  BY <1>4, <2>1 DEF RowShown
<1>6. NotRepeated(rows) = rows
  <2> DEFINE I == {i \in DOMAIN rows : ~Repeated(rows[i])}
  <2>1. DOMAIN rows \subseteq I  BY <1>4, <1>5
  <2>2. NotRepeated(rows) = Chosen(rows, I)  BY DEF NotRepeated
  <2> HIDE DEF I
  <2> QED  BY <1>4, <2>1, <2>2, ChosenAll
<1> QED  BY <1>1, <1>3, <1>4, <1>6 DEF rows, n, L

\* The rows a reader takes, by the numbers of their requests.
LEMMA RowsTaken ==
  ASSUME BenchInv, log # << >>, NEW I
  PROVE  LET ids == Chosen([i \in DOMAIN origin |-> i], I)
             taken == Chosen(Tail(log), I) IN
         /\ Len(ids) \in Nat /\ DOMAIN ids = 1..Len(ids)
         /\ Len(taken) = Len(ids) /\ DOMAIN taken = 1..Len(ids)
         /\ taken = [j \in 1..Len(ids) |-> taken[j]]
         /\ \A j \in 1..Len(ids) :
              /\ ids[j] \in I /\ ids[j] \in 1..Len(origin)
              /\ taken[j] = log[ids[j] + 1] /\ RowShown(ids[j])
         /\ \A j, k \in 1..Len(ids) : j < k => ids[j] < ids[k]
<1> DEFINE T == Tail(log)
           n == Len(origin)
           ids == Chosen([i \in DOMAIN origin |-> i], I)
           taken == Chosen(T, I)
           L == LogRow
<1>1. /\ T \in Seq(L) /\ Len(T) = n /\ n \in Nat /\ DOMAIN origin = 1..n
      /\ \A i \in 1..n : T[i] = log[i + 1]
  BY DataRows
<1>2. ids = Chosen(Numbers(n), I)  BY <1>1 DEF Numbers
<1>3. \A i \in 1..n : RowShown(i)  BY RowsShown
<1> HIDE DEF T, n, ids, L
<1>4. LET nums == Chosen(Numbers(Len(T)), I) IN
      /\ nums \in Seq(I \cap 1..Len(T))
      /\ Chosen(T, I) = [j \in 1..Len(nums) |-> T[nums[j]]]
      /\ \A j, k \in 1..Len(nums) : j < k => nums[j] < nums[k]
  BY <1>1, ChosenByNumber
<1>5. /\ ids \in Seq(I \cap 1..n) /\ taken = [j \in 1..Len(ids) |-> T[ids[j]]]
      /\ \A j, k \in 1..Len(ids) : j < k => ids[j] < ids[k]
  BY <1>1, <1>2, <1>4
<1> HIDE DEF taken
<1>6. /\ Len(ids) \in Nat /\ DOMAIN ids = 1..Len(ids)
      /\ \A j \in 1..Len(ids) : ids[j] \in I /\ ids[j] \in 1..n
  BY <1>5
<1>7. Len(taken) = Len(ids) /\ DOMAIN taken = 1..Len(ids) /\ taken = [j \in 1..Len(ids) |-> taken[j]]
      /\ \A j \in 1..Len(ids) : taken[j] = T[ids[j]]
  BY <1>5, <1>6
<1>8. \A j \in 1..Len(ids) : taken[j] = log[ids[j] + 1] /\ RowShown(ids[j])
  BY <1>1, <1>3, <1>6, <1>7
<1> QED  BY <1>5, <1>6, <1>7, <1>8 DEF ids, taken, n, T

\* The answers that are at least n bytes long.
LongAnswers(n) == {i \in DOMAIN origin : Answered(i) /\ Answer(i).bytes >= n}

\* parse_stage_timing.py shows the ticks of every answer that has them, and the
\* latency of the same answer beside them.
LEMMA StagesRead ==
  ASSUME BenchInv, log # << >>
  PROVE  LET long == Chosen([i \in DOMAIN origin |-> i], LongAnswers(21))
             stage == StageTimes(log) IN
         engine = "linux" =>
           /\ stage.ticks = [j \in DOMAIN long |-> Answer(long[j]).ticks]
           /\ stage.e2e = [j \in DOMAIN long |-> Latency(long[j])]
<1> DEFINE T == Tail(log)
           n == Len(origin)
           Staged(r) == Len(r) >= 8 /\ r[4] # Missing /\ r[2] # TimeoutText
                        /\ \A k \in 4..8 : IsNum(r[k])
           I == {i \in DOMAIN T : Staged(T[i])}
           has == Chosen(T, I)
           timed == Chosen(has, {i \in DOMAIN has : IsNum(has[i][2])})
           stage == StageTimes(log)
           ids == Chosen([i \in DOMAIN origin |-> i], I)
<1>1. /\ stage.ticks = [i \in DOMAIN has |-> [k \in 1..5 |-> Val(has[i][k + 3])]]
      /\ stage.e2e = [i \in DOMAIN timed |-> Val(timed[i][2])]
  BY DEF StageTimes
<1>2. /\ Len(ids) \in Nat /\ DOMAIN ids = 1..Len(ids)
      /\ Len(has) = Len(ids) /\ DOMAIN has = 1..Len(ids)
      /\ \A j \in 1..Len(ids) :
           /\ ids[j] \in I /\ ids[j] \in 1..n
           /\ has[j] = log[ids[j] + 1] /\ RowShown(ids[j])
  <2> HIDE DEF I
  <2> QED  BY RowsTaken
<1>4. ASSUME engine = "linux" PROVE I = LongAnswers(21)
  <2>1. /\ T \in Seq(LogRow) /\ Len(T) = n /\ n \in Nat /\ DOMAIN origin = 1..n
        /\ \A i \in 1..n : T[i] = log[i + 1]
    BY DataRows
  <2>2. DOMAIN T = 1..n
    <3> DEFINE L == LogRow
    <3> HIDE DEF L, T
    <3>1. T \in Seq(L)  BY <2>1 DEF L
    <3> QED  BY <2>1, <3>1
  <2>3. ASSUME NEW i \in 1..n PROVE Staged(T[i]) <=> Answered(i) /\ Answer(i).bytes >= 21
    <3> DEFINE row == log[i + 1]
    <3>1. RowShown(i) /\ T[i] = row  BY <2>1, RowsShown
    <3>2. CASE ~Answered(i)
      <4>1. Len(row) = 3  BY <1>4, <3>1, <3>2 DEF RowShown
      <4> HIDE DEF row, T
      <4>2. ~(Len(row) >= 8)  BY <4>1
      <4> QED  BY <3>1, <3>2, <4>2
    <3>3. CASE Answered(i)
      <4>1. /\ Len(row) = 12 /\ row[2] # TimeoutText /\ Answer(i) \in Reply
            /\ \A k \in 1..5 : row[3 + k] = IF Answer(i).bytes >= 21 THEN Num(Answer(i).ticks[k]) ELSE Missing
        BY <1>4, <3>1, <3>3 DEF RowShown
      <4> HIDE DEF row, T
      <4>2. CASE Answer(i).bytes >= 21
        <5>1. \A k \in 1..5 : row[3 + k] = Num(Answer(i).ticks[k]) /\ Answer(i).ticks[k] \in Int
          BY <4>1, <4>2 DEF Reply
        <5>2. \A k \in 1..5 : IsNum(row[3 + k]) /\ row[3 + k] # Missing  BY <5>1, CellsDiffer
        <5>3. \A k \in 4..8 : k - 3 \in 1..5 /\ 3 + (k - 3) = k  OBVIOUS
        <5>4. \A k \in 4..8 : IsNum(row[k]) /\ row[k] # Missing  BY <5>2, <5>3
        <5>5. Len(row) >= 8  BY <4>1
        <5> QED  BY <3>1, <3>3, <4>1, <4>2, <5>4, <5>5
      <4>3. CASE ~(Answer(i).bytes >= 21)
        <5>1. row[3 + 1] = Missing  BY <4>1, <4>3
        <5> QED  BY <3>1, <4>3, <5>1
      <4> QED  BY <4>2, <4>3
    <3> QED  BY <3>2, <3>3
  <2> HIDE DEF T, Staged, n
  <2> QED  BY <2>1, <2>2, <2>3 DEF LongAnswers
<1>5. ASSUME engine = "linux"
      PROVE  stage.ticks = [j \in DOMAIN ids |-> Answer(ids[j]).ticks]
  <2>1. ASSUME NEW j \in 1..Len(ids)
        PROVE  [k \in 1..5 |-> Val(has[j][k + 3])] = Answer(ids[j]).ticks
    <3> DEFINE i == ids[j]
               row == log[i + 1]
    <3>1. i \in LongAnswers(21) /\ has[j] = row /\ RowShown(i)
      <4> HIDE DEF I, ids, has
      <4> QED  BY <1>2, <1>4, <1>5
    <3> HIDE DEF i, has, row
    <3>2. Answered(i) /\ Answer(i).bytes >= 21  BY <3>1 DEF LongAnswers
    <3>3. /\ Answer(i) \in Reply
          /\ \A k \in 1..5 : row[3 + k] = Num(Answer(i).ticks[k])
      BY <1>5, <3>1, <3>2 DEF RowShown, row
    <3>4. Answer(i).ticks \in [1..5 -> Nat]  BY <3>3 DEF Reply
    <3>5. \A k \in 1..5 : Val(has[j][k + 3]) = Answer(i).ticks[k]
      <4> TAKE k \in 1..5
      <4>1. 3 + k = k + 3 /\ Answer(i).ticks[k] \in Int  BY <3>4
      <4>2. has[j][k + 3] = Num(Answer(i).ticks[k])  BY <3>1, <3>3, <4>1
      <4> QED  BY <4>1, <4>2, CellsDiffer
    <3>6. [k \in 1..5 |-> Val(has[j][k + 3])] = Answer(i).ticks  BY <3>4, <3>5
    <3> QED  BY <3>6 DEF i
  <2> HIDE DEF ids, has, stage
  <2> QED  BY <1>1, <1>2, <2>1
<1>6. ASSUME engine = "linux"
      PROVE  stage.e2e = [j \in DOMAIN ids |-> Latency(ids[j])]
  <2>1. ASSUME NEW j \in 1..Len(ids)
        PROVE  IsNum(has[j][2]) /\ Val(has[j][2]) = Latency(ids[j])
    <3> DEFINE i == ids[j]
    <3>1. i \in LongAnswers(21) /\ i \in 1..n /\ has[j] = log[i + 1] /\ RowShown(i)
      <4> HIDE DEF I, ids, has
      <4> QED  BY <1>2, <1>4, <1>6
    <3> HIDE DEF i, has
    <3>2. Answered(i) /\ Latency(i) \in Int
      <4>1. i \in Int  BY <3>1
      <4> QED  BY <3>1, <4>1 DEF LongAnswers, Latency
    <3>3. has[j][2] = Num(Latency(i))  BY <3>1, <3>2 DEF RowShown
    <3> QED  BY <3>2, <3>3, CellsDiffer DEF i
  <2>2. timed = has
    <3> DEFINE J == {i \in DOMAIN has : IsNum(has[i][2])}
    <3>1. DOMAIN has \subseteq J
      <4> HIDE DEF has, ids
      <4> QED  BY <1>2, <2>1
    <3>2. timed = Chosen(has, J)  OBVIOUS
    <3>3. has \in Seq({has[j] : j \in 1..Len(ids)})
      <4>1. has = [j \in 1..Len(ids) |-> has[j]]
        <5> HIDE DEF I
        <5> QED  BY RowsTaken
      <4> HIDE DEF has, ids
      <4> QED  BY <1>2, <4>1
    <3> HIDE DEF J, has, timed
    <3> QED  BY <3>1, <3>2, <3>3, ChosenAll
  <2> HIDE DEF timed, has, ids, stage
  <2> QED  BY <1>1, <1>2, <2>1, <2>2
<1> QED
  <2>1. ASSUME engine = "linux"
        PROVE  ids = Chosen([i \in DOMAIN origin |-> i], LongAnswers(21))
    BY <1>4, <2>1
  <2> HIDE DEF ids
  <2> DEFINE long == Chosen([i \in DOMAIN origin |-> i], LongAnswers(21))
  <2> HIDE DEF long
  <2>2. engine = "linux" => /\ stage.ticks = [j \in DOMAIN long |-> Answer(long[j]).ticks]
                            /\ stage.e2e = [j \in DOMAIN long |-> Latency(long[j])]
    BY <1>5, <1>6, <2>1 DEF long
  <2> QED  BY <2>2 DEF stage, long

\* analyze_jitter.py shows the cycles of every answer that has them, and counts
\* the other rows.
LEMMA JitterRead ==
  ASSUME BenchInv, log # << >>, engine = "linux"
  PROVE  LET long == Chosen([i \in DOMAIN origin |-> i], LongAnswers(29))
             jitter == JitterReport(log) IN
         /\ jitter.values = [j \in DOMAIN long |-> CoreCycles]
         /\ jitter.missing = Len(origin) - Len(jitter.values)
<1> DEFINE T == Tail(log)
           n == Len(origin)
           col == CHOOSE k \in CycleColumn(log) : TRUE
           I == {i \in DOMAIN T : Len(T[i]) >= col /\ IsNum(T[i][col])}
           has == Chosen(T, I)
           jitter == JitterReport(log)
           ids == Chosen([i \in DOMAIN origin |-> i], I)
<1>1. /\ T \in Seq(LogRow) /\ Len(T) = n /\ n \in Nat /\ DOMAIN origin = 1..n
      /\ NotRepeated(T) = T /\ log[1] = Header(engine)
      /\ \A i \in 1..n : T[i] = log[i + 1]
  BY DataRows
<1>2. /\ jitter.missing = Len(T) - Len(has)
      /\ jitter.values = [i \in DOMAIN has |-> Val(has[i][col])]
  <2> DEFINE H(R) == Chosen(R, {i \in DOMAIN R : Len(R[i]) >= col /\ IsNum(R[i][col])})
             N == NotRepeated(Tail(log))
             report(R) == [rows |-> Len(R), missing |-> Len(R) - Len(H(R)),
                           values |-> [i \in DOMAIN H(R) |-> Val(H(R)[i][col])]]
  <2>1. JitterReport(log) = report(N)  BY DEF JitterReport
  <2>2. N = T  BY <1>1
  <2>3. jitter = report(T) /\ H(T) = has
    <3> HIDE DEF N, T, H
    <3>1. jitter = report(T)  BY <2>1, <2>2
    <3> QED  BY <3>1 DEF H
  <2> HIDE DEF H, T, N, has, jitter
  <2> QED  BY <2>3
<1>3. col = 12
  <2>1. engine # "windows"  OBVIOUS
  <2> DEFINE h == Header(engine)
  <2>2. DOMAIN h = 1..12 /\ h[12] = Text("cycles") /\ \A k \in 4..11 : h[k] # Text("cycles")
    BY <2>1, HeaderColumns, HeaderDomain
  <2>3. \A k \in 1..3 : h[k] # Text("cycles")
    <3>1. h[1] = Text("Timestamp_us") /\ h[2] = Text("Latency_us") /\ h[3] = Text("Result")
      BY HeaderColumns
    <3>2. \A k \in 1..3 : k = 1 \/ k = 2 \/ k = 3  OBVIOUS
    <3>3. \A k \in 1..3 : h[k].text # "cycles"
      <4> HIDE DEF h
      <4> QED  BY <3>1, <3>2 DEF Text
    <3>4. Text("cycles").text = "cycles"  BY DEF Text
    <3> HIDE DEF h
    <3> QED  BY <3>3, <3>4
  <2> HIDE DEF h
  <2>4. {k \in DOMAIN h : h[k] = Text("cycles")} = {12}
    <3>1. \A k \in 1..12 : k \in 1..3 \/ k \in 4..11 \/ k = 12  OBVIOUS
    <3>2. \A k \in 1..12 : h[k] = Text("cycles") <=> k = 12  BY <2>2, <2>3, <3>1
    <3> QED  BY <2>2, <3>2
  <2>5. CycleColumn(log) = {12}  BY <1>1, <2>4 DEF CycleColumn, h
  <2> QED  BY <2>5
<1> HIDE DEF col
<1>4. /\ Len(ids) \in Nat /\ DOMAIN ids = 1..Len(ids)
      /\ Len(has) = Len(ids) /\ DOMAIN has = 1..Len(ids)
      /\ \A j \in 1..Len(ids) :
           /\ ids[j] \in I /\ ids[j] \in 1..n
           /\ has[j] = log[ids[j] + 1] /\ RowShown(ids[j])
  <2> HIDE DEF I
  <2> QED  BY RowsTaken
<1>5. I = LongAnswers(29)
  <2>2. DOMAIN T = 1..n
    <3> DEFINE L == LogRow
    <3> HIDE DEF L, T
    <3>1. T \in Seq(L)  BY <1>1 DEF L
    <3> QED  BY <1>1, <3>1
  <2>3. ASSUME NEW i \in 1..n
        PROVE  Len(T[i]) >= col /\ IsNum(T[i][col]) <=> Answered(i) /\ Answer(i).bytes >= 29
    <3> DEFINE row == log[i + 1]
    <3>1. RowShown(i) /\ T[i] = row  BY <1>1, RowsShown
    <3>2. CASE ~Answered(i)
      <4>1. Len(row) = 3  BY <3>1, <3>2 DEF RowShown
      <4> HIDE DEF row, T
      <4>2. ~(Len(row) >= 12)  BY <4>1
      <4> QED  BY <1>3, <3>1, <3>2, <4>2
    <3>3. CASE Answered(i)
      <4>1. /\ Len(row) = 12 /\ Answer(i) \in Reply
            /\ row[12] = IF Answer(i).bytes >= 29 THEN Num(Answer(i).cycles) ELSE Missing
        BY <3>1, <3>3 DEF RowShown
      <4>2. Answer(i).cycles \in Int  BY <4>1 DEF Reply
      <4> HIDE DEF row, T
      <4>3. IsNum(row[12]) <=> Answer(i).bytes >= 29  BY <4>1, <4>2, CellsDiffer
      <4> QED  BY <1>3, <3>1, <3>3, <4>1, <4>3
    <3> QED  BY <3>2, <3>3
  <2> HIDE DEF T, n
  <2> QED  BY <1>1, <2>2, <2>3 DEF LongAnswers
<1>6. \A j \in 1..Len(ids) : Val(has[j][col]) = CoreCycles
  <2> HIDE DEF has, ids, I
  <2> TAKE j \in 1..Len(ids)
  <2> DEFINE i == ids[j]
  <2>1. i \in LongAnswers(29) /\ has[j] = log[i + 1] /\ RowShown(i)  BY <1>4, <1>5
  <2> HIDE DEF i
  <2>2. Answered(i) /\ Answer(i).bytes >= 29  BY <2>1 DEF LongAnswers
  <2>3. /\ Answer(i).bytes = 1 \/ Answer(i).cycles = CoreCycles
        /\ has[j][12] = Num(Answer(i).cycles)
    BY <2>1, <2>2 DEF RowShown
  <2>4. Answer(i).bytes # 1  BY <2>2
  <2>5. CoreCycles \in Int  BY BenchAssumption
  <2> QED  BY <1>3, <2>3, <2>4, <2>5, CellsDiffer
<1> HIDE DEF has, T, jitter, I
<1>7. jitter.values = [j \in DOMAIN ids |-> CoreCycles] /\ Len(jitter.values) = Len(ids)
  <2> HIDE DEF ids
  <2>1. jitter.values = [j \in 1..Len(ids) |-> CoreCycles]  BY <1>2, <1>4, <1>6
  <2> QED  BY <1>4, <2>1
<1>8. ids = Chosen([i \in DOMAIN origin |-> i], LongAnswers(29))  BY <1>5
<1>9. jitter.missing = n - Len(jitter.values)  BY <1>1, <1>2, <1>4, <1>7
<1> HIDE DEF ids
<1> QED  BY <1>7, <1>8, <1>9 DEF jitter

\* analyze_linux_log.py shows the time of every answer since the first one, and
\* counts the other rows.
LEMMA LatencyRead ==
  ASSUME BenchInv, log # << >>
  PROVE  LET answered == Chosen([i \in DOMAIN origin |-> i], {i \in DOMAIN origin : Answered(i)})
             latency == LatencyReport(log) IN
         /\ latency.timeouts = Len(origin) - Len(answered)
         /\ latency.times = [j \in DOMAIN answered |-> answered[j] - answered[1]]
         /\ latency.latencies = [j \in DOMAIN answered |-> Latency(answered[j])]
<1> DEFINE T == Tail(log)
           n == Len(origin)
           I == {i \in DOMAIN T : T[i][2] # TimeoutText}
           valid == Chosen(T, I)
           start == Min({Val(valid[i][1]) : i \in DOMAIN valid})
           latency == LatencyReport(log)
           ids == Chosen([i \in DOMAIN origin |-> i], I)
<1>1. /\ T \in Seq(LogRow) /\ Len(T) = n /\ n \in Nat /\ DOMAIN origin = 1..n
      /\ \A i \in 1..n : T[i] = log[i + 1]
  BY DataRows
<1>2. /\ latency.timeouts = Len(T) - Len(valid)
      /\ latency.times = [i \in DOMAIN valid |-> Val(valid[i][1]) - start]
      /\ latency.latencies = [i \in DOMAIN valid |-> Val(valid[i][2])]
  BY DEF LatencyReport
<1>3. /\ Len(ids) \in Nat /\ DOMAIN ids = 1..Len(ids)
      /\ Len(valid) = Len(ids) /\ DOMAIN valid = 1..Len(ids)
      /\ \A j \in 1..Len(ids) :
           /\ ids[j] \in I /\ ids[j] \in 1..n
           /\ valid[j] = log[ids[j] + 1] /\ RowShown(ids[j])
      /\ \A j, k \in 1..Len(ids) : j < k => ids[j] < ids[k]
  <2> HIDE DEF I
  <2> QED  BY RowsTaken
<1>4. I = {i \in DOMAIN origin : Answered(i)}
  <2>1. DOMAIN T = 1..n
    <3> DEFINE L == LogRow
    <3> HIDE DEF L, T
    <3>1. T \in Seq(L)  BY <1>1 DEF L
    <3> QED  BY <1>1, <3>1
  <2>2. \A i \in 1..n : T[i][2] # TimeoutText <=> Answered(i)
    <3> TAKE i \in 1..n
    <3>1. RowShown(i) /\ T[i] = log[i + 1]  BY <1>1, RowsShown
    <3> QED  BY <3>1 DEF RowShown
  <2> HIDE DEF T, n
  <2> QED  BY <1>1, <2>1, <2>2
<1> HIDE DEF ids, valid, I, T
<1>5. \A j \in 1..Len(ids) : Val(valid[j][1]) = ids[j] /\ ids[j] \in Nat
  <2> TAKE j \in 1..Len(ids)
  <2>1. valid[j][1] = Num(ids[j]) /\ ids[j] \in Nat  BY <1>1, <1>3 DEF RowShown
  <2> QED  BY <2>1, CellsDiffer
<1>6. ASSUME Len(ids) > 0 PROVE start = ids[1]
  <2> DEFINE S == {Val(valid[i][1]) : i \in DOMAIN valid}
  <2>1. 1 \in 1..Len(ids)  BY <1>3, <1>6
  <2>2. S = {ids[j] : j \in 1..Len(ids)}
    <3> SUFFICES {Val(valid[j][1]) : j \in 1..Len(ids)} = {ids[j] : j \in 1..Len(ids)}
      BY <1>3
    <3> QED  BY <1>5
  <2> HIDE DEF S
  <2>3. \A j \in 1..Len(ids) : ids[1] <= ids[j]
    <3> TAKE j \in 1..Len(ids)
    <3>1. CASE j = 1  BY <1>5, <2>1, <3>1
    <3>2. CASE j # 1
      <4>1. 1 < j  BY <1>3, <3>2
      <4>2. ids[1] < ids[j] /\ ids[1] \in Nat /\ ids[j] \in Nat  BY <1>3, <1>5, <2>1, <4>1
      <4> QED  BY <4>2
    <3> QED  BY <3>1, <3>2
  <2>4. ids[1] \in S /\ \A y \in S : ids[1] <= y /\ y \in Nat  BY <1>5, <2>1, <2>2, <2>3
  <2>5. start \in S /\ \A y \in S : start <= y  BY <2>4 DEF Min, S
  <2> HIDE DEF start
  <2>6. start \in Nat /\ ids[1] \in Nat /\ start <= ids[1] /\ ids[1] <= start
    BY <2>4, <2>5
  <2> QED  BY <2>6
<1> HIDE DEF start, latency
<1>7. latency.times = [j \in DOMAIN ids |-> ids[j] - ids[1]]
  <2>1. CASE Len(ids) > 0  BY <1>2, <1>3, <1>5, <1>6, <2>1
  <2>2. CASE ~(Len(ids) > 0)
    <3>1. 1..Len(ids) = {}  BY <1>3, <2>2
    <3> QED  BY <1>2, <1>3, <3>1
  <2> QED  BY <2>1, <2>2
<1>8. latency.latencies = [j \in DOMAIN ids |-> Latency(ids[j])]
  <2>1. ASSUME NEW j \in 1..Len(ids) PROVE Val(valid[j][2]) = Latency(ids[j])
    <3>1. RowShown(ids[j]) /\ valid[j] = log[ids[j] + 1] /\ ids[j] \in I  BY <1>3
    <3>2. Answered(ids[j]) /\ Latency(ids[j]) \in Int  BY <1>4, <1>5, <3>1 DEF Latency
    <3>3. valid[j][2] = Num(Latency(ids[j]))  BY <3>1, <3>2 DEF RowShown
    <3> QED  BY <3>2, <3>3, CellsDiffer
  <2> QED  BY <1>2, <1>3, <2>1
<1>9. latency.timeouts = n - Len(ids)  BY <1>1, <1>2, <1>3
<1>10. ids = Chosen([i \in DOMAIN origin |-> i], {i \in DOMAIN origin : Answered(i)})
  BY <1>4 DEF ids
<1> HIDE DEF ids
<1> QED  BY <1>7, <1>9, <1>10, <1>8 DEF latency

\* read_log finds one header, and a decision for every row.
LEMMA DecisionsRead ==
  ASSUME BenchInv, log # << >>
  PROVE  LET read == ReadLog(log) IN
         /\ read.headers = 0 /\ QuantDecisions(log, TRUE) = read.dec
         /\ read.dec = [i \in 1..Len(origin) |-> IF Decided(i) THEN Answer(i).first ELSE -1]
<1> DEFINE T == Tail(log)
           n == Len(origin)
           R == NotRepeated(T)
           read == ReadLog(log)
<1>1. /\ T \in Seq(LogRow) /\ Len(T) = n /\ n \in Nat /\ Len(log) = n + 1
      /\ R = T /\ \A i \in 1..n : T[i] = log[i + 1]
  BY DataRows
<1>2. DOMAIN T = 1..n
  <2> DEFINE L == LogRow
  <2> HIDE DEF L, T
  <2>1. T \in Seq(L)  BY <1>1 DEF L
  <2> QED  BY <1>1, <2>1
<1>3. read.headers = Len(log) - 1 - Len(R) /\ read.dec = [i \in DOMAIN R |-> NameToId(R[i][3])]
  BY DEF ReadLog
<1>4. QuantDecisions(log, TRUE) = [i \in 1..(Len(log) - 1) |-> NameToId(log[i + 1][3])]
  BY DEF QuantDecisions
<1> DEFINE D(i) == IF Decided(i) THEN Answer(i).first ELSE -1
<1>5. \A i \in 1..n : NameToId(T[i][3]) = D(i) /\ NameToId(log[i + 1][3]) = D(i)
  <2> TAKE i \in 1..n
  <2>1. RowShown(i) /\ T[i] = log[i + 1]  BY <1>1, RowsShown
  <2>2. NameToId(log[i + 1][3]) = D(i)  BY <2>1 DEF RowShown
  <2> HIDE DEF T, D
  <2> QED  BY <2>1, <2>2
<1> HIDE DEF T, R, n, read, D
<1>6. read.headers = 0  BY <1>1, <1>3
<1>7. read.dec = [i \in 1..n |-> D(i)]
  BY <1>1, <1>2, <1>3, <1>5
<1>8. QuantDecisions(log, TRUE) = [i \in 1..n |-> D(i)]
  <2>1. Len(log) - 1 = n  BY <1>1
  <2> QED  BY <1>4, <1>5, <2>1
<1> QED  BY <1>6, <1>7, <1>8 DEF n, read, D

\* The scores that read_log finds, and whether it finds any.
LEMMA ScoresRead ==
  ASSUME BenchInv, log # << >>
  PROVE  LET read == ReadLog(log) IN
         /\ engine = "linux" => read.hasLogits
         /\ engine = "windows" => ~read.hasLogits
         /\ \A i \in 1..Len(origin) :
              engine = "linux" /\ bytes >= 27 /\ Decided(i) => read.logits[i] = Answer(i).outs
         /\ read.logits = [i \in 1..Len(origin) |->
                             IF engine = "linux" /\ Decided(i) /\ Answer(i).bytes >= 27
                             THEN Answer(i).outs ELSE <<0, 0, 0>>]
<1> DEFINE T == Tail(log)
           n == Len(origin)
           R == NotRepeated(T)
           read == ReadLog(log)
           dec == [i \in DOMAIN R |-> NameToId(R[i][3])]
<1>1. /\ T \in Seq(LogRow) /\ Len(T) = n /\ n \in Nat /\ Len(log) = n + 1
      /\ R = T /\ log[1] = Header(engine) /\ \A i \in 1..n : T[i] = log[i + 1]
  BY DataRows
<1>2. DOMAIN T = 1..n
  <2> DEFINE L == LogRow
  <2> HIDE DEF L, T
  <2>1. T \in Seq(L)  BY <1>1 DEF L
  <2> QED  BY <1>1, <2>1
<1>3. /\ read.logits = [i \in DOMAIN R |-> IF dec[i] = -1 THEN <<0, 0, 0>> ELSE Scores(R[i])]
      /\ read.hasLogits = (\/ \E k \in DOMAIN log[1] : log[1][k] = Text("out0")
                           \/ \E i \in DOMAIN R : dec[i] # -1 /\ Len(R[i]) >= 11)
  BY DEF ReadLog
<1>4. \A i \in 1..n : RowShown(i)  BY RowsShown
<1> HIDE DEF T, R, n, read
<1>5. ASSUME engine = "linux" PROVE read.hasLogits
  <2>1. engine # "windows"  BY <1>5
  <2>2. 9 \in DOMAIN Header(engine) /\ Header(engine)[9] = Text("out0")
    BY <2>1, HeaderColumns, HeaderDomain
  <2> HIDE DEF dec
  <2> QED  BY <1>1, <1>3, <2>2
<1>6. ASSUME engine = "windows" PROVE ~read.hasLogits
  <2> DEFINE h == Header(engine)
  <2>1. \A k \in DOMAIN h : h[k] # Text("out0")
    <3>1. /\ DOMAIN h = 1..3 /\ h[1] = Text("Timestamp_us") /\ h[2] = Text("Latency_us")
          /\ h[3] = Text("Result")
      BY <1>6, HeaderColumns, HeaderDomain
    <3> HIDE DEF h
    <3>2. \A k \in 1..3 : k = 1 \/ k = 2 \/ k = 3  OBVIOUS
    <3>3. \A k \in 1..3 : h[k].text # "out0"  BY <3>1, <3>2 DEF Text
    <3>4. Text("out0").text = "out0"  BY DEF Text
    <3> QED  BY <3>1, <3>3, <3>4
  <2>2. \A i \in 1..n : ~(Len(R[i]) >= 11)
    <3> TAKE i \in 1..n
    <3>1. Len(R[i]) = 3  BY <1>1, <1>4, <1>6 DEF RowShown
    <3> QED  BY <3>1
  <2> HIDE DEF h, dec
  <2> QED  BY <1>1, <1>2, <1>3, <2>1, <2>2 DEF h
<1>7. ASSUME NEW i \in 1..n, engine = "linux", Decided(i), Answer(i).bytes >= 27
      PROVE  read.logits[i] = Answer(i).outs
  <2> DEFINE row == log[i + 1]
             outs == Answer(i).outs
             cells == SubSeq(row, 9, 11)
  <2>1. RowShown(i) /\ R[i] = row /\ DOMAIN R = 1..n  BY <1>1, <1>2, <1>4
  <2>2. Answered(i) /\ Answer(i).first \in 0..2  BY <1>7 DEF Decided
  <2>3. Answer(i) \in Reply  BY <2>1, <2>2 DEF RowShown
  <2>4. /\ Len(row) = 12 /\ NameToId(row[3]) = Answer(i).first
        /\ \A k \in 1..3 : row[8 + k] = Num(outs[k])
    BY <1>7, <2>1, <2>2 DEF RowShown
  <2>5. outs \in [1..3 -> Word] /\ \A k \in 1..3 : outs[k] \in Int
    <3>1. outs \in [1..3 -> Word]  BY <2>3 DEF Reply
    <3> HIDE DEF outs
    <3> QED  BY <3>1, WordsOfFloats
  <2> HIDE DEF row, outs
  <2>6. \A k \in 1..3 : cells[k] = row[8 + k]
    BY <2>4
  <2> HIDE DEF cells
  <2>7. \A k \in 1..3 : IsNum(cells[k]) /\ Val(cells[k]) = outs[k]
    BY <2>4, <2>5, <2>6, CellsDiffer
  <2>8. Scores(row) = outs
    <3>1. Scores(row) = [k \in 1..3 |-> Val(cells[k])]
      BY <2>4, <2>7 DEF Scores, cells
    <3> QED  BY <2>5, <2>7, <3>1
  <2>9. dec[i] # -1
    <3>1. dec[i] = Answer(i).first  BY <2>1, <2>4
    <3> QED  BY <2>2, <3>1
  <2> HIDE DEF dec
  <2> QED  BY <1>3, <2>1, <2>8, <2>9 DEF outs
<1>8. ASSUME NEW i \in 1..n, ~(engine = "linux" /\ Decided(i) /\ Answer(i).bytes >= 27)
      PROVE  read.logits[i] = <<0, 0, 0>>
  <2> DEFINE row == log[i + 1]
  <2>1. RowShown(i) /\ R[i] = row /\ DOMAIN R = 1..n  BY <1>1, <1>2, <1>4
  <2>2. dec[i] = IF Decided(i) THEN Answer(i).first ELSE -1
    BY <2>1 DEF RowShown
  <2> HIDE DEF dec, row
  <2>3. CASE ~Decided(i)  BY <1>3, <2>1, <2>2, <2>3
  <2>4. CASE Decided(i)
    <3>1. Scores(row) = <<0, 0, 0>>
      <4>1. CASE engine = "windows"
        <5>1. Len(row) = 3  BY <2>1, <4>1 DEF RowShown, row
        <5> QED  BY <5>1 DEF Scores
      <4>2. CASE engine = "linux"
        <5>1. /\ Len(row) = 12
              /\ row[8 + 1] = IF Answer(i).bytes >= 27 THEN Num(Answer(i).outs[1]) ELSE Missing
          BY <2>1, <2>4, <4>2 DEF RowShown, Decided, row
        <5>2. row[9] = Missing  BY <1>8, <2>4, <4>2, <5>1
        <5>3. ~IsNum(SubSeq(row, 9, 11)[1])
          <6>1. SubSeq(row, 9, 11)[1] = row[9]  BY <5>1
          <6>2. ~IsNum(Missing)  BY CellsDiffer
          <6> QED  BY <5>2, <6>1, <6>2
        <5> QED  BY <5>3 DEF Scores
      <4>3. engine \in {"linux", "windows"}  BY DEF BenchInv, SetUp
      <4> QED  BY <4>1, <4>2, <4>3
    <3> QED  BY <1>3, <2>1, <3>1
  <2> QED  BY <2>3, <2>4
<1>9. ASSUME NEW i \in 1..n, bytes >= 27, Decided(i)
      PROVE  Answer(i).bytes >= 27
  <2>1. Answered(i) /\ Answer(i).first # 255  BY <1>9 DEF Decided
  <2> QED  BY <1>4, <1>9, <2>1 DEF RowShown
<1>10. read.logits = [i \in 1..n |-> IF engine = "linux" /\ Decided(i) /\ Answer(i).bytes >= 27
                                     THEN Answer(i).outs ELSE <<0, 0, 0>>]
  <2>1. read.logits = [i \in 1..n |-> read.logits[i]]
    <3>1. DOMAIN R = 1..n  BY <1>1, <1>2
    <3> HIDE DEF dec
    <3> QED  BY <1>3, <3>1
  <2> QED  BY <1>7, <1>8, <2>1
<1> QED  BY <1>5, <1>6, <1>7, <1>9, <1>10 DEF read, n

\* Every script reads from every log what the engine put there: the decisions,
\* scores, times and cycles of the row's own reply (verify_bitexact.py:139-171,
\* quantization_analysis.py:128-134, analyze_jitter.py:26-45,
\* parse_stage_timing.py:36-50, analyze_linux_log.py:12-30).
THEOREM ToolsReadTheLog == Spec => []ToolsAgree
<1>1. ASSUME BenchInv PROVE ToolsAgree
  <2> SUFFICES ASSUME log # << >> PROVE ToolsAgree  BY DEF ToolsAgree
  <2> DEFINE rows == [i \in DOMAIN origin |-> i]
             answered == Chosen(rows, {i \in DOMAIN origin : Answered(i)})
             Long(n) == Chosen(rows, LongAnswers(n))
             read == ReadLog(log)
             stage == StageTimes(log)
             jitter == JitterReport(log)
             latency == LatencyReport(log)
  <2>1. /\ read.headers = 0 /\ QuantDecisions(log, TRUE) = read.dec
        /\ read.dec = [i \in DOMAIN origin |-> IF Decided(i) THEN Answer(i).first ELSE -1]
    <3>1. DOMAIN origin = 1..Len(origin)  BY <1>1, DataRows
    <3> QED  BY <1>1, <3>1, DecisionsRead
  <2>2. engine = "linux" => /\ stage.ticks = [j \in DOMAIN Long(21) |-> Answer(Long(21)[j]).ticks]
                            /\ stage.e2e = [j \in DOMAIN Long(21) |-> Latency(Long(21)[j])]
    BY <1>1, StagesRead
  <2>3. engine = "linux" => /\ jitter.values = [j \in DOMAIN Long(29) |-> CoreCycles]
                            /\ jitter.missing = Len(origin) - Len(jitter.values)
    BY <1>1, JitterRead
  <2>4. /\ latency.timeouts = Len(origin) - Len(answered)
        /\ latency.times = [j \in DOMAIN answered |-> answered[j] - answered[1]]
        /\ latency.latencies = [j \in DOMAIN answered |-> Latency(answered[j])]
    BY <1>1, LatencyRead
  <2>6. read.logits = [i \in DOMAIN origin |->
                         IF engine = "linux" /\ Decided(i) /\ Answer(i).bytes >= 27
                         THEN Answer(i).outs ELSE <<0, 0, 0>>]
    <3>1. DOMAIN origin = 1..Len(origin)  BY <1>1, DataRows
    <3> QED  BY <1>1, <3>1, ScoresRead
  <2>5. \A n : Long(n) = Chosen(rows, {i \in DOMAIN origin : Answered(i) /\ Answer(i).bytes >= n})
    BY DEF LongAnswers
  <2> HIDE DEF read, stage, jitter, latency, answered, Long, rows
  <2> QED  BY <2>1, <2>2, <2>3, <2>4, <2>5, <2>6 DEF ToolsAgree, read, stage, jitter, latency, answered, rows
<1> QED  BY <1>1, LogTellsOrigin, PTL

-----------------------------------------------------------------------------
(* The verdict.                                                             *)

\* The floats that f2q88 and the verifier's cast agree about.
Ordinary == {f \in Float : f.kind = "finite" /\ Round(f.pieces) \in -LongTop..LongTop}

LEMMA SameWord == \A f \in Ordinary : VerifierWord(f) = HostWord(f)
<1> TAKE f \in Ordinary
<1>1. f \in Float /\ f.kind = "finite" /\ Round(f.pieces) \in -LongTop..LongTop  BY DEF Ordinary
<1>2. LongTop \in Nat  BY WidthAssumption
<1>3. Lrint(f.pieces) = Round(f.pieces)  BY <1>1, <1>2 DEF Lrint
<1> QED  BY <1>1, <1>3 DEF VerifierWord, HostWord

\* The scripts see the features that the engine sent, where both read the same
\* numbers (hft_engine_linux.cpp:51-60, verify_bitexact.py:54-71).
LEMMA PlainLineRead ==
  ASSUME SetUp, NEW l \in 1..Len(file), Plain(file[l])
  PROVE  /\ engine = "linux" => VerifierWords(PyFloats(file[l])) = EngineFeatures(engine, file[l])
         /\ engine = "windows" => LegacyWords(PyFloats(file[l])) = EngineFeatures(engine, file[l])
<1> DEFINE line == file[l]
           cxx == [k \in DOMAIN line |-> line[k].cxx]
           floats == FlattenSeq(cxx)
<1>1. line \in Seq(Token)  BY LineTyped
<1>2. PyFloats(line) = floats
  <2>1. \A k \in DOMAIN line : line[k].py = line[k].cxx  BY DEF Plain, PlainToken
  <2> HIDE DEF line
  <2>2. [k \in DOMAIN line |-> line[k].py] = cxx  BY <2>1
  <2> QED  BY <2>2 DEF PyFloats
<1>3. cxx \in Seq(Seq(Ordinary))
  <2> DEFINE L == Seq(Ordinary)
  <2>1. ASSUME NEW k \in 1..Len(line) PROVE line[k].cxx \in L
    <3>1. PlainToken(line[k]) /\ line[k] \in Token  BY <1>1 DEF Plain
    <3> DEFINE s == line[k].cxx
    <3>2. s \in Seq(Float)  BY <3>1 DEF Token
    <3>3. \A j \in DOMAIN s : s[j].kind = "finite" /\ Round(s[j].pieces) \in -LongTop..LongTop
      BY <3>1 DEF PlainToken
    <3> HIDE DEF s
    <3>4. \A j \in 1..Len(s) : s[j] \in Ordinary  BY <3>2, <3>3 DEF Ordinary
    <3>5. s \in Seq(Ordinary)
      <4> DEFINE O == Ordinary
      <4> HIDE DEF O
      <4>1. \A j \in 1..Len(s) : s[j] \in O  BY <3>4 DEF O
      <4>2. s \in Seq(O)  BY <3>2, <4>1
      <4> QED  BY <4>2 DEF O
    <3> QED  BY <3>5 DEF s
  <2>2. DOMAIN line = 1..Len(line) /\ Len(line) \in Nat  BY <1>1
  <2> HIDE DEF line, L
  <2>3. cxx \in Seq(L)  BY <2>1, <2>2
  <2> QED  BY <2>3 DEF L
<1> HIDE DEF cxx
<1>4. floats \in Seq(Ordinary)  BY <1>3, FlattenJoin
<1>5. /\ engine = "linux" => EngineFeatures(engine, line) = HostWords(floats)
      /\ engine = "windows" => EngineFeatures(engine, line) = LegacyWords(floats)
  BY DEF EngineFeatures, cxx
<1>6. VerifierWords(floats) = HostWords(floats)
  <2> HIDE DEF floats
  <2>1. \A k \in DOMAIN floats : VerifierWord(floats[k]) = HostWord(floats[k])
    <3> DEFINE O == Ordinary
    <3>1. \A k \in DOMAIN floats : floats[k] \in O
      <4> HIDE DEF O
      <4>1. floats \in Seq(O)  BY <1>4 DEF O
      <4> QED  BY <4>1
    <3> QED  BY <3>1, SameWord
  <2>2. [k \in DOMAIN floats |-> VerifierWord(floats[k])] = [k \in DOMAIN floats |-> HostWord(floats[k])]
    BY <2>1
  <2> QED  BY <2>2 DEF VerifierWords, HostWords
<1> QED  BY <1>2, <1>5, <1>6

\* The first rows that the verifier compares, and what its verdict says of them.
Compared(m) == IF m = 0 THEN Len(origin) ELSE m
Agrees(x, logits, hasLogits, i) ==
  /\ Decision(ForwardQ88(x[i])) = Answer(i).first
  /\ hasLogits => ForwardQ88(x[i]) = logits[i]

LEMMA VerdictSays ==
  ASSUME BenchInv, log # << >>, NEW m \in 0..Len(origin), Compared(m) > 0
  PROVE  LET read == ReadLog(log)
             x == ParseStream(file, Compared(m), engine = "windows")
             ok == {i \in 1..Compared(m) : Decided(i)} IN
         /\ Verdict(m) = "VERIFIED" <=>
              ok # {} /\ \A i \in ok : Agrees(x, read.logits, read.hasLogits, i)
         /\ Verdict(m) \in {"VERIFIED", "MISMATCH"}
<1> DEFINE read == ReadLog(log)
           n == Compared(m)
           x == ParseStream(file, n, engine = "windows")
           ok == {i \in 1..n : Decided(i)}
           dec == read.dec
<1>1. dec = [i \in 1..Len(origin) |-> IF Decided(i) THEN Answer(i).first ELSE -1]
  BY DecisionsRead
<1>2. Len(origin) \in Nat  BY DataRows
<1>3. Len(dec) = Len(origin)
  <2> DEFINE k == Len(origin)
             D(i) == IF Decided(i) THEN Answer(i).first ELSE -1
  <2>1. k \in Nat /\ dec = [i \in 1..k |-> D(i)]  BY <1>1, <1>2
  <2> HIDE DEF k, D, dec
  <2>2. Len(dec) = k  BY <2>1
  <2> QED  BY <2>2 DEF k
<1>4. n \in 1..Len(origin)
  BY <1>2 DEF Compared
<1>5. (IF m = 0 THEN Len(dec) ELSE Min({m, Len(dec)})) = n
  <2>1. CASE m = 0  BY <1>3, <2>1 DEF Compared
  <2>2. CASE m # 0
    <3> DEFINE S == {m, Len(dec)}
    <3>1. m \in S /\ (\A y \in S : m <= y) /\ \A y \in S : y \in Nat  BY <1>2, <1>3
    <3> HIDE DEF S
    <3>2. Min(S) \in S /\ \A y \in S : Min(S) <= y  BY <3>1 DEF Min
    <3>3. Min(S) = m
      <4> DEFINE b == Min(S)
      <4>1. b <= m /\ m <= b /\ b \in Nat /\ m \in Nat  BY <3>1, <3>2
      <4> HIDE DEF b
      <4>2. b = m  BY <4>1
      <4> QED  BY <4>2 DEF b
    <3> QED  BY <2>2, <3>3 DEF S, Compared
  <2> QED  BY <2>1, <2>2
<1>6. \A i \in 1..n : (dec[i] >= 0 <=> Decided(i)) /\ (Decided(i) => dec[i] = Answer(i).first)
  <2> TAKE i \in 1..n
  <2>1. i \in 1..Len(origin)  BY <1>2, <1>4
  <2>2. dec[i] = IF Decided(i) THEN Answer(i).first ELSE -1  BY <1>1, <2>1
  <2>3. Decided(i) => Answer(i).first \in 0..2  BY DEF Decided
  <2> HIDE DEF dec
  <2> QED  BY <2>2, <2>3
<1>7. {i \in 1..n : dec[i] >= 0} = ok  BY <1>6
<1> DEFINE V(k) == LET y == ParseStream(file, k, engine = "windows")
                       good == {i \in 1..k : dec[i] >= 0}
                   IN IF k = 0 THEN "no rows"
                      ELSE IF /\ good # {}
                              /\ \A i \in good : Decision(ForwardQ88(y[i])) = dec[i]
                              /\ read.hasLogits => \A i \in good : ForwardQ88(y[i]) = read.logits[i]
                      THEN "VERIFIED" ELSE "MISMATCH"
           chosen == IF m = 0 THEN Len(dec) ELSE Min({m, Len(dec)})
<1>8. Verdict(m) = V(chosen)  BY DEF Verdict
<1>9. Verdict(m) = V(n)
  <2>1. chosen = n  BY <1>5
  <2> HIDE DEF V, chosen, n
  <2> QED  BY <1>8, <2>1
<1>10. /\ V(n) = "VERIFIED" <=>
            /\ ok # {}
            /\ \A i \in ok : Decision(ForwardQ88(x[i])) = dec[i]
            /\ read.hasLogits => \A i \in ok : ForwardQ88(x[i]) = read.logits[i]
       /\ V(n) \in {"VERIFIED", "MISMATCH"}
  <2>1. n # 0  BY <1>4
  <2> HIDE DEF read, dec, n, x, ok
  <2> QED  BY <1>7, <2>1 DEF x
<1>11. \A i \in ok : dec[i] = Answer(i).first
  <2> HIDE DEF dec, n
  <2> QED  BY <1>6
<1> HIDE DEF V, dec, read, x, n
<1>12. Verdict(m) = "VERIFIED" <=> ok # {} /\ \A i \in ok : Agrees(x, read.logits, read.hasLogits, i)
  <2> HIDE DEF ok
  <2> QED  BY <1>9, <1>10, <1>11 DEF Agrees
<1>13. Verdict(m) \in {"VERIFIED", "MISMATCH"}  BY <1>9, <1>10
<1> QED  BY <1>12, <1>13 DEF read, x, n

\* What the verifier computes of a row is what a saturating core computes of the
\* features sent, where the row stands at its plain line.
LEMMA RowRecomputed ==
  ASSUME BenchInv, NEW n \in Nat, NEW i \in 1..n, i \in 1..Len(origin),
         origin[i].line = i, Plain(file[i])
  PROVE  LET x == ParseStream(file, n, engine = "windows") IN
         /\ x[i] = origin[i].asked
         /\ ForwardQ88(x[i]) = CoreScores("exact", origin[i].asked)
<1> DEFINE x == ParseStream(file, n, engine = "windows")
           asked == origin[i].asked
<1>1. SetUp /\ RowKept(i) /\ origin \in Seq(Origin)  BY DEF BenchInv, LogKept, Types
<1>2. i \in 1..Len(file) /\ asked = EngineFeatures(engine, file[i])  BY <1>1 DEF RowKept
<1>3. engine \in {"linux", "windows"} /\ Len(file) \in Nat /\ asked \in Features
  <2>1. origin[i] \in Origin  BY <1>1
  <2>2. file \in Seq(Seq(Token))  BY <1>1 DEF SetUp
  <2> QED  BY <1>1, <2>1, <2>2 DEF SetUp, Origin
<1>4. x[i] = IF engine = "windows" THEN LegacyWords(PyFloats(file[i]))
             ELSE VerifierWords(PyFloats(file[i]))
  <2>1. ~(i > Len(file))  BY <1>2, <1>3
  <2> QED  BY <2>1 DEF ParseStream
<1>5. x[i] = asked
  <2> HIDE DEF x, asked
  <2> QED  BY <1>1, <1>2, <1>3, <1>4, PlainLineRead
<1> HIDE DEF x, asked
<1>6. CoreScores("exact", asked) = ForwardQ88(asked)  BY <1>3, CoreIsEmulated
<1> QED  BY <1>5, <1>6 DEF x, asked

\* A wrong number is never verified, whatever else the log and the file hold
\* (verify_bitexact.py:116-135, 205-241).
THEOREM FaultsAreDetected == Spec => []FaultDetected
<1>1. ASSUME BenchInv PROVE FaultDetected
  <2> SUFFICES ASSUME NEW i \in DOMAIN origin,
                      Decided(i), origin[i].line = i, Plain(file[i]),
                      \/ Answer(i).first # Decision(CoreScores("exact", origin[i].asked))
                      \/ /\ engine = "linux" /\ bytes >= 27
                         /\ Answer(i).outs # CoreScores("exact", origin[i].asked)
               PROVE  Verdict(0) # "VERIFIED"
    BY DEF FaultDetected
  <2> DEFINE n == Compared(0)
             read == ReadLog(log)
             x == ParseStream(file, n, engine = "windows")
             ok == {j \in 1..n : Decided(j)}
             right == CoreScores("exact", origin[i].asked)
  <2>1. origin \in Seq(Origin)  BY <1>1 DEF BenchInv, Types
  <2>2. n = Len(origin) /\ n \in Nat /\ i \in 1..n /\ n > 0 /\ origin # << >>
    BY <2>1 DEF Compared
  <2>3. log # << >>  BY <1>1, <2>2 DEF BenchInv, LogKept
  <2>4. Verdict(0) = "VERIFIED" <=>
          ok # {} /\ \A j \in ok : Agrees(x, read.logits, read.hasLogits, j)
    <3>1. 0 \in 0..Len(origin) /\ Compared(0) > 0  BY <2>2
    <3> QED  BY <1>1, <2>3, <3>1, VerdictSays
  <2>5. i \in ok  BY <2>2
  <2>6. ForwardQ88(x[i]) = right
    <3> HIDE DEF n
    <3> QED  BY <1>1, <2>2, RowRecomputed
  <2>7. engine = "linux" /\ bytes >= 27 => read.hasLogits /\ read.logits[i] = Answer(i).outs
    BY <1>1, <2>2, <2>3, ScoresRead
  <2> HIDE DEF n, read, x, ok, right
  <2>8. ~Agrees(x, read.logits, read.hasLogits, i)
    <3>1. \/ Answer(i).first # Decision(right)
          \/ engine = "linux" /\ bytes >= 27 /\ Answer(i).outs # right
      BY DEF right
    <3> QED  BY <2>6, <2>7, <3>1 DEF Agrees
  <2> QED  BY <2>4, <2>5, <2>8
<1> QED  BY <1>1, LogTellsOrigin, PTL

\* An answer that shows its own request's time is the answer to it.
LEMMA OwnAnswerGiven ==
  ASSUME BenchInv, NEW i \in 1..Len(origin), Decided(i), Answer(i).ticks[1] = 5 * i + 1
  PROVE  Answer(i) = ReplyTo(origin[i].asked, i)
<1>1. origin[i].got # << >> /\ Answer(i) = origin[i].got[1] /\ Answer(i).first \in 0..2
  BY DEF Decided, Answered, Answer
<1>2. AnswersUpTo(Answer(i), i)  BY <1>1 DEF BenchInv, LogKept, RowKept
<1>3. Answer(i) # StaleAck
  <2>1. StaleAck.first = 255  BY DEF StaleAck
  <2> QED  BY <1>1, <2>1
<1>4. PICK q \in 1..i : Answer(i) = ReplyTo(origin[q].asked, q)  BY <1>2, <1>3 DEF AnswersUpTo
<1>5. ReplyTo(origin[q].asked, q).ticks[1] = 5 * q + 1
  <2>1. ReplyTo(origin[q].asked, q).ticks = [k \in 1..5 |-> 5 * q + k]  BY DEF ReplyTo
  <2> QED  BY <2>1
<1>6. i \in Nat
  <2>1. origin \in Seq(Origin)  BY DEF BenchInv, Types
  <2> QED  BY <2>1
<1>7. 5 * q + 1 = 5 * i + 1  BY <1>4, <1>5
<1>8. q = i  BY <1>6, <1>7
<1> QED  BY <1>4, <1>8

\* An exact core is never accused, wherever the log is cut and however many of
\* its answers were lost (verify_bitexact.py:54-71, 139-171, 185-241,
\* quantization_analysis.py:60-75).
THEOREM NoFalseAlarms == Spec => []NoFalseAlarm
<1>1. ASSUME BenchInv PROVE NoFalseAlarm
  <2> SUFFICES ASSUME core = "exact", runs = 1, OwnAnswers,
                      \A l \in DOMAIN file : file[l] # Blank /\ Plain(file[l]),
                      engine = "windows" \/ bytes >= 27,
                      NEW m \in DOMAIN origin
               PROVE  /\ (\E i \in 1..m : Decided(i)) => Verdict(m) = "VERIFIED"
                      /\ engine = "windows" =>
                           ParseStreamRows(file, m) = [i \in 1..m |-> origin[i].asked]
    BY DEF NoFalseAlarm
  <2>1. origin \in Seq(Origin) /\ InStep /\ SetUp /\ engine \in {"linux", "windows"}
    BY <1>1 DEF BenchInv, Types, SetUp
  <2>2. m \in 1..Len(origin) /\ m \in Nat /\ m > 0 /\ origin # << >> /\ DOMAIN origin = 1..Len(origin)
    BY <2>1
  <2>3. log # << >>  BY <1>1, <2>2 DEF BenchInv, LogKept
  <2>4. \A i \in 1..Len(origin) : origin[i].line = i  BY <2>1 DEF InStep
  <2>5. \A i \in 1..m : i \in 1..Len(origin)  BY <2>2
  <2>6. ASSUME NEW i \in 1..m
        PROVE  /\ origin[i].line = i /\ i \in 1..Len(file) /\ Plain(file[i])
               /\ origin[i].asked = EngineFeatures(engine, file[i])
    <3>1. i \in 1..Len(origin) /\ origin[i].line = i  BY <2>4, <2>5
    <3>2. RowKept(i)  BY <1>1, <3>1 DEF BenchInv, LogKept
    <3>3. i \in 1..Len(file) /\ origin[i].asked = EngineFeatures(engine, file[i])
      BY <3>1, <3>2 DEF RowKept
    <3>4. DOMAIN file = 1..Len(file)
      <4> DEFINE L == Seq(Token)
      <4>1. file \in Seq(L)  BY <2>1 DEF SetUp
      <4> HIDE DEF L
      <4> QED  BY <4>1
    <3> QED  BY <3>1, <3>3, <3>4
  <2>7. ASSUME \E i \in 1..m : Decided(i) PROVE Verdict(m) = "VERIFIED"
    <3> DEFINE n == Compared(m)
               read == ReadLog(log)
               x == ParseStream(file, n, engine = "windows")
               ok == {j \in 1..n : Decided(j)}
    <3>1. n = m  BY <2>2 DEF Compared
    <3>2. Verdict(m) = "VERIFIED" <=>
            ok # {} /\ \A j \in ok : Agrees(x, read.logits, read.hasLogits, j)
      <4>1. m \in 0..Len(origin) /\ Compared(m) > 0  BY <2>2, <3>1
      <4> QED  BY <1>1, <2>3, <4>1, VerdictSays
    <3>3. ok # {}  BY <2>7, <3>1
    <3>4. ASSUME NEW j \in ok PROVE Agrees(x, read.logits, read.hasLogits, j)
      <4>1. j \in 1..m /\ j \in 1..Len(origin) /\ Decided(j)  BY <2>5, <3>1
      <4>2. origin[j].line = j /\ Plain(file[j])  BY <2>6, <4>1
      <4> DEFINE asked == origin[j].asked
                 right == CoreScores("exact", asked)
      <4>3. ForwardQ88(x[j]) = right
        <5>1. n \in Nat /\ j \in 1..n  BY <2>2, <3>1, <4>1
        <5> HIDE DEF n
        <5> QED  BY <1>1, <4>1, <4>2, <5>1, RowRecomputed
      <4>4. Answer(j) = ReplyTo(asked, j)
        <5>1. Answer(j).ticks[1] = 5 * j + 1  BY <2>2, <4>1 DEF OwnAnswers
        <5> QED  BY <1>1, <4>1, <5>1, OwnAnswerGiven
      <4>5. Answer(j).first = Decision(right) /\ Answer(j).outs = right
        <5> HIDE DEF asked
        <5> QED  BY <4>4 DEF ReplyTo
      <4>6. read.hasLogits => read.logits[j] = Answer(j).outs
        <5>1. engine = "windows" => ~read.hasLogits  BY <1>1, <2>3, ScoresRead
        <5>2. engine = "linux" /\ bytes >= 27 => read.logits[j] = Answer(j).outs
          BY <1>1, <2>3, <4>1, ScoresRead
        <5> HIDE DEF read
        <5> QED  BY <2>1, <5>1, <5>2
      <4> HIDE DEF read, x, right, asked
      <4> QED  BY <4>3, <4>5, <4>6 DEF Agrees
    <3> HIDE DEF ok
    <3> QED  BY <3>2, <3>3, <3>4
  <2>8. ASSUME engine = "windows"
        PROVE  ParseStreamRows(file, m) = [i \in 1..m |-> origin[i].asked]
    <3>1. \A i \in 1..m :
            (IF i > Len(file) THEN Zeros ELSE LegacyWords(PyFloats(file[i]))) = origin[i].asked
      <4> TAKE i \in 1..m
      <4>1. i \in 1..Len(file) /\ Plain(file[i]) /\ origin[i].asked = EngineFeatures(engine, file[i])
        BY <2>6
      <4>2. LegacyWords(PyFloats(file[i])) = origin[i].asked  BY <2>1, <2>8, <4>1, PlainLineRead
      <4>3. ~(i > Len(file))
        <5> DEFINE L == Seq(Token)
        <5>1. file \in Seq(L)  BY <2>1 DEF SetUp
        <5> HIDE DEF L
        <5>2. Len(file) \in Nat  BY <5>1
        <5> QED  BY <4>1, <5>2
      <4> QED  BY <4>2, <4>3
    <3> QED  BY <3>1 DEF ParseStreamRows
  <2> QED  BY <2>7, <2>8
<1> QED  BY <1>1, LogTellsOrigin, PTL

-----------------------------------------------------------------------------
(* What the stimulus reveals.                                               *)

\* A corner as the board gets it.
CornerFeatures(k) == Fit([c \in 1..NFeat |-> Saturate(Truncate(Corners[k][c]))])

\* The stimulus is what make_verify_stream built.
Stimulus == made.by = "verify" => \E s \in Stimuli : made.rows = Build(s.n, s.random)

\* In the first run, answers that were all decisions came each to its own request.
OwnSoFar ==
  runs = 1 =>
    /\ origin = << >> => socket \in {<< >>, <<StaleAck>>}
    /\ (origin # << >> /\ \A i \in 1..Len(origin) : Decided(i)) =>
         /\ socket = << >>
         /\ \A i \in 1..Len(origin) : Answer(i) = ReplyTo(origin[i].asked, i)

FirstRunInv == Stimulus /\ OwnSoFar

\* One line of the first run: a decision is its own answer, and none is left.
LEMMA AskKeepsOwn ==
  ASSUME BenchInv, FirstRunInv, NEW fate \in {"prompt", "late", "lost"}, Ask(fate)
  PROVE  OwnSoFar'
<1>1. PICK n \in Nat : n = Len(origin)  BY DEF BenchInv, Types
<1>2. PICK x : x = EngineFeatures(engine, file[at])  OBVIOUS
<1> DEFINE own == ReplyTo(x, n + 1)
           waiting == IF fate = "prompt" THEN Append(socket, own) ELSE socket
           afterwards == IF fate = "late" THEN <<own>> ELSE << >>
           got == IF waiting = << >> THEN << >> ELSE <<Head(waiting)>>
           o == [line |-> at, run |-> runs, asked |-> x, got |-> got]
           rest == IF waiting = << >> THEN afterwards ELSE Tail(waiting) \o afterwards
<1>3. /\ origin' = Append(origin, o) /\ socket' = rest
      /\ UNCHANGED <<bench, runs>>
  BY <1>1, <1>2 DEF Ask, Request
<1>4. origin \in Seq(Origin) /\ core' = core /\ bytes' = bytes
  BY <1>3 DEF BenchInv, Types, bench
<1> HIDE DEF o
<1>5. /\ Len(origin') = n + 1 /\ origin'[n + 1] = o
      /\ \A i \in 1..n : origin'[i] = origin[i] /\ i \in 1..Len(origin)
  BY <1>1, <1>3, <1>4
<1> SUFFICES ASSUME runs = 1, \A i \in 1..(n + 1) : Decided(i)'
             PROVE  /\ socket' = << >>
                    /\ \A i \in 1..(n + 1) : (Answer(i) = ReplyTo(origin[i].asked, i))'
  <2>1. origin' # << >>  BY <1>5
  <2>2. runs' = runs  BY <1>3
  <2> QED  BY <1>5, <2>1, <2>2 DEF OwnSoFar
<1>6. \A i \in 1..n : Decided(i)
  <2> TAKE i \in 1..n
  <2>1. i \in 1..(n + 1)  OBVIOUS
  <2>2. Decided(i)'  BY <2>1
  <2>3. origin'[i] = origin[i]  BY <1>5
  <2> QED  BY <2>2, <2>3 DEF Decided, Answered, Answer
<1>7. /\ socket \in {<< >>, <<StaleAck>>}
      /\ \A i \in 1..n : Answer(i) = ReplyTo(origin[i].asked, i)
  <2>1. CASE n = 0
    <3>1. origin = << >>
      <4> DEFINE O == Origin
      <4> HIDE DEF O
      <4>1. origin \in Seq(O) /\ Len(origin) = 0  BY <1>1, <1>4, <2>1 DEF O
      <4> QED  BY <4>1
    <3> QED  BY <2>1, <3>1 DEF FirstRunInv, OwnSoFar
  <2>2. CASE n # 0
    <3>1. origin # << >>  BY <1>1, <2>2
    <3> QED  BY <1>1, <1>6, <3>1 DEF FirstRunInv, OwnSoFar
  <2> QED  BY <2>1, <2>2
<1>8. got # << >> /\ got[1].first \in 0..2
  <2>1. n + 1 \in 1..(n + 1)  OBVIOUS
  <2>2. Decided(n + 1)'  BY <2>1
  <2>3. origin'[n + 1].got = got  BY <1>5 DEF o
  <2> QED  BY <2>2, <2>3 DEF Decided, Answered, Answer
<1>9. socket = << >> /\ fate = "prompt"
  <2>1. CASE socket = <<StaleAck>>
    <3> HIDE DEF own
    <3>1. waiting # << >> /\ Head(waiting) = StaleAck  BY <2>1
    <3>2. got[1] = StaleAck
      <4> HIDE DEF waiting
      <4> QED  BY <3>1
    <3>3. StaleAck.first = 255  BY DEF StaleAck
    <3> HIDE DEF got
    <3> QED  BY <1>8, <3>2, <3>3
  <2>2. CASE socket = << >>
    <3>1. fate # "prompt" => waiting = << >>  BY <2>2
    <3> HIDE DEF waiting
    <3> QED  BY <1>8, <2>2, <3>1
  <2> QED  BY <1>7, <2>1, <2>2
<1>10. waiting = <<own>> /\ afterwards = << >>
  <2> HIDE DEF own
  <2> QED  BY <1>9
<1>11. got = <<own>> /\ rest = << >>
  <2> HIDE DEF own, waiting, afterwards
  <2> QED  BY <1>10
<1>12. ASSUME NEW i \in 1..(n + 1) PROVE (Answer(i) = ReplyTo(origin[i].asked, i))'
  <2>1. CASE i \in 1..n
    <3>1. origin'[i] = origin[i] /\ Answer(i) = ReplyTo(origin[i].asked, i)  BY <1>5, <1>7, <2>1
    <3> QED  BY <1>4, <3>1 DEF Answer, ReplyTo
  <2>2. CASE i = n + 1
    <3>1. origin'[i].got = <<own>> /\ origin'[i].asked = x  BY <1>5, <1>11, <2>2 DEF o
    <3>2. PICK r : r = own  OBVIOUS
    <3>3. origin'[i].got[1] = r  BY <3>1, <3>2
    <3>4. r = ReplyTo(x, i)'  BY <1>4, <2>2, <3>2 DEF ReplyTo
    <3>5. r = ReplyTo(origin[i].asked, i)'  BY <1>4, <3>1, <3>4 DEF ReplyTo
    <3> QED  BY <3>3, <3>5 DEF Answer
  <2> QED  BY <2>1, <2>2
<1> QED  BY <1>3, <1>11, <1>12

\* The first run is as the stimulus and its answers make it.
THEOREM FirstRun == Spec => []FirstRunInv
<1>1. Init => FirstRunInv
  <2> SUFFICES ASSUME Init PROVE FirstRunInv  OBVIOUS
  <2>1. Stimulus
    <3> SUFFICES ASSUME made.by = "verify" PROVE \E s \in Stimuli : made.rows = Build(s.n, s.random)
      BY DEF Stimulus
    <3>1. \E s \in Stimuli : made = [by |-> "verify", rows |-> Build(s.n, s.random), raw |-> << >>]
      <4>1. [by |-> "user", rows |-> << >>, raw |-> << >>].by # "verify"  OBVIOUS
      <4>2. \A r : [by |-> "prepare", rows |-> Prepared(r), raw |-> r].by # "verify"  OBVIOUS
      <4> QED  BY <4>1, <4>2 DEF Init
    <3> QED  BY <3>1
  <2>2. socket \in {<< >>, <<StaleAck>>} /\ origin = << >>  BY DEF Init
  <2> QED  BY <2>1, <2>2 DEF FirstRunInv, OwnSoFar
<1>2. BenchInv /\ FirstRunInv /\ [Next]_vars => FirstRunInv'
  <2> SUFFICES ASSUME BenchInv, FirstRunInv, [Next]_vars PROVE FirstRunInv'  OBVIOUS
  <2>1. UNCHANGED bench
    BY DEF Next, SkipBlank, Ask, Finish, Again, vars
  <2>2. Stimulus'  BY <2>1 DEF FirstRunInv, Stimulus, bench
  <2>3. ASSUME UNCHANGED <<socket, origin, runs>> PROVE OwnSoFar'
    <3>1. core' = core /\ bytes' = bytes  BY <2>1 DEF bench
    <3> QED  BY <2>3, <3>1 DEF FirstRunInv, OwnSoFar, Decided, Answered, Answer, ReplyTo
  <2>4. OwnSoFar'
    <3>1. CASE SkipBlank  BY <2>3, <3>1 DEF SkipBlank
    <3>2. CASE \E fate \in {"prompt", "late", "lost"} : Ask(fate)  BY <3>2, AskKeepsOwn
    <3>3. CASE Finish  BY <2>3, <3>3 DEF Finish
    <3>4. CASE Again
      <4>1. runs' # 1  BY <3>4 DEF Again, BenchInv, Types
      <4> QED  BY <4>1 DEF OwnSoFar
    <3>5. CASE UNCHANGED vars  BY <2>3, <3>5 DEF vars
    <3> QED  BY <3>1, <3>2, <3>3, <3>4, <3>5 DEF Next
  <2> QED  BY <2>2, <2>4 DEF FirstRunInv
<1> QED  BY <1>1, <1>2, LogTellsOrigin, PTL DEF Spec

\* There are nine corners at least.
LEMMA NineCorners == Corners \in Seq(Row) /\ Len(Corners) \in Nat /\ Len(Corners) >= 9
<1> DEFINE first == <<Full(0), Full(Highest), Full(Lowest), Full(Grain), Full(-Grain),
                      Tile(Highest, Lowest), Tile(Lowest, Highest),
                      Linspace(Lowest, Highest), Linspace(Highest, Lowest)>>
           pairs == FlattenSeq([k \in 1..NFeat |-> <<OneHot(Highest, k), OneHot(Lowest, k)>>])
<1>1. Corners \in Seq(Row)  BY CornersTyped
<1>2. Corners = first \o pairs  BY DEF Corners
<1>3. Len(first) = 9  OBVIOUS
<1>4. pairs \in Seq({OneHot(a, k) : a \in {Highest, Lowest}, k \in 1..NFeat})
  <2> DEFINE S == {OneHot(a, k) : a \in {Highest, Lowest}, k \in 1..NFeat}
             L == Seq(S)
  <2>1. \A k \in 1..NFeat : OneHot(Highest, k) \in S /\ OneHot(Lowest, k) \in S  OBVIOUS
  <2> HIDE DEF S
  <2>2. \A k \in 1..NFeat : <<OneHot(Highest, k), OneHot(Lowest, k)>> \in L  BY <2>1
  <2>3. NFeat \in Nat  BY StreamAssumption
  <2> HIDE DEF L
  <2>4. [k \in 1..NFeat |-> <<OneHot(Highest, k), OneHot(Lowest, k)>>] \in Seq(L)  BY <2>2, <2>3
  <2>5. pairs \in Seq(S)  BY <2>4, FlattenJoin DEF L
  <2> QED  BY <2>5 DEF S
<1>5. Len(pairs) \in Nat
  <2> HIDE DEF pairs
  <2> QED  BY <1>4
<1> HIDE DEF first, pairs
<1>6. Len(first \o pairs) = Len(first) + Len(pairs)
  <2>1. Len(first) \in Nat  BY <1>3
  <2> QED  BY <1>5, <2>1, JoinedParts
<1> QED  BY <1>1, <1>2, <1>3, <1>5, <1>6

\* The first rows of a stimulus are its corners.
LEMMA CornersFirst ==
  ASSUME NEW n \in Nat, NEW random \in Seq(Row),
         NEW k \in 1..9, k \in 1..Len(Build(n, random))
  PROVE  Fit(Build(n, random)[k]) = CornerFeatures(k)
<1> DEFINE rows == Corners \o random
           m == IF n < Len(rows) THEN n ELSE Len(rows)
           made_(r) == [c \in 1..NFeat |-> Saturate(Truncate(rows[r][c]))]
           R == Row
<1>1. Corners \in Seq(R) /\ random \in Seq(R) /\ k \in 1..Len(Corners)  BY NineCorners
<1> HIDE DEF R
<1>2. Len(rows) \in Nat /\ rows[k] = Corners[k]  BY <1>1
<1>3. Build(n, random) = [r \in 1..m |-> made_(r)]  BY DEF Build
<1> HIDE DEF rows
<1>4. m \in Nat  BY <1>2
<1> DEFINE b == Build(n, random)
<1>5. b = [r \in 1..m |-> made_(r)] /\ k \in 1..Len(b)  BY <1>3
<1> HIDE DEF m, b, made_
<1>6. Len(b) = m  BY <1>4, <1>5
<1>7. b[k] = made_(k)  BY <1>5, <1>6
<1>8. made_(k) = [c \in 1..NFeat |-> Saturate(Truncate(Corners[k][c]))]
  BY <1>2 DEF made_
<1> QED  BY <1>7, <1>8 DEF b, CornerFeatures

\* The lines of a stimulus are plain.
LEMMA StimulusIsPlain ==
  ASSUME BenchInv, made.by = "verify"
  PROVE  \A l \in DOMAIN file : file[l] # Blank /\ Plain(file[l])
<1> DEFINE W == [1..NFeat -> Word]
           rows == made.rows
<1>1. rows \in Seq(W) /\ file = SaveTxt(rows)  BY DEF BenchInv, SetUp
<1> HIDE DEF rows, W
<1>2. file = [r \in DOMAIN rows |-> [k \in DOMAIN rows[r] |-> Printed(rows[r][k])]]
  BY <1>1 DEF SaveTxt
<1> TAKE l \in DOMAIN file
<1> DEFINE row == rows[l]
           line == [k \in DOMAIN row |-> Printed(row[k])]
<1>3. row \in W /\ file[l] = line
  <2>1. l \in DOMAIN rows  BY <1>2
  <2> QED  BY <1>1, <1>2, <2>1
<1> HIDE DEF row
<1>4. DOMAIN row = 1..NFeat /\ NFeat \in Nat /\ NFeat > 1 /\ \A k \in 1..NFeat : row[k] \in Word
  BY <1>3, StreamAssumption DEF W
<1>5. ASSUME NEW k \in 1..NFeat PROVE PlainToken(line[k])
  <2>1. PICK f \in Float : /\ Printed(row[k]) = Number(f)
                           /\ f.kind = "finite" /\ Round(f.pieces) = row[k]
    BY <1>4, PrintedRestored
  <2>2. line[k] = Number(f)  BY <1>4, <2>1
  <2>3. row[k] \in -LongTop..LongTop
    <3>1. LongTop \in Nat /\ Top \in Nat /\ Top < LongTop /\ row[k] \in Word
      <4>1. Top \in Nat /\ IntTop \in Nat /\ LongTop \in Nat /\ Top < IntTop /\ IntTop < LongTop
        BY WidthAssumption
      <4> QED  BY <1>4, <4>1
    <3>2. row[k] \in (-Top - 1)..Top  BY <3>1 DEF Word, Bottom
    <3> QED  BY <3>1, <3>2
  <2>4. Number(f).cxx = <<f>> /\ Number(f).py = <<f>>  BY DEF Number
  <2>5. \A j \in DOMAIN <<f>> : <<f>>[j] = f  OBVIOUS
  <2> HIDE DEF line
  <2> QED  BY <2>1, <2>2, <2>3, <2>4, <2>5 DEF PlainToken
<1>6. DOMAIN line = 1..NFeat  BY <1>4
<1>7. line # Blank
  <2>1. 1 \in DOMAIN line  BY <1>4, <1>6
  <2> HIDE DEF line
  <2> QED  BY <2>1 DEF Blank
<1> HIDE DEF line
<1> QED  BY <1>3, <1>5, <1>6, <1>7 DEF Plain

\* A sum that leaves the word by less than its range wraps to another word than
\* the bound it saturates to.
LEMMA WrapsApart ==
  ASSUME NEW s \in Int,
         s \in (Top + 1)..(3 * Top + 1) \cup (3 * Bottom + 1)..(Bottom - 1)
  PROVE  Low(s, Top) # Saturate(s)
<1> DEFINE n == 2 * (Top + 1)
<1>1. Top \in Nat /\ n \in Nat \ {0} /\ Low(s, Top) = ((s + Top + 1) % n) - (Top + 1)
  BY WidthAssumption DEF Low
<1>2. CASE s \in (Top + 1)..(3 * Top + 1)
  <2> DEFINE q == s + Top + 1 - n
  <2>1. q \in 0..(n - 1) /\ q < n - 1 /\ s + Top + 1 = 1 * n + q  BY <1>1, <1>2
  <2> HIDE DEF q
  <2>2. (s + Top + 1) % n = q
    <3> HIDE DEF n
    <3>1. 1 \in Int /\ n \in Nat \ {0} /\ q \in 0..(n - 1)  BY <1>1, <2>1
    <3>2. (1 * n + q) % n = q  BY <3>1, DivisionRestores
    <3> QED  BY <2>1, <3>2
  <2>3. Low(s, Top) < Top  BY <1>1, <2>1, <2>2
  <2>4. Saturate(s) = Top  BY <1>1, <1>2 DEF Saturate
  <2> QED  BY <1>1, <2>3, <2>4
<1>3. CASE s \in (3 * Bottom + 1)..(Bottom - 1)
  <2> DEFINE q == s + Top + 1 + n
  <2>1. q \in 0..(n - 1) /\ q > 0 /\ s + Top + 1 = (-1) * n + q
    BY <1>1, <1>3 DEF Bottom
  <2> HIDE DEF q
  <2>2. (s + Top + 1) % n = q
    <3> HIDE DEF n
    <3>1. -1 \in Int /\ n \in Nat \ {0} /\ q \in 0..(n - 1)  BY <1>1, <2>1
    <3>2. ((-1) * n + q) % n = q  BY <3>1, DivisionRestores
    <3> QED  BY <2>1, <3>2
  <2>3. Low(s, Top) > Bottom  BY <1>1, <2>1, <2>2 DEF Bottom
  <2>4. Saturate(s) = Bottom  BY <1>1, <1>3 DEF Saturate, Bottom
  <2> QED  BY <1>1, <2>3, <2>4 DEF Bottom
<1> QED  BY <1>2, <1>3

\* Where the exact sums overflow the last layer, the core without saturation gives
\* other scores.
LEMMA OverflowShows ==
  ASSUME NEW x \in Features, OverflowsAt(x)
  PROVE  CoreScores("faulty", x) # CoreScores("exact", x)
<1> DEFINE S == [j \in DOMAIN Hidden |-> Relu(SumOf(Hidden[j], x))]
           H(kind) == [j \in DOMAIN Hidden |-> Relu(CoreNeuron(kind, Hidden[j], x))]
           n == Len(Hidden)
           Beyond == (Top + 1)..(3 * Top + 1) \cup (3 * Bottom + 1)..(Bottom - 1)
<1>1. /\ Neurons(Hidden, Inputs) /\ Neurons(Output, n) /\ Inputs \in Nat /\ n \in Nat
      /\ DOMAIN Hidden = 1..n /\ DOMAIN Output = 1..3
  <2>1. Neurons(Hidden, Inputs) /\ Neurons(Output, Len(Hidden)) /\ Len(Output) = 3
    BY NetworkAssumption
  <2>2. Hidden \in Seq(Seq(Word)) /\ Output \in Seq(Seq(Word))  BY <2>1 DEF Neurons
  <2> QED  BY <2>1, <2>2, StreamAssumption
<1>2. \A j \in 1..Inputs : x[j] \in Word  BY DEF Features
<1>3. Top \in Nat  BY WidthAssumption
<1>4. \A j \in 1..n : SumOf(Hidden[j], x) \in Word  BY <1>1 DEF OverflowsAt
<1>5. ASSUME NEW kind PROVE H(kind) = S
  <2>1. ASSUME NEW j \in 1..n PROVE CoreNeuron(kind, Hidden[j], x) = SumOf(Hidden[j], x)
    <3> DEFINE v == SumOf(Hidden[j], x)
    <3>1. CoreNeuron(kind, Hidden[j], x) = IF kind = "faulty" THEN Low(v, Top) ELSE Saturate(v)
      BY <1>1, <1>2, NeuronIsEmulated
    <3>2. v \in Word  BY <1>4
    <3> HIDE DEF v
    <3>3. Low(v, Top) = v
      <4>1. v \in (-Top - 1)..Top  BY <3>2 DEF Word, Bottom
      <4> QED  BY <1>3, <4>1, LowKeeps
    <3>4. Saturate(v) = v  BY <3>2, WordsOfFloats
    <3> QED  BY <3>1, <3>3, <3>4 DEF v
  <2> QED  BY <1>1, <2>1
<1>6. \A j \in 1..n : S[j] \in Word
  <2>1. \A w \in Word : Relu(w) \in Word  BY WordsOfFloats DEF Relu
  <2> QED  BY <1>1, <1>4, <2>1
<1>7. PICK k \in 1..3 : SumOf(Output[k], S) \in Beyond  BY <1>1 DEF OverflowsAt
<1>8. ASSUME NEW kind PROVE CoreScores(kind, x)[k] = CoreNeuron(kind, Output[k], S)
  <2>1. CoreScores(kind, x) = [j \in DOMAIN Output |-> CoreNeuron(kind, Output[j], H(kind))]
    BY DEF CoreScores
  <2> HIDE DEF H, S
  <2> QED  BY <1>1, <1>5, <2>1
<1> DEFINE v == SumOf(Output[k], S)
<1>9. /\ v \in Int
      /\ CoreNeuron("faulty", Output[k], S) = Low(v, Top)
      /\ CoreNeuron("exact", Output[k], S) = Saturate(v)
  <2> HIDE DEF S
  <2> QED  BY <1>1, <1>6, NeuronIsEmulated
<1> HIDE DEF v, S
<1>10. Low(v, Top) # Saturate(v)  BY <1>7, <1>9, WrapsApart DEF v
<1> QED  BY <1>8, <1>9, <1>10

\* A core without saturation does not pass, for every network of which one of the
\* first nine corners overflows: its exact sums fit the hidden layer and leave the
\* word in the output layer.  The stimulus reveals what the network lets it reveal
\* (make_verify_stream.py:6-13, 34-50, verify_bitexact.py:205-241).
THEOREM FaultyCoreRevealed ==
  (\E k \in 1..9 : OverflowsAt(CornerFeatures(k))) => (Spec => []StimulusReveals)
<1> SUFFICES ASSUME NEW corner \in 1..9, OverflowsAt(CornerFeatures(corner))
             PROVE  Spec => []StimulusReveals
  OBVIOUS
<1>1. ASSUME BenchInv, FirstRunInv PROVE StimulusReveals
  <2> SUFFICES ASSUME made.by = "verify", core = "faulty", engine = "linux", bytes >= 27,
                      runs = 1, Len(origin) >= 9, \A i \in DOMAIN origin : Decided(i)
               PROVE  Verdict(0) = "MISMATCH"
    BY DEF StimulusReveals
  <2>1. PICK k \in 1..9 : k = corner /\ OverflowsAt(CornerFeatures(k))  OBVIOUS
  <2>2. origin \in Seq(Origin) /\ SetUp /\ InStep  BY <1>1 DEF BenchInv, Types
  <2>3. k \in 1..Len(origin) /\ Len(origin) \in Nat /\ origin # << >>
        /\ DOMAIN origin = 1..Len(origin)
    BY <2>2
  <2>4. log # << >>  BY <1>1, <2>3 DEF BenchInv, LogKept
  <2>5. \A l \in DOMAIN file : file[l] # Blank /\ Plain(file[l])  BY <1>1, StimulusIsPlain
  <2>6. origin[k].line = k  BY <2>2, <2>3, <2>5 DEF InStep
  <2>7. k \in 1..Len(file) /\ k \in DOMAIN file
    <3>1. RowKept(k)  BY <1>1, <2>3 DEF BenchInv, LogKept
    <3>2. k \in 1..Len(file)  BY <2>6, <3>1 DEF RowKept
    <3> DEFINE L == Seq(Token)
    <3>3. file \in Seq(L)  BY <2>2 DEF SetUp
    <3> HIDE DEF L
    <3> QED  BY <3>2, <3>3
  <2>8. origin[k].asked = CornerFeatures(k)
    <3>1. origin[k].asked = Fit(made.rows[k])
      <4>1. StimulusSurvives  BY <1>1, StimulusKept
      <4> QED  BY <2>3, <2>6, <4>1 DEF StimulusSurvives
    <3>2. PICK s \in Stimuli : made.rows = Build(s.n, s.random)
      BY <1>1 DEF FirstRunInv, Stimulus
    <3>3. s.n \in Nat /\ s.random \in Seq(Row)  BY FilesAssumption DEF Row
    <3>4. k \in 1..Len(made.rows)
      <4> DEFINE W == [1..NFeat -> Word]
                 rows == made.rows
      <4>1. rows \in Seq(W) /\ file = SaveTxt(rows)  BY <2>2 DEF SetUp
      <4> HIDE DEF W, rows
      <4>2. DOMAIN file = DOMAIN rows  BY <4>1 DEF SaveTxt
      <4>3. k \in 1..Len(rows)  BY <2>7, <4>1, <4>2
      <4> QED  BY <4>3 DEF rows
    <3> QED  BY <3>1, <3>2, <3>3, <3>4, CornersFirst
  <2> DEFINE n == Compared(0)
             read == ReadLog(log)
             x == ParseStream(file, n, engine = "windows")
             ok == {j \in 1..n : Decided(j)}
             asked == origin[k].asked
  <2>9. n = Len(origin) /\ k \in 1..n /\ n \in Nat /\ n > 0  BY <2>3 DEF Compared
  <2>10. /\ Verdict(0) = "VERIFIED" <=>
              ok # {} /\ \A j \in ok : Agrees(x, read.logits, read.hasLogits, j)
         /\ Verdict(0) \in {"VERIFIED", "MISMATCH"}
    <3>1. 0 \in 0..Len(origin) /\ Compared(0) > 0  BY <2>9
    <3> QED  BY <1>1, <2>4, <3>1, VerdictSays
  <2>11. k \in ok /\ Decided(k)  BY <2>3, <2>9
  <2>12. ForwardQ88(x[k]) = CoreScores("exact", asked)
    <3> HIDE DEF n
    <3> QED  BY <1>1, <2>3, <2>5, <2>6, <2>7, <2>9, RowRecomputed
  <2>13. read.hasLogits /\ read.logits[k] = Answer(k).outs
    BY <1>1, <2>3, <2>4, <2>11, ScoresRead
  <2>14. Answer(k).outs = CoreScores("faulty", asked)
    <3>1. Answer(k) = ReplyTo(asked, k)
      BY <1>1, <2>3 DEF FirstRunInv, OwnSoFar
    <3> HIDE DEF asked
    <3> QED  BY <3>1 DEF ReplyTo
  <2>15. CoreScores("faulty", asked) # CoreScores("exact", asked)
    <3>1. asked \in Features
      <4> DEFINE O == Origin
      <4> HIDE DEF O
      <4>1. origin \in Seq(O)  BY <2>2 DEF O
      <4>2. origin[k] \in O  BY <2>3, <4>1
      <4> QED  BY <4>2 DEF O, Origin
    <3>2. OverflowsAt(asked)  BY <2>1, <2>8
    <3> HIDE DEF asked
    <3> QED  BY <3>1, <3>2, OverflowShows
  <2> HIDE DEF n, read, x, ok, asked
  <2>16. ~Agrees(x, read.logits, read.hasLogits, k)
    BY <2>12, <2>13, <2>14, <2>15 DEF Agrees
  <2> QED  BY <2>10, <2>11, <2>16
<1> QED  BY <1>1, LogTellsOrigin, FirstRun, PTL
=============================================================================
