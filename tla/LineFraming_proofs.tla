------------------------- MODULE LineFraming_proofs -------------------------
(***************************************************************************)
(* Theorems about LineFraming, for all lines, all buffer sizes and every way *)
(* to cut the streams: the panel hears each status once, whole and in order, *)
(* and the engine loses no character of a command.  The first part says how  *)
(* a text is cut into lines, by induction on the text; the rest needs only   *)
(* that whatever is under way ends with a line.                             *)
(***************************************************************************)
EXTENDS LineFraming, DataInduction

-----------------------------------------------------------------------------
(* How a text is cut.                                                       *)

Char == Letter \cup {Newline}

\* Lines are texts.
LEMMA LettersAreChars == Seq(Letter) \subseteq Seq(Char)
<1>1. Letter \subseteq Char  BY DEF Char
<1> QED  BY <1>1

\* The recursive function of the rests exists.
LEMMA RestsUnfold ==
  ASSUME NEW s, Len(s) \in Nat
  PROVE  Rests(s) = [n \in 0..Len(s) |->
                       IF n = 0 THEN << >>
                       ELSE IF s[n] = Newline THEN << >> ELSE Append(Rests(s)[n - 1], s[n])]
<1> DEFINE Next1(g, n) == IF s[n] = Newline THEN << >> ELSE Append(g[n - 1], s[n])
           Is(g, top) == g = [n \in 0..top |-> IF n = 0 THEN << >> ELSE Next1(g, n)]
           S == {top \in Nat : \E g : Is(g, top)}
<1>1. 0 \in S
  <2> DEFINE g == [n \in 0..0 |-> << >>]
  <2>1. g = [n \in 0..0 |-> IF n = 0 THEN << >> ELSE Next1(g, n)]
    <3> HIDE DEF Next1
    <3> QED  OBVIOUS
  <2> QED  BY <2>1
<1>2. ASSUME NEW top \in Nat, top \in S PROVE top + 1 \in S
  <2>1. PICK g : Is(g, top)  BY <1>2
  <2> DEFINE h == [n \in 0..(top + 1) |-> IF n <= top THEN g[n] ELSE Next1(g, n)]
  <2>2. \A n \in 0..(top + 1) : h[n] = IF n = 0 THEN << >> ELSE Next1(h, n)
    <3> TAKE n \in 0..(top + 1)
    <3>1. CASE n = 0  BY <2>1, <3>1
    <3>2. CASE n # 0 /\ n <= top
      <4>1. n \in 0..top /\ n - 1 \in 0..(top + 1) /\ n - 1 <= top  BY <3>2
      <4>2. h[n] = g[n] /\ h[n - 1] = g[n - 1]  BY <3>2, <4>1
      <4>3. g[n] = Next1(g, n)
        <5> HIDE DEF Next1
        <5> QED  BY <2>1, <3>2, <4>1
      <4> QED  BY <3>2, <4>2, <4>3
    <3>3. CASE n = top + 1
      <4>1. n # 0 /\ ~(n <= top) /\ n - 1 \in 0..(top + 1) /\ n - 1 <= top  BY <3>3
      <4>2. h[n - 1] = g[n - 1]  BY <4>1
      <4>3. h[n] = Next1(g, n)
        <5> HIDE DEF Next1
        <5> QED  BY <4>1
      <4> QED  BY <4>1, <4>2, <4>3
    <3> QED  BY <3>1, <3>2, <3>3
  <2>3. h = [n \in 0..(top + 1) |-> h[n]]  OBVIOUS
  <2> HIDE DEF h, Next1
  <2>4. Is(h, top + 1)  BY <2>2, <2>3
  <2> HIDE DEF Is
  <2> QED  BY <2>4
<1>3. Len(s) \in S
  <2> HIDE DEF S
  <2> QED  BY <1>1, <1>2, InductionOnNat
<1> DEFINE chosen == CHOOSE g : Is(g, Len(s))
<1>4. Is(chosen, Len(s))
  <2> HIDE DEF Is
  <2> QED  BY <1>3
<1>5. Rests(s) = chosen  BY DEF Rests
<1> HIDE DEF chosen
<1> QED  BY <1>4, <1>5

\* So does the function of the lines.
LEMMA LinesUnfold ==
  ASSUME NEW s, Len(s) \in Nat
  PROVE  Lines(s) = [n \in 0..Len(s) |->
                       IF n = 0 THEN << >>
                       ELSE IF s[n] = Newline THEN WithLine(Lines(s)[n - 1], Rests(s)[n - 1])
                            ELSE Lines(s)[n - 1]]
<1> DEFINE Next1(g, n) == IF s[n] = Newline THEN WithLine(g[n - 1], Rests(s)[n - 1])
                          ELSE g[n - 1]
           Is(g, top) == g = [n \in 0..top |-> IF n = 0 THEN << >> ELSE Next1(g, n)]
           S == {top \in Nat : \E g : Is(g, top)}
<1>1. 0 \in S
  <2> DEFINE g == [n \in 0..0 |-> << >>]
  <2>1. g = [n \in 0..0 |-> IF n = 0 THEN << >> ELSE Next1(g, n)]
    <3> HIDE DEF Next1
    <3> QED  OBVIOUS
  <2> QED  BY <2>1
<1>2. ASSUME NEW top \in Nat, top \in S PROVE top + 1 \in S
  <2>1. PICK g : Is(g, top)  BY <1>2
  <2> DEFINE h == [n \in 0..(top + 1) |-> IF n <= top THEN g[n] ELSE Next1(g, n)]
  <2>2. \A n \in 0..(top + 1) : h[n] = IF n = 0 THEN << >> ELSE Next1(h, n)
    <3> TAKE n \in 0..(top + 1)
    <3>1. CASE n = 0  BY <2>1, <3>1
    <3>2. CASE n # 0 /\ n <= top
      <4>1. n \in 0..top /\ n - 1 \in 0..(top + 1) /\ n - 1 <= top  BY <3>2
      <4>2. h[n] = g[n] /\ h[n - 1] = g[n - 1]  BY <3>2, <4>1
      <4>3. g[n] = Next1(g, n)
        <5> HIDE DEF Next1
        <5> QED  BY <2>1, <3>2, <4>1
      <4> QED  BY <3>2, <4>2, <4>3
    <3>3. CASE n = top + 1
      <4>1. n # 0 /\ ~(n <= top) /\ n - 1 \in 0..(top + 1) /\ n - 1 <= top  BY <3>3
      <4>2. h[n - 1] = g[n - 1]  BY <4>1
      <4>3. h[n] = Next1(g, n)
        <5> HIDE DEF Next1
        <5> QED  BY <4>1
      <4> QED  BY <4>1, <4>2, <4>3
    <3> QED  BY <3>1, <3>2, <3>3
  <2>3. h = [n \in 0..(top + 1) |-> h[n]]  OBVIOUS
  <2> HIDE DEF h, Next1
  <2>4. Is(h, top + 1)  BY <2>2, <2>3
  <2> HIDE DEF Is
  <2> QED  BY <2>4
<1>3. Len(s) \in S
  <2> HIDE DEF S
  <2> QED  BY <1>1, <1>2, InductionOnNat
<1> DEFINE chosen == CHOOSE g : Is(g, Len(s))
<1>4. Is(chosen, Len(s))
  <2> HIDE DEF Is
  <2> QED  BY <1>3
<1>5. Lines(s) = chosen  BY DEF Lines
<1> HIDE DEF chosen
<1> QED  BY <1>4, <1>5

\* The two functions at one place.
LEMMA CutAt ==
  ASSUME NEW s, Len(s) \in Nat, NEW m \in 0..Len(s)
  PROVE  /\ Rests(s)[m] = IF m = 0 THEN << >>
                          ELSE IF s[m] = Newline THEN << >> ELSE Append(Rests(s)[m - 1], s[m])
         /\ Lines(s)[m] = IF m = 0 THEN << >>
                          ELSE IF s[m] = Newline THEN WithLine(Lines(s)[m - 1], Rests(s)[m - 1])
                               ELSE Lines(s)[m - 1]
<1>1. Rests(s)[m] = IF m = 0 THEN << >>
                    ELSE IF s[m] = Newline THEN << >> ELSE Append(Rests(s)[m - 1], s[m])
  <2> DEFINE F(k) == IF k = 0 THEN << >>
                     ELSE IF s[k] = Newline THEN << >> ELSE Append(Rests(s)[k - 1], s[k])
  <2>1. Rests(s) = [k \in 0..Len(s) |-> F(k)]  BY RestsUnfold
  <2> HIDE DEF F
  <2>2. Rests(s)[m] = F(m)  BY <2>1
  <2> QED  BY <2>2 DEF F
<1>2. Lines(s)[m] = IF m = 0 THEN << >>
                    ELSE IF s[m] = Newline THEN WithLine(Lines(s)[m - 1], Rests(s)[m - 1])
                         ELSE Lines(s)[m - 1]
  <2> DEFINE F(k) == IF k = 0 THEN << >>
                     ELSE IF s[k] = Newline THEN WithLine(Lines(s)[k - 1], Rests(s)[k - 1])
                          ELSE Lines(s)[k - 1]
  <2>1. Lines(s) = [k \in 0..Len(s) |-> F(k)]  BY LinesUnfold
  <2> HIDE DEF F
  <2>2. Lines(s)[m] = F(m)  BY <2>1
  <2> QED  BY <2>2 DEF F
<1> QED  BY <1>1, <1>2

\* Nothing is cut from nothing.
LEMMA CutNothing == RestOf(<< >>) = << >> /\ LinesOf(<< >>) = << >>
<1>1. Len(<< >>) = 0 /\ 0 \in 0..0  OBVIOUS
<1>2. Rests(<< >>)[0] = << >>  BY <1>1, RestsUnfold
<1>3. Lines(<< >>)[0] = << >>  BY <1>1, LinesUnfold
<1> QED  BY <1>1, <1>2, <1>3 DEF RestOf, LinesOf

\* A newline ends the line under way, any other character joins it.
LEMMA CutFurther ==
  ASSUME NEW s \in Seq(Char), NEW c \in Char
  PROVE  /\ RestOf(Append(s, c)) = IF c = Newline THEN << >> ELSE Append(RestOf(s), c)
         /\ LinesOf(Append(s, c)) = IF c = Newline THEN WithLine(LinesOf(s), RestOf(s))
                                   ELSE LinesOf(s)
<1> DEFINE t == Append(s, c)
           n == Len(s)
           S == {m \in Nat : m <= n => Rests(t)[m] = Rests(s)[m] /\ Lines(t)[m] = Lines(s)[m]}
<1>1. /\ n \in Nat /\ Len(t) = n + 1 /\ Len(t) \in Nat /\ t[n + 1] = c
      /\ \A m \in 1..n : t[m] = s[m]
  OBVIOUS
<1> HIDE DEF t, n
<1>2. \A m \in 0..n :
        /\ Rests(s)[m] = IF m = 0 THEN << >>
                          ELSE IF s[m] = Newline THEN << >> ELSE Append(Rests(s)[m - 1], s[m])
        /\ Lines(s)[m] = IF m = 0 THEN << >>
                         ELSE IF s[m] = Newline THEN WithLine(Lines(s)[m - 1], Rests(s)[m - 1])
                              ELSE Lines(s)[m - 1]
  BY <1>1, CutAt DEF n
<1>3. \A m \in 0..(n + 1) :
        /\ Rests(t)[m] = IF m = 0 THEN << >>
                          ELSE IF t[m] = Newline THEN << >> ELSE Append(Rests(t)[m - 1], t[m])
        /\ Lines(t)[m] = IF m = 0 THEN << >>
                         ELSE IF t[m] = Newline THEN WithLine(Lines(t)[m - 1], Rests(t)[m - 1])
                              ELSE Lines(t)[m - 1]
  BY <1>1, CutAt
<1>4. 0 \in S  BY <1>1, <1>2, <1>3
<1>5. ASSUME NEW m \in Nat, m \in S PROVE m + 1 \in S
  <2> SUFFICES ASSUME m + 1 <= n
               PROVE  Rests(t)[m + 1] = Rests(s)[m + 1] /\ Lines(t)[m + 1] = Lines(s)[m + 1]
    OBVIOUS
  <2>1. /\ m + 1 \in 0..n /\ m + 1 \in 0..(n + 1) /\ m + 1 # 0 /\ (m + 1) - 1 = m
        /\ m <= n /\ m + 1 \in 1..n
    BY <1>1
  <2>2. Rests(t)[m] = Rests(s)[m] /\ Lines(t)[m] = Lines(s)[m] /\ t[m + 1] = s[m + 1]
    BY <1>1, <1>5, <2>1
  <2> QED  BY <1>2, <1>3, <2>1, <2>2
<1>6. n \in S
  <2> HIDE DEF S
  <2> QED  BY <1>1, <1>4, <1>5, InductionOnNat
<1>7. Rests(t)[n] = RestOf(s) /\ Lines(t)[n] = LinesOf(s)
  BY <1>1, <1>6 DEF RestOf, LinesOf, n
<1>8. n + 1 \in 0..(n + 1) /\ n + 1 # 0 /\ (n + 1) - 1 = n  BY <1>1
<1>9. RestOf(t) = Rests(t)[n + 1] /\ LinesOf(t) = Lines(t)[n + 1]
  BY <1>1 DEF RestOf, LinesOf
<1> QED  BY <1>1, <1>3, <1>7, <1>8, <1>9 DEF t

\* A rest and lines are made of letters.
LEMMA CutType ==
  ASSUME NEW s \in Seq(Char)
  PROVE  RestOf(s) \in Seq(Letter) /\ LinesOf(s) \in Seq(Seq(Letter))
<1> DEFINE S == {r \in Seq(Char) : RestOf(r) \in Seq(Letter) /\ LinesOf(r) \in Seq(Seq(Letter))}
<1>1. << >> \in S
  <2>1. << >> \in Seq(Char) /\ << >> \in Seq(Letter) /\ << >> \in Seq(Seq(Letter))  OBVIOUS
  <2> QED  BY <2>1, CutNothing
<1>2. ASSUME NEW r \in Seq(Char), NEW c \in Char, r \in S PROVE Append(r, c) \in S
  <2>1. Append(r, c) \in Seq(Char)  OBVIOUS
  <2>2. RestOf(r) \in Seq(Letter) /\ LinesOf(r) \in Seq(Seq(Letter))  BY <1>2
  <2>3. << >> \in Seq(Letter) /\ Append(LinesOf(r), RestOf(r)) \in Seq(Seq(Letter))  BY <2>2
  <2>4. c # Newline => Append(RestOf(r), c) \in Seq(Letter)  BY <2>2 DEF Char
  <2> QED  BY <2>1, <2>2, <2>3, <2>4, CutFurther DEF WithLine
<1> HIDE DEF S
<1>3. Seq(Char) \subseteq S  BY <1>1, <1>2, InductionOnSeq
<1> QED  BY <1>3 DEF S

\* No line ends where there is no newline.
LEMMA CutLetters ==
  ASSUME NEW r \in Seq(Letter)
  PROVE  RestOf(r) = r /\ LinesOf(r) = << >>
<1> DEFINE S == {q \in Seq(Letter) : RestOf(q) = q /\ LinesOf(q) = << >>}
<1>1. << >> \in S
  <2>1. << >> \in Seq(Letter)  OBVIOUS
  <2> QED  BY <2>1, CutNothing
<1>2. ASSUME NEW q \in Seq(Letter), NEW c \in Letter, q \in S PROVE Append(q, c) \in S
  <2>1. Append(q, c) \in Seq(Letter)  OBVIOUS
  <2>2. q \in Seq(Char) /\ c \in Char  BY DEF Char
  <2>3. c # Newline  BY FramingAssumption
  <2>4. RestOf(Append(q, c)) = Append(RestOf(q), c) /\ LinesOf(Append(q, c)) = LinesOf(q)
    BY <2>2, <2>3, CutFurther
  <2> QED  BY <1>2, <2>1, <2>4
<1> HIDE DEF S
<1>3. Seq(Letter) \subseteq S  BY <1>1, <1>2, InductionOnSeq
<1> QED  BY <1>3 DEF S

\* A line that was sent is received as that line, with nothing after it.
LEMMA CutLine ==
  ASSUME NEW l \in Seq(Letter), l # << >>
  PROVE  /\ Terminated(l) \in Seq(Char)
         /\ RestOf(Terminated(l)) = << >> /\ LinesOf(Terminated(l)) = <<l>>
<1>1. l \in Seq(Char) /\ Newline \in Char  BY DEF Char
<1>2. RestOf(l) = l /\ LinesOf(l) = << >>  BY CutLetters
<1>3. Append(<< >>, l) = <<l>>  OBVIOUS
<1>4. Append(l, Newline) \in Seq(Char)  BY <1>1
<1> QED  BY <1>1, <1>2, <1>3, <1>4, CutFurther DEF Terminated, WithLine

\* Joining and appending may be done in either order.
LEMMA AppendJoined ==
  ASSUME NEW s \in Seq(Seq(Letter)), NEW t \in Seq(Seq(Letter)), NEW x \in Seq(Letter)
  PROVE  Append(s \o t, x) = s \o Append(t, x)
<1> DEFINE L == Seq(Letter)
<1>1. s \in Seq(L) /\ t \in Seq(L) /\ s \o t \in Seq(L) /\ <<x>> \in Seq(L) /\ x \in L
  OBVIOUS
<1> HIDE DEF L
<1>2. Append(s \o t, x) = (s \o t) \o <<x>> /\ Append(t, x) = t \o <<x>>
  BY <1>1, AppendIsConcat
<1>3. (s \o t) \o <<x>> = s \o (t \o <<x>>)  BY <1>1, ConcatAssociative
<1> QED  BY <1>2, <1>3

\* It makes no difference whether a text is cut as a whole, or its beginning first
\* and then the rest together with what follows.
LEMMA CutInTwo ==
  ASSUME NEW a \in Seq(Char), NEW b \in Seq(Char)
  PROVE  /\ LinesOf(a \o b) = LinesOf(a) \o LinesOf(RestOf(a) \o b)
         /\ RestOf(a \o b) = RestOf(RestOf(a) \o b)
<1> DEFINE r == RestOf(a)
           S == {q \in Seq(Char) : /\ LinesOf(a \o q) = LinesOf(a) \o LinesOf(r \o q)
                                   /\ RestOf(a \o q) = RestOf(r \o q)}
<1>1. r \in Seq(Letter) /\ LinesOf(a) \in Seq(Seq(Letter))  BY CutType
<1>2. r \in Seq(Char)  BY <1>1 DEF Char
<1> HIDE DEF r
<1>3. << >> \in S
  <2>1. a \o << >> = a /\ r \o << >> = r /\ << >> \in Seq(Char)  BY <1>2
  <2>2. RestOf(r) = r /\ LinesOf(r) = << >>  BY <1>1, CutLetters
  <2>3. LinesOf(a) \o << >> = LinesOf(a)  BY <1>1
  <2> QED  BY <2>1, <2>2, <2>3 DEF r
<1>4. ASSUME NEW q \in Seq(Char), NEW c \in Char, q \in S PROVE Append(q, c) \in S
  <2> DEFINE w == r \o q
             v == a \o q
  <2>1. /\ a \o Append(q, c) = Append(v, c) /\ r \o Append(q, c) = Append(w, c)
        /\ Append(q, c) \in Seq(Char) /\ v \in Seq(Char) /\ w \in Seq(Char)
    BY <1>2
  <2>2. LinesOf(v) = LinesOf(a) \o LinesOf(w) /\ RestOf(v) = RestOf(w)  BY <1>4
  <2> HIDE DEF v, w
  <2>3. LinesOf(w) \in Seq(Seq(Letter)) /\ RestOf(w) \in Seq(Letter)  BY <2>1, CutType
  <2>4. Append(LinesOf(a) \o LinesOf(w), RestOf(w)) = LinesOf(a) \o Append(LinesOf(w), RestOf(w))
    BY <1>1, <2>3, AppendJoined
  <2>5. WithLine(LinesOf(v), RestOf(v)) = LinesOf(a) \o WithLine(LinesOf(w), RestOf(w))
    BY <2>2, <2>4 DEF WithLine
  <2>6. /\ RestOf(Append(v, c)) = IF c = Newline THEN << >> ELSE Append(RestOf(v), c)
        /\ LinesOf(Append(v, c)) = IF c = Newline THEN WithLine(LinesOf(v), RestOf(v))
                                  ELSE LinesOf(v)
    BY <2>1, CutFurther
  <2>7. /\ RestOf(Append(w, c)) = IF c = Newline THEN << >> ELSE Append(RestOf(w), c)
        /\ LinesOf(Append(w, c)) = IF c = Newline THEN WithLine(LinesOf(w), RestOf(w))
                                  ELSE LinesOf(w)
    BY <2>1, CutFurther
  <2>8. /\ LinesOf(Append(v, c)) = LinesOf(a) \o LinesOf(Append(w, c))
        /\ RestOf(Append(v, c)) = RestOf(Append(w, c))
    BY <2>2, <2>5, <2>6, <2>7
  <2> QED  BY <2>1, <2>8
<1> HIDE DEF S
<1>5. Seq(Char) \subseteq S  BY <1>3, <1>4, InductionOnSeq
<1> QED  BY <1>5 DEF S, r

\* What follows a cut of a text that ends with a newline ends with one, too.
LEMMA CutSuffix ==
  ASSUME NEW a \in Seq(Char), NEW b \in Seq(Char), RestOf(a \o b) = << >>
  PROVE  RestOf(b) = << >>
<1> DEFINE S == {q \in Seq(Char) : RestOf(a \o q) = << >> => RestOf(q) = << >>}
<1>1. << >> \in S
  <2>1. << >> \in Seq(Char)  OBVIOUS
  <2> QED  BY <2>1, CutNothing
<1>2. ASSUME NEW q \in Seq(Char), NEW c \in Char, q \in S PROVE Append(q, c) \in S
  <2>1. /\ a \o Append(q, c) = Append(a \o q, c) /\ a \o q \in Seq(Char)
        /\ Append(q, c) \in Seq(Char)
    OBVIOUS
  <2>2. RestOf(a \o q) \in Seq(Char)  BY <2>1, CutType, LettersAreChars
  <2>3. Append(RestOf(a \o q), c) # << >>  BY <2>2, AppendProperties
  <2>4. RestOf(Append(a \o q, c)) = IF c = Newline THEN << >> ELSE Append(RestOf(a \o q), c)
    BY <2>1, CutFurther
  <2>5. c = Newline => RestOf(Append(q, c)) = << >>  BY CutFurther
  <2> QED  BY <2>1, <2>3, <2>4, <2>5
<1> HIDE DEF S
<1>3. Seq(Char) \subseteq S  BY <1>1, <1>2, InductionOnSeq
<1> QED  BY <1>3 DEF S

-----------------------------------------------------------------------------
(* What a text says: its lines and its rest, without the newlines.          *)

Text(s) == FlattenSeq(LinesOf(s)) \o RestOf(s)

\* The lines are joined as one, with or without an empty one at the end.
LEMMA WithLineText ==
  ASSUME NEW ls \in Seq(Seq(Letter)), NEW r \in Seq(Letter)
  PROVE  /\ WithLine(ls, r) \in Seq(Seq(Letter))
         /\ FlattenSeq(ls) \in Seq(Letter)
         /\ FlattenSeq(WithLine(ls, r)) = FlattenSeq(ls) \o r
<1>1. FlattenSeq(ls) \in Seq(Letter)  BY FlattenJoin
<1>2. FlattenSeq(Append(ls, r)) = FlattenSeq(ls) \o r  BY FlattenAppend
<1>3. FlattenSeq(ls) \o << >> = FlattenSeq(ls)  BY <1>1
<1>4. Append(ls, r) \in Seq(Seq(Letter))  OBVIOUS
<1> QED  BY <1>1, <1>2, <1>3, <1>4 DEF WithLine

\* A further character adds itself, and a newline nothing.
LEMMA TextFurther ==
  ASSUME NEW s \in Seq(Char), NEW c \in Char
  PROVE  Text(Append(s, c)) = IF c = Newline THEN Text(s) ELSE Append(Text(s), c)
<1> DEFINE F == FlattenSeq(LinesOf(s))
           r == RestOf(s)
<1>1. r \in Seq(Letter) /\ LinesOf(s) \in Seq(Seq(Letter))  BY CutType
<1>2. F \in Seq(Letter) /\ FlattenSeq(WithLine(LinesOf(s), r)) = F \o r
  BY <1>1, WithLineText
<1>3. CASE c = Newline
  <2>1. RestOf(Append(s, c)) = << >> /\ LinesOf(Append(s, c)) = WithLine(LinesOf(s), r)
    BY <1>3, CutFurther
  <2>2. (F \o r) \o << >> = F \o r
    <3> HIDE DEF F, r
    <3> QED  BY <1>1, <1>2
  <2> QED  BY <1>2, <1>3, <2>1, <2>2 DEF Text
<1>4. CASE c # Newline
  <2>1. RestOf(Append(s, c)) = Append(r, c) /\ LinesOf(Append(s, c)) = LinesOf(s)
    BY <1>4, CutFurther
  <2>2. c \in Letter  BY <1>4 DEF Char
  <2>3. F \o Append(r, c) = Append(F \o r, c)
    <3> HIDE DEF F, r
    <3>1. <<c>> \in Seq(Letter) /\ F \o r \in Seq(Letter)  BY <1>1, <1>2, <2>2
    <3>2. Append(r, c) = r \o <<c>> /\ Append(F \o r, c) = (F \o r) \o <<c>>
      BY <1>1, <2>2, <3>1, AppendIsConcat
    <3> QED  BY <1>1, <1>2, <3>1, <3>2, ConcatAssociative
  <2> QED  BY <1>4, <2>1, <2>3 DEF Text
<1> QED  BY <1>3, <1>4

\* Two texts say together what they say one after the other.
LEMMA TextJoined ==
  ASSUME NEW a \in Seq(Char), NEW b \in Seq(Char)
  PROVE  Text(a) \in Seq(Letter) /\ Text(a \o b) = Text(a) \o Text(b)
<1>1. ASSUME NEW s \in Seq(Char) PROVE Text(s) \in Seq(Letter)
  <2>1. RestOf(s) \in Seq(Letter) /\ LinesOf(s) \in Seq(Seq(Letter))  BY CutType
  <2>2. FlattenSeq(LinesOf(s)) \in Seq(Letter)  BY <2>1, WithLineText
  <2> QED  BY <2>1, <2>2 DEF Text
<1> DEFINE S == {q \in Seq(Char) : Text(a \o q) = Text(a) \o Text(q)}
<1>2. << >> \in S
  <2>1. << >> \in Seq(Char) /\ << >> \in Seq(Seq(Letter)) /\ a \o << >> = a  OBVIOUS
  <2>2. Text(<< >>) = << >>
    <3>1. FlattenSeq(<< >>) = << >>  BY FlattenJoin
    <3> QED  BY <3>1, CutNothing DEF Text
  <2>3. Text(a) \o << >> = Text(a)  BY <1>1
  <2> QED  BY <2>1, <2>2, <2>3
<1>3. ASSUME NEW q \in Seq(Char), NEW c \in Char, q \in S PROVE Append(q, c) \in S
  <2>1. /\ a \o Append(q, c) = Append(a \o q, c) /\ a \o q \in Seq(Char)
        /\ Append(q, c) \in Seq(Char)
    OBVIOUS
  <2>2. Text(Append(a \o q, c)) = IF c = Newline THEN Text(a \o q) ELSE Append(Text(a \o q), c)
    BY <2>1, TextFurther
  <2>3. Text(Append(q, c)) = IF c = Newline THEN Text(q) ELSE Append(Text(q), c)
    BY TextFurther
  <2>4. Text(a \o q) = Text(a) \o Text(q)  BY <1>3
  <2>5. c # Newline => Append(Text(a) \o Text(q), c) = Text(a) \o Append(Text(q), c)
    <3> DEFINE x == Text(a)
               y == Text(q)
    <3>1. x \in Seq(Char) /\ y \in Seq(Char)  BY <1>1, LettersAreChars
    <3> HIDE DEF x, y
    <3>2. <<c>> \in Seq(Char) /\ x \o y \in Seq(Char)  BY <3>1
    <3>3. Append(y, c) = y \o <<c>> /\ Append(x \o y, c) = (x \o y) \o <<c>>
      BY <3>1, <3>2, AppendIsConcat
    <3>4. (x \o y) \o <<c>> = x \o (y \o <<c>>)
      BY <3>1, <3>2, ConcatAssociative
    <3>5. Append(x \o y, c) = x \o Append(y, c)
      BY <3>3, <3>4
    <3> QED  BY <3>5 DEF x, y
  <2> QED  BY <2>1, <2>2, <2>3, <2>4, <2>5
<1> HIDE DEF S
<1>4. Seq(Char) \subseteq S  BY <1>2, <1>3, InductionOnSeq
<1> QED  BY <1>1, <1>4 DEF S

\* getline loses nothing of its piece, and where a text ends with a newline its
\* lines say it all.
LEMMA TextOfLines ==
  ASSUME NEW s \in Seq(Char)
  PROVE  /\ Getlines(s) \in Seq(Seq(Letter)) /\ FlattenSeq(Getlines(s)) = Text(s)
         /\ RestOf(s) = << >> => Getlines(s) = LinesOf(s) /\ FlattenSeq(LinesOf(s)) = Text(s)
<1>1. RestOf(s) \in Seq(Letter) /\ LinesOf(s) \in Seq(Seq(Letter))  BY CutType
<1>2. FlattenSeq(LinesOf(s)) \o << >> = FlattenSeq(LinesOf(s))
  <2>1. FlattenSeq(LinesOf(s)) \in Seq(Letter)  BY <1>1, WithLineText
  <2> QED  BY <2>1
<1>3. /\ WithLine(LinesOf(s), RestOf(s)) \in Seq(Seq(Letter))
      /\ FlattenSeq(WithLine(LinesOf(s), RestOf(s))) = FlattenSeq(LinesOf(s)) \o RestOf(s)
  BY <1>1, WithLineText
<1> QED  BY <1>2, <1>3 DEF Getlines, Text, WithLine

-----------------------------------------------------------------------------
(* The two streams.                                                         *)

FramingType ==
  /\ down \in Seq(Char) /\ up \in Seq(Char)
  /\ buffer \in Seq(Letter)
  /\ {executed, commanded, handled, reported} \subseteq Seq(Seq(Letter))
  /\ whole \in BOOLEAN

\* Whatever is under way ends where a line ends, as both ends send whole lines and
\* TCP cuts only what has been received.
LinesUnderWay == RestOf(down) = << >> /\ RestOf(buffer \o up) = << >>

FramingInv == FramingType /\ LinesUnderWay /\ EngineObeys

\* A piece and what remains make up what was under way.
LEMMA Piece ==
  ASSUME NEW s \in Seq(Char), NEW n \in 1..Len(s)
  PROVE  /\ SubSeq(s, 1, n) \in Seq(Char) /\ SubSeq(s, n + 1, Len(s)) \in Seq(Char)
         /\ s = SubSeq(s, 1, n) \o SubSeq(s, n + 1, Len(s))
<1>1. Len(s) \in Nat /\ 1 \in 1..(Len(s) + 1) /\ n \in 0..Len(s) /\ Len(s) \in n..Len(s)
  OBVIOUS
<1>2. SubSeq(s, 1, n) \o SubSeq(s, n + 1, Len(s)) = SubSeq(s, 1, Len(s))
  BY <1>1, ConcatAdjacentSubSeq
<1>3. SubSeq(s, 1, Len(s)) = s  BY SubSeqFull
<1>4. SubSeq(s, 1, n) \in Seq(Char) /\ SubSeq(s, n + 1, Len(s)) \in Seq(Char)
  OBVIOUS
<1> QED  BY <1>2, <1>3, <1>4

\* Two sequences joined can be taken apart.
LEMMA JoinedAgain ==
  ASSUME NEW L, NEW s \in Seq(L), NEW t \in Seq(L)
  PROVE  SubSeq(s \o t, 1, Len(s)) = s /\ SubSeq(s \o t, Len(s) + 1, Len(s \o t)) = t
<1> DEFINE j == s \o t
           a == SubSeq(j, 1, Len(s))
           b == SubSeq(j, Len(s) + 1, Len(j))
<1>1. /\ j \in Seq(L) /\ Len(j) = Len(s) + Len(t) /\ Len(s) \in Nat /\ Len(t) \in Nat
      /\ \A m \in 1..Len(s) : j[m] = s[m]
      /\ \A m \in 1..Len(t) : j[Len(s) + m] = t[m]
  OBVIOUS
<1> HIDE DEF j
<1>2. /\ a \in Seq(L) /\ Len(a) = Len(s) /\ \A m \in 1..Len(s) : a[m] = s[m]
      /\ b \in Seq(L) /\ Len(b) = Len(t) /\ \A m \in 1..Len(t) : b[m] = t[m]
  BY <1>1
<1> HIDE DEF a, b
<1>3. a = s /\ b = t  BY <1>2, SeqEqual
<1> QED  BY <1>3 DEF a, b, j

\* A line that follows a text of whole lines is a further line.
LEMMA LineFollows ==
  ASSUME NEW s \in Seq(Char), RestOf(s) = << >>, NEW l \in Seq(Letter), l # << >>
  PROVE  /\ s \o Terminated(l) \in Seq(Char)
         /\ LinesOf(s \o Terminated(l)) = Append(LinesOf(s), l)
         /\ RestOf(s \o Terminated(l)) = << >>
<1> DEFINE t == Terminated(l)
           L == Seq(Letter)
<1>1. t \in Seq(Char) /\ RestOf(t) = << >> /\ LinesOf(t) = <<l>>  BY CutLine
<1>2. LinesOf(s) \in Seq(L) /\ l \in L  BY CutType
<1> HIDE DEF t, L
<1>3. << >> \o t = t  BY <1>1
<1>4. LinesOf(s \o t) = LinesOf(s) \o <<l>> /\ RestOf(s \o t) = << >>
  <2>1. /\ LinesOf(s \o t) = LinesOf(s) \o LinesOf(RestOf(s) \o t)
        /\ RestOf(s \o t) = RestOf(RestOf(s) \o t)
    BY <1>1, CutInTwo
  <2>2. RestOf(s) \o t = t  BY <1>3
  <2> QED  BY <1>1, <2>1, <2>2
<1>5. LinesOf(s) \o <<l>> = Append(LinesOf(s), l)  BY <1>2, AppendIsConcat
<1>6. s \o t \in Seq(Char)  BY <1>1
<1> QED  BY <1>4, <1>5, <1>6 DEF t

\* At first nothing is under way.
LEMMA FramingInit == Init => FramingInv
<1> SUFFICES ASSUME Init PROVE FramingInv
  OBVIOUS
<1>1. FramingType
  <2>1. << >> \in Seq(Char) /\ << >> \in Seq(Letter) /\ << >> \in Seq(Seq(Letter))  OBVIOUS
  <2> QED  BY <2>1 DEF Init, FramingType
<1>2. << >> \o << >> = << >>  OBVIOUS
<1>3. LinesUnderWay  BY <1>2, CutNothing DEF Init, LinesUnderWay
<1>4. EngineObeys
  <2>1. executed \o LinesOf(down) = << >>  BY <1>2, CutNothing DEF Init
  <2>2. commanded = << >>  BY DEF Init
  <2> QED  BY <2>1, <2>2 DEF EngineObeys
<1> QED  BY <1>1, <1>3, <1>4 DEF FramingInv

\* A command that is sent is one more under way.
LEMMA SendCommandFraming == ASSUME FramingInv, SendCommand PROVE FramingInv'
<1> USE DEF toPanel
<1>1. PICK l \in Commands : down' = down \o Terminated(l) /\ commanded' = Append(commanded, l)
  BY DEF SendCommand
<1>2. l \in Seq(Letter) /\ l # << >>  BY <1>1, FramingAssumption
<1>3. down \in Seq(Char) /\ RestOf(down) = << >>  BY DEF FramingInv, FramingType, LinesUnderWay
<1>4. /\ down' \in Seq(Char) /\ LinesOf(down') = Append(LinesOf(down), l)
      /\ RestOf(down') = << >>
  BY <1>1, <1>2, <1>3, LineFollows
<1>5. /\ executed \in Seq(Seq(Letter)) /\ commanded \in Seq(Seq(Letter))
      /\ LinesOf(down) \in Seq(Seq(Letter))
  BY <1>3, CutType DEF FramingInv, FramingType
<1>6. UNCHANGED <<executed, whole, up, buffer, handled, reported>>  BY DEF SendCommand
<1>7. FramingType'
  <2>1. Append(commanded, l) \in Seq(Seq(Letter))  BY <1>2, <1>5
  <2> QED  BY <1>1, <1>4, <1>6, <2>1 DEF FramingInv, FramingType
<1>8. LinesUnderWay'  BY <1>4, <1>6 DEF FramingInv, LinesUnderWay
<1>9. EngineObeys'
  <2> DEFINE obeyed == executed \o LinesOf(down)
  <2>1. obeyed \in Seq(Seq(Letter))  BY <1>5
  <2>2. executed' \o LinesOf(down') = Append(obeyed, l)
    BY <1>2, <1>4, <1>5, <1>6, AppendJoined
  <2> HIDE DEF obeyed
  <2>3. FlattenSeq(Append(obeyed, l)) = FlattenSeq(obeyed) \o l  BY <1>2, <2>1, FlattenAppend
  <2>4. FlattenSeq(Append(commanded, l)) = FlattenSeq(commanded) \o l
    BY <1>2, <1>5, FlattenAppend
  <2>5. (whole => obeyed = commanded) /\ FlattenSeq(obeyed) = FlattenSeq(commanded)
    BY DEF FramingInv, EngineObeys, obeyed
  <2> QED  BY <1>1, <1>6, <2>2, <2>3, <2>4, <2>5 DEF EngineObeys
<1> QED  BY <1>7, <1>8, <1>9 DEF FramingInv

\* What the engine executes of a piece is gone from what is under way, down to the
\* character.
LEMMA EngineReceivesFraming == ASSUME FramingInv, EngineReceives PROVE FramingInv'
<1> USE DEF toPanel
<1>1. PICK n \in 1..Smaller(Len(down), EngineBuffer) :
        /\ executed' = executed \o Getlines(SubSeq(down, 1, n))
        /\ down' = SubSeq(down, n + 1, Len(down))
        /\ whole' = (whole /\ RestOf(SubSeq(down, 1, n)) = << >>)
  BY DEF EngineReceives
<1> DEFINE piece == SubSeq(down, 1, n)
<1>2. down \in Seq(Char) /\ RestOf(down) = << >>  BY DEF FramingInv, FramingType, LinesUnderWay
<1>3. n \in 1..Len(down)
  <2>1. Len(down) \in Nat /\ EngineBuffer \in Nat  BY <1>2, FramingAssumption
  <2> QED  BY <2>1 DEF Smaller
<1>4. piece \in Seq(Char) /\ down' \in Seq(Char) /\ down = piece \o down'
  BY <1>1, <1>2, <1>3, Piece
<1>5. UNCHANGED <<commanded, up, buffer, handled, reported>>  BY DEF EngineReceives
<1>6. /\ executed' = executed \o Getlines(piece)
      /\ whole' = (whole /\ RestOf(piece) = << >>)
  BY <1>1
<1> HIDE DEF piece
<1>7. RestOf(down') = << >>  BY <1>2, <1>4, CutSuffix
<1>8. /\ Getlines(piece) \in Seq(Seq(Letter)) /\ FlattenSeq(Getlines(piece)) = Text(piece)
      /\ RestOf(piece) = << >> => Getlines(piece) = LinesOf(piece)
  BY <1>4, TextOfLines
<1>9. executed \in Seq(Seq(Letter)) /\ LinesOf(piece) \in Seq(Seq(Letter))
      /\ LinesOf(down') \in Seq(Seq(Letter)) /\ LinesOf(down) \in Seq(Seq(Letter))
  BY <1>2, <1>4, CutType DEF FramingInv, FramingType
<1>10. FramingType'
  <2>1. executed' \in Seq(Seq(Letter))  BY <1>6, <1>8, <1>9
  <2>2. whole' \in BOOLEAN  BY <1>6 DEF FramingInv, FramingType
  <2> QED  BY <1>4, <1>5, <2>1, <2>2 DEF FramingInv, FramingType
<1>11. LinesUnderWay'  BY <1>5, <1>7 DEF FramingInv, LinesUnderWay
<1>12. EngineObeys'
  <2> DEFINE L == Seq(Letter)
             g == Getlines(piece)
             rest == LinesOf(down')
  <2>1. executed \in Seq(L) /\ g \in Seq(L) /\ rest \in Seq(L)  BY <1>8, <1>9
  <2>2. (executed \o g) \o rest = executed \o (g \o rest)
    <3> HIDE DEF L, g, rest
    <3> QED  BY <2>1, ConcatAssociative
  <2>3. whole' => executed' \o LinesOf(down') = commanded'
    <3> SUFFICES ASSUME whole' PROVE executed' \o LinesOf(down') = commanded'
      OBVIOUS
    <3>1. whole /\ RestOf(piece) = << >> /\ g = LinesOf(piece)  BY <1>6, <1>8
    <3>2. RestOf(piece) \o down' = down'
      <4>1. << >> \o down' = down'  BY <1>4
      <4> QED  BY <3>1, <4>1
    <3>3. LinesOf(down) = LinesOf(piece) \o LinesOf(down')
      <4>1. LinesOf(piece \o down') = LinesOf(piece) \o LinesOf(RestOf(piece) \o down')
        BY <1>4, CutInTwo
      <4> QED  BY <1>4, <3>2, <4>1
    <3>4. executed \o LinesOf(down) = commanded  BY <3>1 DEF FramingInv, EngineObeys
    <3> QED  BY <1>5, <1>6, <2>2, <3>1, <3>3, <3>4
  <2>4. FlattenSeq(executed' \o LinesOf(down')) = FlattenSeq(commanded')
    <3>1. FlattenSeq(rest) = Text(down') /\ FlattenSeq(LinesOf(down)) = Text(down)
      BY <1>2, <1>4, <1>7, TextOfLines
    <3>2. Text(down) = Text(piece) \o Text(down')  BY <1>4, TextJoined
    <3>3. FlattenSeq(g \o rest) = FlattenSeq(g) \o FlattenSeq(rest)
      BY <1>8, <1>9, FlattenJoin
    <3>4. g \o rest \in Seq(Seq(Letter))  BY <1>8, <1>9
    <3>5. FlattenSeq(executed \o (g \o rest)) = FlattenSeq(executed) \o FlattenSeq(g \o rest)
      BY <1>9, <3>4, FlattenJoin
    <3>6. FlattenSeq(executed \o LinesOf(down)) = FlattenSeq(executed) \o FlattenSeq(LinesOf(down))
      BY <1>9, FlattenJoin
    <3>7. FlattenSeq(executed \o LinesOf(down)) = FlattenSeq(commanded)
      BY DEF FramingInv, EngineObeys
    <3> QED  BY <1>5, <1>6, <1>8, <2>2, <3>1, <3>2, <3>3, <3>5, <3>6, <3>7
  <2> QED  BY <2>3, <2>4 DEF EngineObeys
<1> QED  BY <1>10, <1>11, <1>12 DEF FramingInv

\* A status that is sent is one more under way.
LEMMA SendStatusFraming ==
  ASSUME FramingInv, SendStatus
  PROVE  /\ FramingInv'
         /\ \E l \in Statuses : LinesOf(buffer \o up)' = Append(LinesOf(buffer \o up), l)
<1> USE DEF toEngine
<1>1. PICK l \in Statuses : up' = up \o Terminated(l) /\ reported' = Append(reported, l)
  BY DEF SendStatus
<1>2. l \in Seq(Letter) /\ l # << >>  BY <1>1, FramingAssumption
<1>3. UNCHANGED <<buffer, handled, down, executed, commanded, whole>>  BY DEF SendStatus
<1>4. up \in Seq(Char) /\ buffer \in Seq(Char) /\ reported \in Seq(Seq(Letter))
  BY LettersAreChars DEF FramingInv, FramingType
<1>5. Terminated(l) \in Seq(Char)  BY <1>2, CutLine
<1>6. buffer \o (up \o Terminated(l)) = (buffer \o up) \o Terminated(l)
  BY <1>4, <1>5, ConcatAssociative
<1>7. buffer \o up \in Seq(Char) /\ RestOf(buffer \o up) = << >>
  BY <1>4 DEF FramingInv, LinesUnderWay
<1>8. /\ RestOf((buffer \o up) \o Terminated(l)) = << >>
      /\ LinesOf((buffer \o up) \o Terminated(l)) = Append(LinesOf(buffer \o up), l)
  BY <1>2, <1>7, LineFollows
<1>9. (buffer \o up)' = (buffer \o up) \o Terminated(l)  BY <1>1, <1>3, <1>6
<1>10. FramingType'
  <2>1. up \o Terminated(l) \in Seq(Char) /\ Append(reported, l) \in Seq(Seq(Letter))
    BY <1>2, <1>4, <1>5
  <2> QED  BY <1>1, <1>3, <2>1 DEF FramingInv, FramingType
<1>11. LinesUnderWay'  BY <1>3, <1>8, <1>9 DEF FramingInv, LinesUnderWay
<1>12. EngineObeys'  BY <1>3 DEF FramingInv, EngineObeys
<1>13. LinesOf(buffer \o up)' = Append(LinesOf(buffer \o up), l)  BY <1>8, <1>9
<1> QED  BY <1>10, <1>11, <1>12, <1>13 DEF FramingInv

\* What the panel handles of its buffer and a piece is gone from the lines under way.
LEMMA PanelReceivesFraming ==
  ASSUME FramingInv, PanelReceives
  PROVE  /\ FramingInv'
         /\ \E h \in Seq(Seq(Letter)) :
              /\ handled' = handled \o h
              /\ LinesOf(buffer \o up) = h \o LinesOf(buffer \o up)'
<1> USE DEF toEngine
<1>1. PICK n \in 1..Smaller(Len(up), PanelBuffer) :
        /\ handled' = handled \o LinesOf(buffer \o SubSeq(up, 1, n))
        /\ buffer' = RestOf(buffer \o SubSeq(up, 1, n))
        /\ up' = SubSeq(up, n + 1, Len(up))
  BY DEF PanelReceives, KeptRest
<1>2. up \in Seq(Char) /\ buffer \in Seq(Char) /\ handled \in Seq(Seq(Letter))
  BY LettersAreChars DEF FramingInv, FramingType
<1>3. n \in 1..Len(up)
  <2>1. Len(up) \in Nat /\ PanelBuffer \in Nat  BY <1>2, FramingAssumption
  <2> QED  BY <2>1 DEF Smaller
<1> DEFINE piece == SubSeq(up, 1, n)
           chars == buffer \o piece
<1>4. piece \in Seq(Char) /\ up' \in Seq(Char) /\ up = piece \o up'
  BY <1>1, <1>2, <1>3, Piece
<1>5. handled' = handled \o LinesOf(chars) /\ buffer' = RestOf(chars)  BY <1>1
<1>6. UNCHANGED <<reported, down, executed, commanded, whole>>  BY DEF PanelReceives
<1> HIDE DEF piece
<1>7. chars \in Seq(Char) /\ buffer \o up = chars \o up'
  <2>1. buffer \o (piece \o up') = (buffer \o piece) \o up'
    <3>1. \A x, y, z \in Seq(Char) : (x \o y) \o z = x \o (y \o z)  BY ConcatAssociative
    <3>2. buffer \in Seq(Char) /\ piece \in Seq(Char) /\ up' \in Seq(Char)  BY <1>2, <1>4
    <3> QED  BY <3>1, <3>2
  <2> QED  BY <1>2, <1>4, <2>1
<1> HIDE DEF chars
<1>8. LinesOf(chars) \in Seq(Seq(Letter)) /\ buffer' \in Seq(Letter)
  BY <1>5, <1>7, CutType
<1>9. /\ LinesOf(buffer \o up) = LinesOf(chars) \o LinesOf(buffer' \o up')
      /\ RestOf(buffer' \o up') = RestOf(buffer \o up)
  BY <1>4, <1>5, <1>7, CutInTwo
<1>10. FramingType'
  <2>1. handled' \in Seq(Seq(Letter))  BY <1>2, <1>5, <1>8
  <2> QED  BY <1>4, <1>6, <1>8, <2>1 DEF FramingInv, FramingType
<1>11. LinesUnderWay'  BY <1>6, <1>9 DEF FramingInv, LinesUnderWay
<1>12. EngineObeys'  BY <1>6 DEF FramingInv, EngineObeys
<1> QED  BY <1>5, <1>8, <1>9, <1>10, <1>11, <1>12 DEF FramingInv

\* Every step preserves the invariant.
LEMMA FramingNext == FramingInv /\ [Next]_vars => FramingInv'
<1> SUFFICES ASSUME FramingInv, [Next]_vars PROVE FramingInv'
  OBVIOUS
<1>1. CASE SendCommand  BY <1>1, SendCommandFraming
<1>2. CASE EngineReceives  BY <1>2, EngineReceivesFraming
<1>3. CASE SendStatus  BY <1>3, SendStatusFraming
<1>4. CASE PanelReceives  BY <1>4, PanelReceivesFraming
<1>5. CASE UNCHANGED vars
  BY <1>5 DEF vars, toEngine, toPanel, FramingInv, FramingType, LinesUnderWay, EngineObeys
<1> QED  BY <1>1, <1>2, <1>3, <1>4, <1>5 DEF Next

\* The invariant holds, for all lines, buffers and ways to cut.
THEOREM FramingInvariant == Spec => []FramingInv
<1>1. FramingInv /\ [Next]_vars => FramingInv'  BY FramingNext
<1> QED  BY <1>1, FramingInit, PTL DEF Spec

\* The engine executes what was sent as long as no piece ends within a line, and
\* loses no character in any case (hft_engine_linux.cpp:573-583).
THEOREM CommandsObeyed == Spec => []EngineObeys
<1>1. FramingInv => EngineObeys  BY DEF FramingInv
<1> QED  BY <1>1, FramingInvariant, PTL

\* To the panel the connection is a channel of lines: a status is handled once,
\* whole and in order, for all lines, buffers and ways to cut (hft_frontend.py:205-214).
THEOREM StatusesHeard == Spec => PanelHearsLines
<1> DEFINE queue == LinesOf(buffer \o up)
<1>1. Init => ToPanel!Init
  <2>1. << >> \o << >> = << >>  OBVIOUS
  <2> QED  BY <2>1, CutNothing DEF Init, ToPanel!Init
<1>2. FramingInv /\ [Next]_vars => [ToPanel!Send \/ ToPanel!Handle]_<<queue, handled>>
  <2> SUFFICES ASSUME FramingInv, [Next]_vars
               PROVE  [ToPanel!Send \/ ToPanel!Handle]_<<queue, handled>>
    OBVIOUS
  <2>1. CASE SendCommand
    BY <2>1 DEF SendCommand, toPanel
  <2>2. CASE EngineReceives
    BY <2>2 DEF EngineReceives, toPanel
  <2>3. CASE SendStatus
    <3>1. \E l \in Statuses : queue' = Append(queue, l)  BY <2>3, SendStatusFraming
    <3>2. UNCHANGED handled  BY <2>3 DEF SendStatus
    <3> QED  BY <3>1, <3>2 DEF ToPanel!Send
  <2>4. CASE PanelReceives
    <3>1. PICK h \in Seq(Seq(Letter)) : handled' = handled \o h /\ queue = h \o queue'
      BY <2>4, PanelReceivesFraming
    <3> DEFINE n == Len(h)
    <3>2. FramingInv'  BY <2>4, PanelReceivesFraming
    <3>3. queue' \in Seq(Seq(Letter)) /\ handled \in Seq(Seq(Letter))
      <4>1. (buffer \o up)' \in Seq(Char)
        BY <3>2, LettersAreChars DEF FramingInv, FramingType
      <4> QED  BY <4>1, CutType DEF FramingInv, FramingType
    <3> HIDE DEF queue
    <3>4. CASE n = 0
      <4>1. h = << >>  BY <3>4
      <4> QED  BY <3>1, <3>3, <4>1
    <3>5. CASE n # 0
      <4> DEFINE L == Seq(Letter)
      <4>1. h \in Seq(L) /\ queue' \in Seq(L) /\ queue \in Seq(L)  BY <3>1, <3>3
      <4> HIDE DEF L
      <4>2. n \in Nat /\ Len(queue) = n + Len(queue') /\ Len(queue') \in Nat
        BY <3>1, <4>1
      <4>3. SubSeq(queue, 1, n) = h /\ SubSeq(queue, n + 1, Len(queue)) = queue'
        BY <3>1, <4>1, JoinedAgain
      <4>4. n \in 1..Len(queue)  BY <3>5, <4>2
      <4> QED  BY <3>1, <4>3, <4>4 DEF ToPanel!Handle, queue
    <3> QED  BY <3>4, <3>5
  <2>5. CASE UNCHANGED vars  BY <2>5 DEF vars, toPanel
  <2> QED  BY <2>1, <2>2, <2>3, <2>4, <2>5 DEF Next
<1> HIDE DEF queue
<1> QED  BY <1>1, <1>2, FramingInvariant, PTL DEF Spec, PanelHearsLines, ToPanel!Spec, queue
=============================================================================
