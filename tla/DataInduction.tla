---------------------------- MODULE DataInduction ----------------------------
(***************************************************************************)
(* Induction for proofs about data.  A property of numbers is given as the   *)
(* set of the numbers that have it, which the provers can instantiate.       *)
(* From it follows what the library's FlattenSeq, a recursive function,      *)
(* returns.                                                                 *)
(***************************************************************************)
EXTENDS Integers, SequencesExt, FiniteSetTheorems, SequenceTheorems, TLAPS

\* A set of natural numbers has a least one: no sequence of numbers descends for
\* ever, as the intervals below them would be finite sets that shrink for ever.
LEMMA LeastNumber ==
  ASSUME NEW T, T \subseteq Nat, T # {}
  PROVE  \E x \in T : \A y \in T : x <= y
<1> DEFINE R == {p \in Nat \X Nat : p[1] < p[2]}
<1>1. IsWellFoundedOn(R, Nat)
  <2> SUFFICES ASSUME NEW f \in [Nat -> Nat], \A n \in Nat : <<f[n + 1], f[n]>> \in R
               PROVE  FALSE
    BY DEF IsWellFoundedOn
  <2> DEFINE g == [n \in Nat |-> 1..f[n]]
             S == FiniteSubsetsOf(Nat)
  <2>1. g \in [Nat -> S]
    <3>1. \A n \in Nat : 1..f[n] \in S
      BY FS_Interval DEF FiniteSubsetsOf
    <3> QED  BY <3>1
  <2>2. \A n \in Nat : <<g[n + 1], g[n]>> \in StrictSubsetOrdering(Nat)
    <3> TAKE n \in Nat
    <3>1. n + 1 \in Nat /\ <<f[n + 1], f[n]>> \in R  OBVIOUS
    <3>2. f[n + 1] < f[n] /\ f[n + 1] \in Nat /\ f[n] \in Nat  BY <3>1
    <3>3. g[n + 1] = 1..f[n + 1] /\ g[n] = 1..f[n]  BY <3>1
    <3>4. 1..f[n + 1] \subseteq 1..f[n]  BY <3>2
    <3>5. f[n] \in 1..f[n] /\ f[n] \notin 1..f[n + 1]  BY <3>2
    <3>6. g[n + 1] \subseteq g[n] /\ f[n] \in g[n] /\ f[n] \notin g[n + 1]
      BY <3>3, <3>4, <3>5
    <3>7. g[n + 1] \in SUBSET Nat /\ g[n] \in SUBSET Nat  BY <3>3
    <3> HIDE DEF g
    <3>8. g[n + 1] # g[n]  BY <3>6
    <3> QED  BY <3>6, <3>7, <3>8 DEF StrictSubsetOrdering
  <2>3. IsWellFoundedOn(StrictSubsetOrdering(Nat), S)
    BY FS_StrictSubsetOrderingWellFounded
  <2> QED  BY <2>1, <2>2, <2>3 DEF IsWellFoundedOn
<1> HIDE DEF R
<1>2. PICK x \in T : \A y \in T : ~(<<y, x>> \in R)  BY <1>1, WFMin
<1>3. \A y \in T : y < x => <<y, x>> \in R  BY DEF R
<1>4. \A y \in T : x <= y
  <2> TAKE y \in T
  <2>1. ~(y < x)  BY <1>2, <1>3
  <2>2. x \in Nat /\ y \in Nat  OBVIOUS
  <2> QED  BY <2>1, <2>2
<1> QED  BY <1>4

\* Induction on the natural numbers.
LEMMA InductionOnNat ==
  ASSUME NEW S, 0 \in S, \A n \in Nat : n \in S => n + 1 \in S
  PROVE  Nat \subseteq S
<1> SUFFICES ASSUME Nat \ S # {} PROVE FALSE
  OBVIOUS
<1>1. PICK x \in Nat \ S : \A y \in Nat \ S : x <= y
  BY LeastNumber
<1>2. x # 0 /\ x - 1 \in Nat  OBVIOUS
<1>3. x - 1 \in S  BY <1>1, <1>2
<1> QED  BY <1>2, <1>3

\* Induction on the numbers from one to a bound.
LEMMA InductionUpTo ==
  ASSUME NEW S, NEW top \in Nat, 1 \in S,
         \A n \in 1..(top - 1) : n \in S => n + 1 \in S
  PROVE  1..top \subseteq S
<1> DEFINE U == {n \in Nat : n + 1 \in 1..top => n + 1 \in S}
<1>1. 0 \in U  OBVIOUS
<1>2. ASSUME NEW n \in Nat, n \in U PROVE n + 1 \in U
  <2> SUFFICES ASSUME (n + 1) + 1 \in 1..top PROVE (n + 1) + 1 \in S
    OBVIOUS
  <2>1. n + 1 \in 1..(top - 1) /\ n + 1 \in 1..top  OBVIOUS
  <2>2. n + 1 \in S  BY <1>2, <2>1
  <2> QED  BY <2>1, <2>2
<1> HIDE DEF U
<1>3. Nat \subseteq U  BY <1>1, <1>2, InductionOnNat
<1> SUFFICES ASSUME NEW n \in 1..top PROVE n \in S
  OBVIOUS
<1>4. n - 1 \in Nat /\ (n - 1) + 1 = n  OBVIOUS
<1>5. n - 1 \in U  BY <1>3, <1>4
<1> QED  BY <1>4, <1>5 DEF U

\* Induction on the sequences over a set, which grow at their end.
LEMMA InductionOnSeq ==
  ASSUME NEW C, NEW S, << >> \in S,
         \A s \in Seq(C), c \in C : s \in S => Append(s, c) \in S
  PROVE  Seq(C) \subseteq S
<1> DEFINE U == {n \in Nat : \A s \in Seq(C) : Len(s) = n => s \in S}
<1>1. 0 \in U
  <2>1. \A s \in Seq(C) : Len(s) = 0 => s = << >>  OBVIOUS
  <2> QED  BY <2>1
<1>2. ASSUME NEW n \in Nat, n \in U PROVE n + 1 \in U
  <2> SUFFICES ASSUME NEW s \in Seq(C), Len(s) = n + 1 PROVE s \in S
    OBVIOUS
  <2> DEFINE front == SubSeq(s, 1, n)
  <2>1. front \in Seq(C) /\ Len(front) = n /\ s[n + 1] \in C  OBVIOUS
  <2>2. s = Append(front, s[n + 1])
    <3>1. Append(front, s[n + 1]) \in Seq(C) /\ Len(Append(front, s[n + 1])) = n + 1
      BY <2>1
    <3>2. \A k \in 1..n : Append(front, s[n + 1])[k] = s[k]  BY <2>1
    <3>3. Append(front, s[n + 1])[n + 1] = s[n + 1]  BY <2>1
    <3>4. \A k \in 1..(n + 1) : k \in 1..n \/ k = n + 1  OBVIOUS
    <3>5. \A k \in 1..(n + 1) : Append(front, s[n + 1])[k] = s[k]  BY <3>2, <3>3, <3>4
    <3> HIDE DEF front
    <3> QED  BY <3>1, <3>5, SeqEqual
  <2>3. front \in S  BY <1>2, <2>1
  <2> HIDE DEF front
  <2> QED  BY <2>1, <2>2, <2>3
<1> HIDE DEF U
<1>3. Nat \subseteq U  BY <1>1, <1>2, InductionOnNat
<1> SUFFICES ASSUME NEW s \in Seq(C) PROVE s \in S
  OBVIOUS
<1>4. Len(s) \in Nat  OBVIOUS
<1>5. Len(s) \in U  BY <1>3, <1>4
<1> QED  BY <1>5 DEF U

-----------------------------------------------------------------------------
\* The sums of the first elements of a sequence exist as a function.
LEMMA SumsExist ==
  ASSUME NEW top \in Nat \ {0}, NEW c, \A m \in 1..(top - 1) : c[m] \in Nat
  PROVE  \E f \in [1..top -> Nat] :
           f[1] = 0 /\ \A m \in 1..(top - 1) : f[m + 1] = f[m] + c[m]
<1> DEFINE Sums(f, n) ==
             /\ f \in [1..n -> Nat] /\ f[1] = 0
             /\ \A m \in 1..(n - 1) : f[m + 1] = f[m] + c[m]
           S == {n \in Nat : \E f : Sums(f, n)}
<1>1. 1 \in S
  <2>1. Sums([m \in 1..1 |-> 0], 1)  OBVIOUS
  <2> QED  BY <2>1
<1>2. ASSUME NEW n \in 1..(top - 1), n \in S PROVE n + 1 \in S
  <2>1. PICK f : Sums(f, n)  BY <1>2
  <2> DEFINE h == [m \in 1..(n + 1) |-> IF m <= n THEN f[m] ELSE f[n] + c[n]]
  <2>2. n \in 1..n /\ f[n] \in Nat /\ c[n] \in Nat  BY <2>1
  <2>3. h \in [1..(n + 1) -> Nat] /\ h[1] = 0  BY <2>1, <2>2
  <2>4. ASSUME NEW m \in 1..((n + 1) - 1) PROVE h[m + 1] = h[m] + c[m]
    <3>1. CASE m = n
      <4>1. h[n + 1] = f[n] + c[n] /\ h[n] = f[n]  OBVIOUS
      <4> QED  BY <3>1, <4>1
    <3>2. CASE m # n
      <4>1. m \in 1..(n - 1) /\ m + 1 <= n /\ m <= n  BY <3>2
      <4>2. h[m + 1] = f[m + 1] /\ h[m] = f[m]  BY <4>1
      <4> QED  BY <2>1, <4>1, <4>2
    <3> QED  BY <3>1, <3>2
  <2> HIDE DEF h
  <2>5. Sums(h, n + 1)  BY <2>3, <2>4
  <2>6. n + 1 \in Nat  OBVIOUS
  <2> HIDE DEF Sums
  <2> QED  BY <2>5, <2>6
<1>3. top \in S
  <2> HIDE DEF S
  <2>1. 1..top \subseteq S  BY <1>1, <1>2, InductionUpTo
  <2> QED  BY <2>1
<1>4. PICK f : Sums(f, top)  BY <1>3
<1> QED  BY <1>4

-----------------------------------------------------------------------------
\* The pieces that FlattenSeq has joined up to each element exist, and the last
\* of them is what it returns.
LEMMA FlattenUnfolds ==
  ASSUME NEW s, Len(s) \in Nat \ {0}
  PROVE  \E g : /\ DOMAIN g = 1..Len(s)
                /\ FlattenSeq(s) = g[Len(s)]
                /\ g[1] = s[1]
                /\ \A m \in 1..(Len(s) - 1) : g[m + 1] = g[m] \o s[m + 1]
<1> DEFINE Joined(g, n) ==
             /\ DOMAIN g = 1..n
             /\ g = [m \in 1..n |-> IF m = 1 THEN s[m] ELSE g[m - 1] \o s[m]]
           S == {n \in Nat : \E g : Joined(g, n)}
<1>1. 1 \in S
  <2>1. Joined([m \in 1..1 |-> s[m]], 1)
    OBVIOUS
  <2> QED  BY <2>1
<1>2. ASSUME NEW n \in 1..(Len(s) - 1), n \in S PROVE n + 1 \in S
  <2>1. PICK g : Joined(g, n)  BY <1>2
  <2> DEFINE h == [m \in 1..(n + 1) |-> IF m <= n THEN g[m] ELSE g[n] \o s[m]]
  <2>2. \A m \in 1..(n + 1) : h[m] = IF m = 1 THEN s[m] ELSE h[m - 1] \o s[m]
    <3> TAKE m \in 1..(n + 1)
    <3>1. CASE m = 1
      BY <2>1, <3>1
    <3>2. CASE m # 1 /\ m <= n
      <4>1. m \in 1..n /\ m - 1 \in 1..n /\ m - 1 <= n  BY <3>2
      <4>2. g[m] = g[m - 1] \o s[m]  BY <2>1, <3>2, <4>1
      <4>3. h[m] = g[m] /\ h[m - 1] = g[m - 1]  BY <3>2, <4>1
      <4> QED  BY <3>2, <4>2, <4>3
    <3>3. CASE m = n + 1
      <4>1. m # 1 /\ m - 1 = n /\ ~(m <= n) /\ n \in 1..(n + 1) /\ n <= n  BY <3>3
      <4>2. h[m] = g[n] \o s[m] /\ h[m - 1] = g[n]  BY <4>1
      <4> QED  BY <4>1, <4>2
    <3> QED  BY <3>1, <3>2, <3>3
  <2>3. DOMAIN h = 1..(n + 1)  OBVIOUS
  <2>4. h = [m \in 1..(n + 1) |-> h[m]]  OBVIOUS
  <2> HIDE DEF h
  <2>5. Joined(h, n + 1)  BY <2>2, <2>3, <2>4
  <2>6. n + 1 \in Nat  OBVIOUS
  <2> HIDE DEF Joined
  <2> QED  BY <2>5, <2>6
<1>3. Len(s) \in S
  <2> HIDE DEF S
  <2>1. 1..Len(s) \subseteq S  BY <1>1, <1>2, InductionUpTo
  <2> QED  BY <2>1
<1> DEFINE flat == CHOOSE g : g = [m \in 1..Len(s) |->
                                     IF m = 1 THEN s[m] ELSE g[m - 1] \o s[m]]
<1>4. flat = [m \in 1..Len(s) |-> IF m = 1 THEN s[m] ELSE flat[m - 1] \o s[m]]
  BY <1>3
<1>5. FlattenSeq(s) = flat[Len(s)]
  BY DEF FlattenSeq
<1> HIDE DEF flat
<1>6. DOMAIN flat = 1..Len(s) /\ flat[1] = s[1]  BY <1>4
<1>7. ASSUME NEW m \in 1..(Len(s) - 1) PROVE flat[m + 1] = flat[m] \o s[m + 1]
  <2>1. m + 1 \in 1..Len(s) /\ m + 1 # 1 /\ (m + 1) - 1 = m  OBVIOUS
  <2> QED  BY <1>4, <2>1
<1> QED  BY <1>5, <1>6, <1>7

\* FlattenSeq joins a further sequence at the end.
LEMMA FlattenAppend ==
  ASSUME NEW C, NEW s \in Seq(Seq(C)), NEW x \in Seq(C)
  PROVE  FlattenSeq(Append(s, x)) = FlattenSeq(s) \o x
<1> DEFINE t == Append(s, x)
           n == Len(s)
<1>1. /\ n \in Nat /\ Len(t) = n + 1 /\ Len(t) \in Nat \ {0} /\ t[n + 1] = x
      /\ \A m \in 1..n : t[m] = s[m]
  OBVIOUS
<1> HIDE DEF t
<1>2. PICK h : /\ DOMAIN h = 1..Len(t) /\ FlattenSeq(t) = h[Len(t)] /\ h[1] = t[1]
               /\ \A m \in 1..(Len(t) - 1) : h[m + 1] = h[m] \o t[m + 1]
  BY <1>1, FlattenUnfolds
<1>3. CASE n = 0
  <2>1. s = << >>  BY <1>3
  <2>2. FlattenSeq(s) = << >>  BY <2>1 DEF FlattenSeq
  <2>3. FlattenSeq(t) = x  BY <1>1, <1>2, <1>3
  <2> QED  BY <2>2, <2>3 DEF t
<1>4. CASE n # 0
  <2>1. PICK g : /\ DOMAIN g = 1..n /\ FlattenSeq(s) = g[n] /\ g[1] = s[1]
                 /\ \A m \in 1..(n - 1) : g[m + 1] = g[m] \o s[m + 1]
    BY <1>1, <1>4, FlattenUnfolds
  <2> DEFINE Same == {m \in 1..n : h[m] = g[m]}
  <2>2. 1 \in Same  BY <1>1, <1>2, <1>4, <2>1
  <2>3. ASSUME NEW m \in 1..(n - 1), m \in Same PROVE m + 1 \in Same
    <3>1. m \in 1..(Len(t) - 1) /\ m + 1 \in 1..n  BY <1>1
    <3>2. h[m + 1] = h[m] \o t[m + 1] /\ g[m + 1] = g[m] \o s[m + 1] /\ t[m + 1] = s[m + 1]
      BY <1>1, <1>2, <2>1, <3>1
    <3> QED  BY <2>3, <3>1, <3>2
  <2> HIDE DEF Same
  <2>4. 1..n \subseteq Same  BY <1>1, <2>2, <2>3, InductionUpTo
  <2>5. h[n] = g[n]  BY <1>1, <1>4, <2>4 DEF Same
  <2>6. h[n + 1] = h[n] \o t[n + 1]
    <3>1. n \in 1..(Len(t) - 1)  BY <1>1, <1>4
    <3> QED  BY <1>2, <3>1
  <2> QED  BY <1>1, <1>2, <2>1, <2>5, <2>6 DEF t
<1> QED  BY <1>3, <1>4

\* What it returns, for none and for two sequences of sequences joined.
LEMMA FlattenJoin ==
  ASSUME NEW C
  PROVE  /\ FlattenSeq(<< >>) = << >>
         /\ \A s \in Seq(Seq(C)) : FlattenSeq(s) \in Seq(C)
         /\ \A s, t \in Seq(Seq(C)) : FlattenSeq(s \o t) = FlattenSeq(s) \o FlattenSeq(t)
<1>1. FlattenSeq(<< >>) = << >>  BY DEF FlattenSeq
<1>2. \A s \in Seq(Seq(C)) : FlattenSeq(s) \in Seq(C)
  <2> DEFINE S == {s \in Seq(Seq(C)) : FlattenSeq(s) \in Seq(C)}
  <2>1. << >> \in S
    <3>1. << >> \in Seq(C) /\ << >> \in Seq(Seq(C))  OBVIOUS
    <3> QED  BY <1>1, <3>1
  <2>2. ASSUME NEW s \in Seq(Seq(C)), NEW x \in Seq(C), s \in S PROVE Append(s, x) \in S
    <3>1. FlattenSeq(Append(s, x)) = FlattenSeq(s) \o x  BY FlattenAppend
    <3>2. FlattenSeq(s) \o x \in Seq(C)  BY <2>2
    <3>3. Append(s, x) \in Seq(Seq(C))  OBVIOUS
    <3> QED  BY <3>1, <3>2, <3>3
  <2> HIDE DEF S
  <2>3. Seq(Seq(C)) \subseteq S  BY <2>1, <2>2, InductionOnSeq
  <2> QED  BY <2>3 DEF S
<1>3. ASSUME NEW s \in Seq(Seq(C)), NEW t \in Seq(Seq(C))
      PROVE  FlattenSeq(s \o t) = FlattenSeq(s) \o FlattenSeq(t)
  <2> DEFINE S == {r \in Seq(Seq(C)) : FlattenSeq(s \o r) = FlattenSeq(s) \o FlattenSeq(r)}
  <2>1. << >> \in S
    <3>1. s \o << >> = s /\ << >> \in Seq(Seq(C))  OBVIOUS
    <3>2. FlattenSeq(s) \o << >> = FlattenSeq(s)  BY <1>2
    <3> QED  BY <1>1, <3>1, <3>2
  <2>2. ASSUME NEW r \in Seq(Seq(C)), NEW x \in Seq(C), r \in S PROVE Append(r, x) \in S
    <3>1. s \o Append(r, x) = Append(s \o r, x) /\ s \o r \in Seq(Seq(C))
      OBVIOUS
    <3>2. FlattenSeq(Append(s \o r, x)) = FlattenSeq(s \o r) \o x  BY <3>1, FlattenAppend
    <3>3. FlattenSeq(Append(r, x)) = FlattenSeq(r) \o x  BY FlattenAppend
    <3>4. (FlattenSeq(s) \o FlattenSeq(r)) \o x = FlattenSeq(s) \o (FlattenSeq(r) \o x)
      <4>1. FlattenSeq(s) \in Seq(C) /\ FlattenSeq(r) \in Seq(C)  BY <1>2
      <4> QED  BY <4>1, ConcatAssociative
    <3>5. FlattenSeq(s \o r) = FlattenSeq(s) \o FlattenSeq(r)  BY <2>2
    <3>6. Append(r, x) \in Seq(Seq(C))  OBVIOUS
    <3> QED  BY <3>1, <3>2, <3>3, <3>4, <3>5, <3>6
  <2> HIDE DEF S
  <2>3. Seq(Seq(C)) \subseteq S  BY <2>1, <2>2, InductionOnSeq
  <2> QED  BY <2>3 DEF S
<1> QED  BY <1>1, <1>2, <1>3

\* The first and the second part of two sequences joined.
LEMMA JoinedParts ==
  ASSUME NEW s, NEW t, Len(s) \in Nat, Len(t) \in Nat
  PROVE  /\ Len(s \o t) = Len(s) + Len(t)
         /\ \A m \in 1..Len(s) : (s \o t)[m] = s[m]
         /\ \A m \in 1..Len(t) : (s \o t)[Len(s) + m] = t[m]
  OBVIOUS
=============================================================================
