------------------------- MODULE ArmInference_proofs -------------------------
(***************************************************************************)
(* What holds of an inference on the processor for every network the loader  *)
(* can be given, every model and every feature vector: the arrays hold words, *)
(* the accumulator never outgrows what is narrowed, the decision has the     *)
(* largest score, and the verifier's script computes the same network.       *)
(*                                                                          *)
(* The argument for the accumulator is a bound that grows by the square of   *)
(* the largest magnitude with every product: AccBounded relates it to the    *)
(* index of the loop.  At the end of the loop it is at most what             *)
(* NetworkAssumption compares with the largest s32.                          *)
(***************************************************************************)
EXTENDS ArmInference, TLAPS

\* The magnitude of the smallest word.
Wide == Top + 1

\* The largest magnitude after the bias and k products.
Reach(k) == Wide * Scale + k * (Wide * Wide)

\* The accumulator after the bias and i - 1 products.
AccBounded == Running /\ i >= 1 => acc \in (-Reach(i - 1))..Reach(i - 1)

\* The inductive invariant of the processor's loops.
LoopInv == TypeOK /\ AccBounded

-----------------------------------------------------------------------------
\* The low bits of any integer, read as signed, lie in the range of the width:
\* what the casts to s16 and s32 store (main.c:94, 291-300).
LEMMA LowInRange ==
  ASSUME NEW top \in Nat, NEW v \in Int
  PROVE  Low(v, top) \in (-top - 1)..top
<1> DEFINE n == 2 * (top + 1)
           x == v + top + 1
<1>1. n \in Nat \ {0} /\ x \in Int  OBVIOUS
<1> HIDE DEF n, x
<1>2. x % n \in 0..(n - 1)  BY <1>1
<1>3. Low(v, top) = (x % n) - (top + 1)  BY DEF Low, n, x
<1> QED  BY <1>2, <1>3 DEF n

\* An integer of the range is not changed by the cast (main.c:94).
LEMMA LowIsIdentity ==
  ASSUME NEW top \in Nat, NEW v \in (-top - 1)..top
  PROVE  Low(v, top) = v
<1> DEFINE n == 2 * (top + 1)
           x == v + top + 1
<1>1. n \in Nat \ {0} /\ x \in 0..(n - 1)  OBVIOUS
<1>2. Low(v, top) = (x % n) - (top + 1)  BY DEF Low
<1>3. x = v + top + 1  OBVIOUS
<1> HIDE DEF n, x
<1>4. x % n = x  BY <1>1
<1> QED  BY <1>2, <1>3, <1>4, <1>1

\* One product of the inner loop is bounded by the square (main.c:93).
LEMMA ProductBound ==
  ASSUME NEW t \in Nat, NEW a \in (-t)..t, NEW b \in (-t)..t
  PROVE  a * b \in (-(t * t))..(t * t)
OBVIOUS

\* The shift by eight divides a bound by Scale (main.c:94).
LEMMA QuotientBound ==
  ASSUME NEW s \in Nat \ {0}, NEW m \in Nat, NEW a \in (-(s * m))..(s * m)
  PROVE  a \div s \in (-m)..m
OBVIOUS

\* The widths, as the proofs use them.
LEMMA Widths ==
  /\ Scale \in Nat \ {0} /\ Top \in Nat /\ IntTop \in Nat /\ Grain \in Nat \ {0}
  /\ Wide \in Nat \ {0} /\ Wide * Wide \in Nat /\ Wide * Scale \in Nat
  /\ Word = (-Wide)..Top /\ Word \subseteq (-Wide)..Wide /\ Word \subseteq Int
<1>1. /\ Scale \in Nat \ {0} /\ Top \in Nat /\ IntTop \in Nat /\ Grain \in Nat \ {0}
  BY WidthAssumption
<1>2. Wide \in Nat \ {0}  BY <1>1 DEF Wide
<1>3. Wide * Wide \in Nat /\ Wide * Scale \in Nat  BY <1>1, <1>2
<1>4. Bottom = -Wide  BY <1>1 DEF Bottom, Wide
<1>5. Top <= Wide  BY <1>1 DEF Wide
<1> QED  BY <1>1, <1>2, <1>3, <1>4, <1>5 DEF Word

\* A saturated integer is a word (main.c:63-67).
LEMMA SaturateInWord == ASSUME NEW v \in Int PROVE Saturate(v) \in Word
BY Widths DEF Saturate, Word, Bottom

\* Truncation to a unit and the conversion to int give integers
\* (mlp_weight_loader.h:9, verify_bitexact.py:85-86).
LEMMA WeightIsInt ==
  ASSUME NEW x \in Int PROVE WeightInt(x) \in Int /\ Truncate(x) \in Int
<1>1. Grain \in Nat \ {0} /\ IntTop \in Nat  BY Widths
<1>2. x \div Grain \in Int /\ (-x) \div Grain \in Int  BY <1>1
<1>3. Truncate(x) \in Int  BY <1>2 DEF Truncate
<1> QED  BY <1>1, <1>3 DEF WeightInt

\* Every entry of the tables is a word, whatever the model (main.c:291-300).
LEMMA TableInWord == ASSUME NEW x \in Int PROVE Table(x) \in Word
<1>1. Low(WeightInt(x), Top) \in (-Top - 1)..Top  BY Widths, WeightIsInt, LowInRange
<1> QED  BY <1>1 DEF Table, Word, Bottom

\* What a neuron stores is a word (main.c:94-97).
LEMMA StoredIsWord == ASSUME NEW a \in Int PROVE Rectified(Narrowed(a)) \in Word
<1>1. a \div Scale \in Int  BY Widths
<1>2. Low(Shift(a), IntTop) \in Int  BY <1>1, Widths, LowInRange DEF Shift
<1>3. Narrowed(a) \in Word  BY <1>2, SaturateInWord DEF Narrowed
<1>4. 0 \in Word  BY Widths
<1> QED  BY <1>3, <1>4 DEF Rectified

\* So is what the script's neuron becomes (verify_bitexact.py:121-125).
LEMMA EmulatedIsWord ==
  ASSUME sum \in Int, bias \in Int PROVE EmulatedNeuron \in Word
<1>1. Shift(sum + bias * Scale) \in Int  BY Widths DEF Shift
<1>2. Saturate(Shift(sum + bias * Scale)) \in Word  BY <1>1, SaturateInWord
<1>3. 0 \in Word  BY Widths
<1> QED  BY <1>2, <1>3 DEF EmulatedNeuron

-----------------------------------------------------------------------------
\* The shape of the network: its layers have neurons, and the last has three
\* (main.c:104-108).
LEMMA Shape ==
  /\ Len(Sizes) \in Nat /\ Len(Sizes) >= 2
  /\ \A l \in 1..Len(Sizes) : Sizes[l] \in Nat \ {0}
  /\ Sizes[Len(Sizes)] = 3
  /\ Features \subseteq Word /\ Floats \subseteq Int
BY NetworkAssumption

\* The sizes of the layer that runs.
LEMMA LayerSizes ==
  ASSUME layer \in 1..Len(Sizes), Running
  PROVE  /\ layer \in Nat /\ layer + 1 \in 1..Len(Sizes)
         /\ Inputs \in Nat \ {0} /\ Neurons \in Nat \ {0}
         /\ LastLayer => layer + 1 = Len(Sizes) /\ Neurons = 3
         /\ ~LastLayer => layer + 1 \in Layers
<1>1. layer \in 1..(Len(Sizes) - 1)  BY DEF Running, Layers
<1>2. layer \in Nat /\ layer + 1 \in 1..Len(Sizes)  BY <1>1, Shape
<1>3. Inputs \in Nat \ {0} /\ Neurons \in Nat \ {0}  BY <1>2, Shape DEF Inputs, Neurons
<1>4. LastLayer => layer + 1 = Len(Sizes)  BY <1>2, Shape DEF LastLayer
<1>5. LastLayer => Neurons = 3  BY <1>4, Shape DEF Neurons
<1>6. ~LastLayer => layer + 1 \in Layers  BY <1>1, Shape DEF LastLayer, Layers
<1> QED  BY <1>2, <1>3, <1>4, <1>5, <1>6

\* An inference starts with features in its input array and nothing added
\* (main.c:101-104).
LEMMA InitEstablishes == Init => LoopInv
<1> SUFFICES ASSUME Init PROVE LoopInv  OBVIOUS
<1>1. layer \in 1..Len(Sizes)  BY Shape DEF Init
<1>2. in \in Seq(Word) /\ Len(in) = Sizes[1]
  <2>1. Sizes[1] \in Nat /\ in \in [1..Sizes[1] -> Word]  BY Shape DEF Init
  <2> QED  BY <2>1
<1>3. Running => Inputs = Sizes[1] /\ Neurons \in Nat \ {0} /\ Inputs \in Nat
  BY <1>1, LayerSizes DEF Init, Inputs
<1>4. Running  BY Shape DEF Init, Running, Layers
<1>5. TypeOK
  <2>1. /\ i = 0 /\ acc = 0 /\ sum = 0 /\ bias = 0 /\ emuIn = in
        /\ out = << >> /\ emuOut = << >> /\ wide = FALSE
    BY DEF Init
  <2>2. Len(out) = 0 /\ out \in Seq(Word) /\ emuOut = out  BY <2>1
  <2>3. Len(in) = Inputs /\ i <= Inputs + 1 /\ Len(out) < Neurons
    <3>1. Inputs = Sizes[1] /\ Inputs \in Nat /\ Neurons \in Nat \ {0}  BY <1>3, <1>4
    <3> QED  BY <1>2, <2>1, <2>2, <3>1
  <2>4. i \in Nat /\ {acc, sum, bias} \subseteq Int  BY <2>1
  <2>5. wide \in BOOLEAN  BY <2>1, Zenon
  <2> QED  BY <1>1, <1>2, <1>4, <2>1, <2>2, <2>3, <2>4, <2>5 DEF TypeOK
<1>6. AccBounded  BY DEF Init, AccBounded
<1> QED  BY <1>5, <1>6 DEF LoopInv

\* The bias is a word, shifted (main.c:90).
LEMMA BiasStep == ASSUME LoopInv, LoadBias PROVE LoopInv'
<1>1. /\ layer' = layer /\ in' = in /\ out' = out /\ emuIn' = emuIn /\ emuOut' = emuOut
      /\ i' = 1 /\ i = 0 /\ sum' = 0 /\ Running
  BY DEF LoadBias
<1>2. Running' /\ Inputs' = Inputs /\ Neurons' = Neurons
  BY <1>1 DEF Running, Layers, Inputs, Neurons
<1>3. PICK b \in Floats : acc' = Table(b) * Scale /\ bias' = Truncate(b) /\ Read(b)
  BY DEF LoadBias
<1>4. Table(b) \in Word /\ Truncate(b) \in Int  BY <1>3, Shape, TableInWord, WeightIsInt
<1>5. Inputs \in Nat \ {0}  BY <1>1, LayerSizes DEF LoopInv, TypeOK
<1>6. acc' \in (-(Wide * Scale))..(Wide * Scale)
  <2>1. Table(b) \in (-Wide)..Wide  BY <1>4, Widths
  <2> QED  BY <2>1, <1>3, Widths
<1>7. sum' \in Int /\ bias' \in Int /\ acc' \in Int /\ wide' \in BOOLEAN
  BY <1>1, <1>3, <1>4, <1>6, Widths DEF Read, LoopInv, TypeOK
<1>8. TypeOK'
  BY <1>1, <1>2, <1>5, <1>7 DEF LoopInv, TypeOK
<1>9. AccBounded'
  <2>1. (-Reach(i' - 1))..Reach(i' - 1) = (-(Wide * Scale))..(Wide * Scale)
    BY <1>1, Widths DEF Reach
  <2> QED  BY <2>1, <1>6 DEF AccBounded, Reach, Wide
<1> QED  BY <1>8, <1>9 DEF LoopInv

\* One more product adds at most the square of the magnitude (main.c:91-93).
LEMMA ProductStep == ASSUME LoopInv, AddProduct PROVE LoopInv'
<1>1. /\ layer' = layer /\ in' = in /\ out' = out /\ emuIn' = emuIn /\ emuOut' = emuOut
      /\ bias' = bias /\ i' = i + 1 /\ i \in 1..Inputs /\ Running
  BY DEF AddProduct
<1>2. Running' /\ Inputs' = Inputs /\ Neurons' = Neurons
  BY <1>1 DEF Running, Layers, Inputs, Neurons
<1>3. PICK w \in Floats : /\ acc' = acc + in[i] * Table(w)
                          /\ sum' = sum + emuIn[i] * Truncate(w) /\ Read(w)
  BY DEF AddProduct
<1>4. Table(w) \in Word /\ Truncate(w) \in Int  BY <1>3, Shape, TableInWord, WeightIsInt
<1>5. in[i] \in Word /\ emuIn[i] \in Word /\ Inputs \in Nat
  BY <1>1, LayerSizes DEF LoopInv, TypeOK
<1>6. in[i] * Table(w) \in (-(Wide * Wide))..(Wide * Wide)
  <2>1. Wide \in Nat /\ in[i] \in (-Wide)..Wide /\ Table(w) \in (-Wide)..Wide
    BY <1>4, <1>5, Widths
  <2> QED  BY <2>1, ProductBound
<1>7. i \in Nat /\ acc \in (-Reach(i - 1))..Reach(i - 1)
  BY <1>1, <1>5 DEF LoopInv, AccBounded
<1>8. Reach(i - 1) \in Nat /\ Reach(i) = Reach(i - 1) + Wide * Wide
  <2> DEFINE sq == Wide * Wide
  <2>1. sq \in Nat /\ i \in Nat \ {0} /\ Wide * Scale \in Nat  BY <1>1, <1>5, Widths
  <2> HIDE DEF sq
  <2>2. (i - 1) * sq \in Nat /\ i * sq = (i - 1) * sq + sq  BY <2>1
  <2> QED  BY <2>1, <2>2 DEF Reach, sq
<1>9. acc' \in (-Reach(i))..Reach(i)
  <2> DEFINE sq == Wide * Wide
             p == in[i] * Table(w)
             r == Reach(i - 1)
  <2>1. sq \in Nat /\ p \in (-sq)..sq /\ r \in Nat /\ acc \in (-r)..r /\ acc' = acc + p
    BY <1>3, <1>6, <1>7, <1>8, Widths
  <2>2. Reach(i) = r + sq  BY <1>8
  <2> HIDE DEF sq, p, r
  <2> QED  BY <2>1, <2>2
<1>10. sum' \in Int /\ bias' \in Int /\ wide' \in BOOLEAN
  <2>1. wide' \in BOOLEAN  BY <1>3 DEF Read, LoopInv, TypeOK
  <2>2. emuIn[i] \in Int /\ sum \in Int /\ bias \in Int
    BY <1>5, Widths DEF LoopInv, TypeOK
  <2> DEFINE p == emuIn[i] * Truncate(w)
  <2>3. p \in Int /\ sum' = sum + p  BY <1>3, <1>4, <2>2
  <2> HIDE DEF p
  <2> QED  BY <1>1, <2>1, <2>2, <2>3
<1>11. acc' \in Int  BY <1>9, <1>8, Widths
<1>12. TypeOK'
  BY <1>1, <1>2, <1>5, <1>10, <1>11 DEF LoopInv, TypeOK
<1>13. AccBounded'
  <2>1. Reach(i)' = Reach(i') /\ Reach(i' - 1) = Reach(i)  BY <1>1, <1>7 DEF Reach, Wide
  <2> QED  BY <1>1, <1>9, <2>1 DEF AccBounded, Reach, Wide
<1> QED  BY <1>12, <1>13 DEF LoopInv

\* A finished neuron is stored, and after the last one of a layer the next layer
\* reads what this one wrote (main.c:94-107).
LEMMA StoreStep == ASSUME LoopInv, StoreNeuron PROVE LoopInv'
<1> DEFINE v == Rectified(Narrowed(acc))
           o == Append(out, v)
           u == EmulatedNeuron
           e == Append(emuOut, u)
           last == Len(out) = Neurons - 1
<1>1. /\ Running /\ i' = 0 /\ acc' = 0 /\ sum' = 0 /\ bias' = 0 /\ wide' = wide
      /\ out' = IF last /\ ~LastLayer THEN << >> ELSE o
      /\ in' = IF last /\ ~LastLayer THEN o ELSE in
      /\ emuOut' = IF last /\ ~LastLayer THEN << >> ELSE e
      /\ emuIn' = IF last /\ ~LastLayer THEN e ELSE emuIn
      /\ layer' = IF last THEN layer + 1 ELSE layer
  BY DEF StoreNeuron
<1>2. v \in Word /\ u \in Word  BY StoredIsWord, EmulatedIsWord DEF LoopInv, TypeOK
<1> HIDE DEF v, u
<1>3. /\ o \in Seq(Word) /\ Len(o) = Len(out) + 1 /\ Len(out) \in Nat
      /\ e \in Seq(Word) /\ Len(e) = Len(o)
  BY <1>2 DEF LoopInv, TypeOK
<1>4. /\ layer \in Nat /\ layer + 1 \in 1..Len(Sizes) /\ layer \in 1..Len(Sizes)
      /\ Inputs \in Nat \ {0} /\ Neurons \in Nat \ {0} /\ Len(out) < Neurons
      /\ LastLayer => layer + 1 = Len(Sizes) /\ Neurons = 3
      /\ ~LastLayer => layer + 1 \in Layers
  BY <1>1, LayerSizes DEF LoopInv, TypeOK
<1>5. AccBounded'  BY <1>1 DEF AccBounded
<1>6. CASE ~last
  <2>1. out' = o /\ in' = in /\ emuOut' = e /\ emuIn' = emuIn /\ layer' = layer  BY <1>1, <1>6
  <2>2. Running' /\ Inputs' = Inputs /\ Neurons' = Neurons
    BY <1>1, <2>1 DEF Running, Layers, Inputs, Neurons
  <2>3. Len(o) < Neurons  BY <1>3, <1>4, <1>6
  <2>4. TypeOK'
    BY <1>1, <1>3, <1>4, <2>1, <2>2, <2>3 DEF LoopInv, TypeOK
  <2> QED  BY <1>5, <2>4 DEF LoopInv
<1>7. CASE last /\ ~LastLayer
  <2>1. out' = << >> /\ in' = o /\ emuOut' = << >> /\ emuIn' = e /\ layer' = layer + 1  BY <1>1, <1>7
  <2>2. Running' /\ Inputs' = Neurons  BY <1>4, <1>7, <2>1 DEF Running, Layers, Inputs, Neurons
  <2>3. layer' \in 1..Len(Sizes) /\ layer' + 1 \in 1..Len(Sizes)
    BY <1>4, <1>7, <2>1, Shape DEF Layers
  <2>4. Neurons' \in Nat \ {0}  BY <2>3, Shape DEF Neurons
  <2>5. Len(o) = Neurons  BY <1>3, <1>4, <1>7
  <2>6. TypeOK'
    BY <1>1, <1>3, <1>4, <2>1, <2>2, <2>3, <2>4, <2>5 DEF LoopInv, TypeOK
  <2> QED  BY <1>5, <2>6 DEF LoopInv
<1>8. CASE last /\ LastLayer
  <2>1. out' = o /\ in' = in /\ emuOut' = e /\ emuIn' = emuIn /\ layer' = Len(Sizes)  BY <1>1, <1>4, <1>8
  <2>2. ~Running'  BY <2>1, Shape DEF Running, Layers
  <2>3. Len(o) = 3  BY <1>3, <1>4, <1>8
  <2>4. TypeOK'
    BY <1>1, <1>3, <1>4, <2>1, <2>2, <2>3, Shape DEF LoopInv, TypeOK
  <2> QED  BY <1>5, <2>4 DEF LoopInv
<1> QED  BY <1>6, <1>7, <1>8

\* The invariant is inductive.
LEMMA StepPreserves == ASSUME LoopInv, [Next]_vars PROVE LoopInv'
<1>1. CASE LoadBias  BY <1>1, BiasStep
<1>2. CASE AddProduct  BY <1>2, ProductStep
<1>3. CASE StoreNeuron  BY <1>3, StoreStep
<1>4. CASE UNCHANGED vars
  BY <1>4 DEF vars, LoopInv, TypeOK, AccBounded, Running, Layers, Inputs, Neurons, Reach, Wide
<1> QED  BY <1>1, <1>2, <1>3, <1>4 DEF Next, Done

\* The loops keep their invariant in every inference (main.c:86-111).
THEOREM LoopInvariant == Spec => []LoopInv
<1>1. Init => LoopInv  BY InitEstablishes
<1>2. LoopInv /\ [Next]_vars => LoopInv'  BY StepPreserves
<1> QED  BY <1>1, <1>2, PTL DEF Spec

-----------------------------------------------------------------------------
\* At the end of the loop the bound is what the assumption on the network allows.
LEMMA BoundIsNarrow == LoopInv => NarrowingIsExact
<1> SUFFICES ASSUME LoopInv, Running, i = Inputs + 1
             PROVE  Low(Shift(acc), IntTop) = Shift(acc)
  BY DEF NarrowingIsExact
<1> DEFINE m == IntTop
<1>1. Inputs \in Nat \ {0} /\ layer \in Layers
  BY LayerSizes DEF LoopInv, TypeOK, Running
<1>2. (Inputs * Wide + Scale) * Wide <= Scale * IntTop
  BY <1>1, NetworkAssumption DEF Layers, Inputs, Wide
<1>3. Reach(Inputs) = (Inputs * Wide + Scale) * Wide /\ Reach(Inputs) \in Nat
  <2> DEFINE n == Inputs
  <2>1. n \in Nat /\ Wide \in Nat /\ Scale \in Nat  BY <1>1, Widths
  <2> HIDE DEF n
  <2>2. Wide * Scale + n * (Wide * Wide) = (n * Wide + Scale) * Wide
    <3>1. (n * Wide + Scale) * Wide = (n * Wide) * Wide + Scale * Wide  BY <2>1
    <3>2. (n * Wide) * Wide = n * (Wide * Wide) /\ Scale * Wide = Wide * Scale  BY <2>1
    <3> QED  BY <2>1, <3>1, <3>2
  <2>3. Wide * Scale + n * (Wide * Wide) \in Nat  BY <2>1
  <2> QED  BY <2>2, <2>3 DEF Reach, n
<1>4. acc \in (-Reach(Inputs))..Reach(Inputs)
  <2>1. i - 1 = Inputs /\ i >= 1  BY <1>1
  <2> QED  BY <2>1 DEF LoopInv, AccBounded
<1>5. acc \in (-(Scale * IntTop))..(Scale * IntTop)
  <2> DEFINE r == Reach(Inputs)
             c == Scale * IntTop
  <2>1. r \in Nat /\ c \in Nat /\ r <= c /\ acc \in (-r)..r
    BY <1>2, <1>3, <1>4, Widths
  <2> HIDE DEF r, c
  <2>2. acc \in (-c)..c  BY <2>1
  <2> QED  BY <2>2 DEF c
<1>6. Shift(acc) \in (-IntTop)..IntTop
  BY <1>5, Widths, QuotientBound DEF Shift
<1>7. Shift(acc) \in (-IntTop - 1)..IntTop  BY <1>6, Widths
<1> QED  BY <1>7, Widths, LowIsIdentity

\* The arrays of the processor hold words and its loops stay in bounds, for every
\* network, model and feature vector (main.c:69-111).
THEOREM ArraysHoldWords == Spec => []TypeOK
<1>1. LoopInv => TypeOK  BY DEF LoopInv
<1> QED  BY <1>1, LoopInvariant, PTL

\* No accumulator loses anything when it is shifted and narrowed to s32, for
\* every network that NetworkAssumption admits (main.c:90-94).
THEOREM AccumulatorFits == Spec => []NarrowingIsExact
<1>1. LoopInv => NarrowingIsExact  BY BoundIsNarrow
<1> QED  BY <1>1, LoopInvariant, PTL

\* The class that is answered has the largest score but for the tie of HOLD and
\* BUY, for all three words the last layer can leave (main.c:108-110).
THEOREM LargestIsAnswered == Spec => []DecisionIsLargest
<1>1. LoopInv => DecisionIsLargest
  <2> SUFFICES ASSUME LoopInv, ~Running
               PROVE  LET d == Decision(out) + 1 IN
                      (\A k \in 1..3 : out[d] >= out[k]) \/ (d = 1 /\ out[2] = out[3])
    BY DEF DecisionIsLargest
  <2>1. Len(out) = 3 /\ out \in Seq(Word)  BY DEF LoopInv, TypeOK
  <2>2. out[1] \in Int /\ out[2] \in Int /\ out[3] \in Int
    <3>1. out[1] \in Word /\ out[2] \in Word /\ out[3] \in Word  BY <2>1
    <3> QED  BY <3>1, Widths
  <2>3. CASE out[2] > out[1] /\ out[2] > out[3]
    <3>1. Decision(out) + 1 = 2  BY <2>3 DEF Decision
    <3>2. \A k \in 1..3 : out[2] >= out[k]  BY <2>2, <2>3
    <3> QED  BY <3>1, <3>2
  <2>4. CASE ~(out[2] > out[1] /\ out[2] > out[3]) /\ out[3] > out[1] /\ out[3] > out[2]
    <3>1. Decision(out) + 1 = 3  BY <2>4 DEF Decision
    <3>2. \A k \in 1..3 : out[3] >= out[k]  BY <2>2, <2>4
    <3> QED  BY <3>1, <3>2
  <2>5. CASE /\ ~(out[2] > out[1] /\ out[2] > out[3])
             /\ ~(out[3] > out[1] /\ out[3] > out[2])
    <3>1. Decision(out) + 1 = 1  BY <2>5 DEF Decision
    <3>2. (\A k \in 1..3 : out[1] >= out[k]) \/ out[2] = out[3]  BY <2>2, <2>5
    <3> QED  BY <3>1, <3>2
  <2> QED  BY <2>3, <2>4, <2>5
<1> QED  BY <1>1, LoopInvariant, PTL

-----------------------------------------------------------------------------
(* The two programs agree.                                                  *)

\* While no weight was too wide, the arrays are the same and the script's sum and
\* bias make up the accumulator.
Agreement ==
  ~wide => /\ in = emuIn /\ out = emuOut
           /\ i >= 1 => acc = sum + bias * Scale

\* A weight that fits into a word is the same in the tables and in the script's
\* matrices (main.c:291-300, verify_bitexact.py:85-86).
LEMMA TableIsTruncate ==
  ASSUME NEW x \in Int, Truncate(x) \in Word PROVE Table(x) = Truncate(x)
<1>1. /\ Top \in Nat /\ IntTop \in Nat /\ Top < IntTop
      /\ Truncate(x) \in (-Top - 1)..Top
  BY WidthAssumption DEF Word, Bottom
<1>2. WeightInt(x) = Truncate(x)  BY <1>1 DEF WeightInt
<1> QED  BY <1>1, <1>2, LowIsIdentity DEF Table

\* A neuron is the same in both, if the accumulator is (main.c:94-96,
\* verify_bitexact.py:121-124).
LEMMA NeuronsAgree ==
  ASSUME LoopInv, Running, i = Inputs + 1, acc = sum + bias * Scale
  PROVE  Rectified(Narrowed(acc)) = EmulatedNeuron
<1>1. Narrowed(acc) = Saturate(Shift(acc))
  BY BoundIsNarrow DEF NarrowingIsExact, Narrowed
<1>2. Saturate(Shift(acc)) \in Int
  <2>1. Shift(acc) \in Int  BY Widths DEF Shift, LoopInv, TypeOK
  <2> QED  BY <2>1, SaturateInWord, Widths
<1> DEFINE v == Saturate(Shift(acc))
<1>3. Rectified(v) = IF LastLayer THEN v ELSE IF v > 0 THEN v ELSE 0
  BY <1>2 DEF Rectified
<1> QED  BY <1>1, <1>3 DEF EmulatedNeuron

\* Every step keeps the agreement.
LEMMA AgreementStep ==
  ASSUME LoopInv, Agreement, [Next]_vars PROVE Agreement'
<1>1. CASE LoadBias
  <2> SUFFICES ASSUME ~wide' PROVE in' = emuIn' /\ out' = emuOut' /\ acc' = sum' + bias' * Scale
    BY DEF Agreement
  <2>1. PICK b \in Floats : /\ acc' = Table(b) * Scale /\ bias' = Truncate(b)
                            /\ wide' = (wide \/ Truncate(b) \notin Word)
    BY <1>1 DEF LoadBias, Read
  <2>2. ~wide /\ Truncate(b) \in Word  BY <2>1
  <2>3. Table(b) = Truncate(b) /\ Truncate(b) \in Int
    BY <2>2, Shape, TableIsTruncate, Widths
  <2>4. /\ sum' = 0 /\ in' = in /\ out' = out /\ emuIn' = emuIn /\ emuOut' = emuOut
    BY <1>1 DEF LoadBias
  <2>5. bias' * Scale \in Int  BY <2>1, <2>3, Widths
  <2>6. acc' = bias' * Scale  BY <2>1, <2>3
  <2>7. in = emuIn /\ out = emuOut  BY <2>2 DEF Agreement
  <2> QED  BY <2>4, <2>5, <2>6, <2>7
<1>2. CASE AddProduct
  <2> SUFFICES ASSUME ~wide' PROVE in' = emuIn' /\ out' = emuOut' /\ acc' = sum' + bias' * Scale
    BY DEF Agreement
  <2>1. PICK w \in Floats : /\ acc' = acc + in[i] * Table(w)
                            /\ sum' = sum + emuIn[i] * Truncate(w)
                            /\ wide' = (wide \/ Truncate(w) \notin Word)
    BY <1>2 DEF AddProduct, Read
  <2>2. ~wide /\ Truncate(w) \in Word  BY <2>1
  <2>3. Table(w) = Truncate(w) /\ Truncate(w) \in Int
    BY <2>2, Shape, TableIsTruncate, Widths
  <2>4. /\ Running /\ i \in 1..Inputs /\ bias' = bias
        /\ in' = in /\ out' = out /\ emuIn' = emuIn /\ emuOut' = emuOut
    BY <1>2 DEF AddProduct
  <2>5. in[i] \in Int /\ sum \in Int /\ bias \in Int
    <3>1. in \in Seq(Word) /\ Len(in) = Inputs  BY <2>4 DEF LoopInv, TypeOK
    <3>2. in[i] \in Word  BY <2>4, <3>1
    <3> QED  BY <3>2, Widths DEF LoopInv, TypeOK
  <2>6. in = emuIn /\ out = emuOut /\ acc = sum + bias * Scale
    BY <2>2, <2>4, LayerSizes DEF Agreement, LoopInv, TypeOK
  <2>7. in[i] * Truncate(w) \in Int /\ bias * Scale \in Int  BY <2>3, <2>5, Widths
  <2> DEFINE p == in[i] * Truncate(w)
             q == bias * Scale
  <2>8. acc' = (sum + q) + p /\ sum' = sum + p /\ p \in Int /\ q \in Int
    BY <2>1, <2>3, <2>6, <2>7
  <2>9. bias' * Scale = q  BY <2>4
  <2> HIDE DEF p, q
  <2>10. acc' = sum' + q  BY <2>5, <2>8
  <2> QED  BY <2>4, <2>6, <2>9, <2>10
<1>3. CASE StoreNeuron
  <2> SUFFICES ASSUME ~wide' PROVE in' = emuIn' /\ out' = emuOut'
    BY <1>3 DEF Agreement, StoreNeuron
  <2>1. Running /\ i = Inputs + 1 /\ wide' = wide  BY <1>3 DEF StoreNeuron
  <2>2. i >= 1  BY <2>1, LayerSizes DEF LoopInv, TypeOK
  <2>3. in = emuIn /\ out = emuOut /\ acc = sum + bias * Scale
    BY <2>1, <2>2 DEF Agreement
  <2>4. Rectified(Narrowed(acc)) = EmulatedNeuron  BY <2>1, <2>3, NeuronsAgree
  <2> QED  BY <1>3, <2>3, <2>4 DEF StoreNeuron
<1>4. CASE UNCHANGED vars  BY <1>4 DEF vars, Agreement
<1> QED  BY <1>1, <1>2, <1>3, <1>4 DEF Next, Done

\* The processor and the script compute the same network, for every network that
\* NetworkAssumption admits, every model whose weights fit into words and every
\* feature vector (main.c:76-111, verify_bitexact.py:115-126).
THEOREM SameNetworkComputed == Spec => []ImplementationsAgree
<1>1. Init => LoopInv /\ Agreement  BY InitEstablishes DEF Init, Agreement
<1>2. LoopInv /\ Agreement /\ [Next]_vars => (LoopInv /\ Agreement)'
  BY StepPreserves, AgreementStep
<1>3. Agreement => ImplementationsAgree  BY DEF Agreement, ImplementationsAgree
<1> QED  BY <1>1, <1>2, <1>3, PTL DEF Spec
=============================================================================
