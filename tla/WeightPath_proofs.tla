------------------------- MODULE WeightPath_proofs -------------------------
(***************************************************************************)
(* For every template of layers that fits into the memory and every          *)
(* checkpoint: the loader writes each register of the weight memory at most  *)
(* once, and when it is done the core finds the trained network there.       *)
(***************************************************************************)
EXTENDS WeightPath, DataInduction

Brams == 0..(Lanes * Inputs + Lanes - 1)

-----------------------------------------------------------------------------
(* Addresses.                                                               *)

\* Two registers have one address only if they are one register.
LEMMA AddressesDiffer ==
  ASSUME NEW b \in Brams, NEW c \in Brams,
         NEW v \in 0..(Words - 1), NEW w \in 0..(Words - 1),
         Address(b, v) = Address(c, w)
  PROVE  b = c /\ v = w
<1>0. Inputs \in Nat \ {0} /\ Words \in Nat \ {0}  BY ShapesAssumption
<1>1. b \in Nat /\ c \in Nat /\ v \in Nat /\ w \in Nat /\ v < Words /\ w < Words
  BY <1>0 DEF Brams, Lanes
<1>2. b * Words \in Nat /\ c * Words \in Nat  BY <1>0, <1>1
<1>3. ASSUME NEW x \in Nat, NEW y \in Nat, x < y
      PROVE  x * Words + Words <= y * Words
  <2>1. PICK d \in Nat : y = x + 1 + d
    <3>1. y - x - 1 \in Nat /\ y = x + 1 + (y - x - 1)  BY <1>0, <1>3
    <3> QED  BY <3>1
  <2>2. y * Words = x * Words + Words + d * Words  BY <1>0, <2>1
  <2>3. d * Words \in Nat /\ x * Words \in Nat  BY <1>0, <2>1
  <2> QED  BY <1>0, <2>2, <2>3
<1>4. ~(b < c)  BY <1>0, <1>1, <1>2, <1>3 DEF Address
<1>5. ~(c < b)  BY <1>0, <1>1, <1>2, <1>3 DEF Address
<1>6. b = c  BY <1>0, <1>1, <1>4, <1>5
<1> QED  BY <1>0, <1>1, <1>2, <1>6 DEF Address

\* Every BRAM and word index the loader can reach is one register of the core.
LEMMA AddressInRange ==
  ASSUME NEW b \in Brams, NEW w \in 0..(Words - 1)
  PROVE  Address(b, w) \in Addresses
<1>0. Inputs \in Nat \ {0} /\ Words \in Nat \ {0}  BY ShapesAssumption
<1> DEFINE m == Lanes * Inputs + Lanes
<1>1. m \in Nat /\ b \in Nat /\ b + 1 <= m /\ w \in Nat /\ w < Words
  BY <1>0 DEF Brams, Lanes
<1> HIDE DEF m
<1>2. PICK d \in Nat : m = b + 1 + d
  <2>1. m - b - 1 \in Nat /\ m = b + 1 + (m - b - 1)  BY <1>0, <1>1
  <2> QED  BY <2>1
<1>3. m * Words = b * Words + Words + d * Words  BY <1>0, <1>1, <1>2
<1>4. b * Words \in Nat /\ d * Words \in Nat  BY <1>0, <1>1, <1>2
<1>5. b * Words + w \in 0..(m * Words - 1)  BY <1>0, <1>1, <1>3, <1>4
<1> QED  BY <1>5 DEF Address, Addresses, m

\* Every layer fills at least one row of words.
LEMMA RowsPositive ==
  ASSUME NEW l \in 1..LayerCount
  PROVE  Rows(l) \in Nat \ {0}
<1>1. LoaderShapes[l] \in Shape  BY ShapesAssumption DEF LayerCount
<1>2. LoaderShapes[l].out \in Nat \ {0}  BY <1>1 DEF Shape
<1>3. \A x \in Nat : x >= 3 => x \div 3 \in Nat \ {0}
  OBVIOUS
<1>4. LoaderShapes[l].out + 3 - 1 \in Nat /\ LoaderShapes[l].out + 3 - 1 >= 3  BY <1>2
<1> QED  BY <1>3, <1>4 DEF Rows, Lanes

-----------------------------------------------------------------------------
(* The checkpoint: what is packed of it does not change.                    *)

\* The packed weights, biases and buffer are functions of the checkpoint.
LEMMA PackedSame ==
  ASSUME trained' = trained
  PROVE  /\ Kept' = Kept /\ Packed' = Packed
         /\ \A l, j, x : PackedWeight(l, j, x)' = PackedWeight(l, j, x)
         /\ \A l, j : PackedBias(l, j)' = PackedBias(l, j)
<1>1. Kept' = Kept  BY DEF Kept
<1>2. /\ \A l, j, x : PackedWeight(l, j, x)' = PackedWeight(l, j, x)
      /\ \A l, j : PackedBias(l, j)' = PackedBias(l, j)
  BY <1>1 DEF PackedWeight, PackedBias
<1>3. Packed' = Packed  BY <1>1 DEF Packed, Block, PackedWeight, PackedBias
<1> QED  BY <1>1, <1>2, <1>3

-----------------------------------------------------------------------------
(* The invariant: the registers written so far lie before the cursor.       *)

\* f[l] is the first word of layer l.
FirstWords(f) ==
  /\ f \in [1..(LayerCount + 1) -> 0..Words]
  /\ f[1] = 0 /\ \A l \in 1..LayerCount : f[l + 1] = f[l] + Rows(l)

CursorInv ==
  /\ trained \in Trained /\ buffer = Packed
  /\ layer \in 1..(LayerCount + 1)
  /\ n \in 0..(Lanes - 1) /\ i \in 0..Inputs /\ k \in Nat /\ base \in 0..Words
  /\ layer <= LayerCount => k < Rows(layer) /\ base + Rows(layer) <= Words
  /\ layer > LayerCount => k = 0 /\ n = 0 /\ i = 0
  /\ \A f : FirstWords(f) => base = f[layer]

\* Slot of a memory: weights 0 to 2, biases 3.
Before(b, w) ==
  \/ w < base + k
  \/ /\ w = base + k
     /\ \/ b < n * Inputs + i
        \/ Lanes * Inputs <= b /\ b < Lanes * Inputs + n

MemoryInv ==
  /\ DOMAIN mem = Addresses
  /\ \A b \in Brams, w \in 0..(Words - 1) :
       mem[Address(b, w)] # Old => Before(b, w)

LoadInv == CursorInv /\ MemoryInv

\* The loader starts before the first word of the first layer.
LEMMA LoadInit == Init => LoadInv
<1> SUFFICES ASSUME Init PROVE LoadInv
  OBVIOUS
<1>1. LayerCount \in Nat \ {0}
  BY ShapesAssumption DEF LayerCount
<1>2. PICK f : FirstWords(f)  BY FitAssumption DEF FirstWords
<1>3. Rows(1) \in Nat \ {0}  BY <1>1, RowsPositive
<1>4. f[2] = Rows(1) /\ f[2] \in 0..Words
  <2>1. 1 \in 1..LayerCount /\ 2 \in 1..(LayerCount + 1)  BY <1>1
  <2> QED  BY <1>2, <1>3, <2>1 DEF FirstWords
<1>5. CursorInv
  BY <1>1, <1>3, <1>4, ShapesAssumption DEF Init, CursorInv, FirstWords, Lanes
<1>6. MemoryInv
  <2>1. ASSUME NEW b \in Brams, NEW w \in 0..(Words - 1)
        PROVE  Address(b, w) \in Addresses
    BY AddressInRange
  <2> QED  BY <2>1 DEF Init, MemoryInv
<1> QED  BY <1>5, <1>6 DEF LoadInv

\* A write behind the cursor's old place and before its new one.
LEMMA OneWrite ==
  ASSUME MemoryInv, NEW b \in Brams, NEW w \in 0..(Words - 1), NEW val,
         mem' = [mem EXCEPT ![Address(b, w)] = val],
         ~Before(b, w), Before(b, w)',
         \A c \in Brams, v \in 0..(Words - 1) : Before(c, v) => Before(c, v)'
  PROVE  /\ MemoryInv'
         /\ \A a \in Addresses : mem'[a] # mem[a] => mem[a] = Old
<1>1. Address(b, w) \in Addresses  BY AddressInRange
<1>2. mem[Address(b, w)] = Old  BY DEF MemoryInv
<1>3. /\ DOMAIN mem' = Addresses
      /\ \A a \in Addresses : a # Address(b, w) => mem'[a] = mem[a]
  BY DEF MemoryInv
<1>4. ASSUME NEW c \in Brams, NEW v \in 0..(Words - 1), mem'[Address(c, v)] # Old
      PROVE  Before(c, v)'
  <2>1. CASE Address(c, v) = Address(b, w)
    <3>1. c = b /\ v = w  BY <2>1, AddressesDiffer
    <3> QED  BY <3>1
  <2>2. CASE Address(c, v) # Address(b, w)
    <3>1. mem[Address(c, v)] # Old  BY <1>3, <1>4, <2>2, AddressInRange
    <3> QED  BY <3>1 DEF MemoryInv
  <2> QED  BY <2>1, <2>2
<1>5. MemoryInv'
  BY <1>3, <1>4 DEF MemoryInv
<1> QED  BY <1>2, <1>3, <1>5

WriteOnce == \A a \in Addresses : mem'[a] # mem[a] => mem[a] = Old

\* The products of a slot number and Inputs.
LEMMA SlotProducts ==
  ASSUME CursorInv
  PROVE  /\ Inputs \in Nat \ {0} /\ Words \in Nat \ {0} /\ Lanes * Inputs \in Nat
         /\ n * Inputs \in Nat /\ (n + 1) * Inputs = n * Inputs + Inputs
         /\ n * Inputs + Inputs <= Lanes * Inputs
<1>1. Inputs \in Nat \ {0} /\ Words \in Nat \ {0}  BY ShapesAssumption
<1>2. n = 0 \/ n = 1 \/ n = 2  BY DEF CursorInv, Lanes
<1> QED  BY <1>1, <1>2 DEF Lanes

\* The word under the cursor is one of the memory.
LEMMA WordInMemory ==
  ASSUME CursorInv, layer <= LayerCount
  PROVE  /\ layer \in 1..LayerCount /\ Rows(layer) \in Nat \ {0}
         /\ base + k \in 0..(Words - 1)
<1>1. LayerCount \in Nat  BY ShapesAssumption DEF LayerCount
<1>2. layer \in 1..LayerCount  BY <1>1 DEF CursorInv
<1>3. Rows(layer) \in Nat \ {0}  BY <1>2, RowsPositive
<1> QED  BY <1>2, <1>3, ShapesAssumption DEF CursorInv

\* Writing a weight fills a register that was still empty.
LEMMA WeightStep ==
  ASSUME LoadInv, WriteWeight PROVE LoadInv' /\ WriteOnce
<1>1. CursorInv /\ MemoryInv  BY DEF LoadInv
<1>2. /\ layer <= LayerCount /\ i < Inputs /\ i' = i + 1
      /\ mem' = [mem EXCEPT ![Address(n * Inputs + i, base + k)] = SlotWeight]
      /\ UNCHANGED <<trained, buffer, layer, base, k, n>>
  BY DEF WriteWeight
<1>3. base + k \in 0..(Words - 1) /\ i \in Nat
  BY <1>1, <1>2, WordInMemory, SlotProducts DEF CursorInv
<1>4. n * Inputs + i \in Brams /\ n * Inputs + i < Lanes * Inputs
  <2>1. Lanes \in Nat  BY DEF Lanes
  <2> QED  BY <1>1, <1>2, <1>3, <2>1, SlotProducts DEF Brams
<1>5. PICK b \in Brams, w \in 0..(Words - 1) : b = n * Inputs + i /\ w = base + k
  BY <1>3, <1>4
<1>6. b \in Nat /\ w \in Nat /\ b < Lanes * Inputs
  BY <1>1, <1>3, <1>4, <1>5, SlotProducts
<1>7. ~Before(b, w)  BY <1>1, <1>3, <1>5, <1>6, SlotProducts DEF Before
<1>8. n' * Inputs + i' = n * Inputs + i + 1 /\ base' + k' = base + k
  BY <1>1, <1>2, <1>3, SlotProducts
<1>9. Before(b, w)'
  BY <1>1, <1>3, <1>5, <1>6, <1>8, SlotProducts DEF Before
<1>10. ASSUME NEW c \in Brams, NEW v \in 0..(Words - 1), Before(c, v)
       PROVE  Before(c, v)'
  <2>1. c \in Nat  BY <1>1, SlotProducts DEF Brams, Lanes
  <2>2. n' = n  BY <1>2
  <2>3. c < n * Inputs + i => c < n' * Inputs + i'
    BY <1>1, <1>3, <1>8, <2>1, SlotProducts
  <2> QED  BY <1>8, <1>10, <2>2, <2>3 DEF Before
<1>11. CursorInv'
  <2>1. i' \in 0..Inputs  BY <1>1, <1>2, <1>3, SlotProducts
  <2>2. LayerCount \in Nat  BY ShapesAssumption DEF LayerCount
  <2>3. ~(layer > LayerCount)  BY <1>1, <1>2, <2>2 DEF CursorInv
  <2>4. buffer' = Packed'  BY <1>1, <1>2, PackedSame DEF CursorInv
  <2> QED  BY <1>1, <1>2, <2>1, <2>3, <2>4 DEF CursorInv
<1>12. mem' = [mem EXCEPT ![Address(b, w)] = SlotWeight]  BY <1>2, <1>5
<1> QED  BY <1>1, <1>7, <1>9, <1>10, <1>11, <1>12, OneWrite DEF LoadInv, WriteOnce

\* The cursor after a bias: next slot, next word or next layer.
LEMMA BiasCursor ==
  ASSUME CursorInv, WriteBias PROVE CursorInv'
<1> USE DEF Lanes
<1>1. /\ layer \in 1..LayerCount /\ Rows(layer) \in Nat \ {0}
      /\ base \in Nat /\ k \in Nat /\ n \in 0..2 /\ k < Rows(layer)
      /\ Words \in Nat /\ Inputs \in Nat /\ LayerCount \in Nat
  BY WordInMemory, ShapesAssumption DEF WriteBias, CursorInv, LayerCount
<1>2. i' = 0 /\ i' \in 0..Inputs /\ trained' = trained /\ buffer' = Packed'
  BY <1>1, PackedSame DEF WriteBias, CursorInv
<1>3. CASE n # 2
  <2>1. n' = n + 1 /\ UNCHANGED <<layer, base, k>>
    BY <1>1, <1>3 DEF WriteBias
  <2> QED  BY <1>1, <1>2, <1>3, <2>1 DEF CursorInv
<1>4. CASE n = 2 /\ k # Rows(layer) - 1
  <2>1. n' = 0 /\ k' = k + 1 /\ UNCHANGED <<layer, base>>
    BY <1>4 DEF WriteBias
  <2> QED  BY <1>1, <1>2, <1>4, <2>1 DEF CursorInv
<1>5. CASE n = 2 /\ k = Rows(layer) - 1
  <2>1. n' = 0 /\ k' = 0 /\ layer' = layer + 1 /\ base' = base + Rows(layer)
    BY <1>5 DEF WriteBias, Advanced
  <2>2. \A f : FirstWords(f) => base' = f[layer']
    BY <1>1, <2>1 DEF FirstWords, CursorInv
  <2>3. PICK f : FirstWords(f)  BY FitAssumption DEF FirstWords
  <2>4. base' \in 0..Words  BY <1>1, <2>1 DEF CursorInv
  <2>5. ASSUME layer' <= LayerCount
        PROVE  k' < Rows(layer') /\ base' + Rows(layer') <= Words
    <3>1. layer' \in 1..LayerCount  BY <1>1, <2>1, <2>5
    <3>2. Rows(layer') \in Nat \ {0}  BY <3>1, RowsPositive
    <3>3. f[layer' + 1] = f[layer'] + Rows(layer') /\ f[layer' + 1] \in 0..Words
      <4>1. layer' + 1 \in 1..(LayerCount + 1)
        <5>1. \A x \in 1..LayerCount : x + 1 \in 1..(LayerCount + 1)  BY <1>1
        <5> QED  BY <3>1, <5>1
      <4>2. f[layer' + 1] = f[layer'] + Rows(layer')
        BY <2>3, <3>1 DEF FirstWords
      <4> QED  BY <2>3, <4>1, <4>2 DEF FirstWords
    <3>4. base' = f[layer']  BY <2>2, <2>3
    <3> QED  BY <1>1, <2>1, <3>2, <3>3, <3>4
  <2> QED  BY <1>1, <1>2, <2>1, <2>2, <2>4, <2>5 DEF CursorInv
<1> QED  BY <1>3, <1>4, <1>5

\* Writing a bias fills an empty register and moves on to the next lane,
\* word or layer.
LEMMA BiasStep ==
  ASSUME LoadInv, WriteBias PROVE LoadInv' /\ WriteOnce
<1>1. CursorInv /\ MemoryInv  BY DEF LoadInv
<1>2. /\ layer <= LayerCount /\ i = Inputs /\ i' = 0
      /\ mem' = [mem EXCEPT ![Address(Lanes * Inputs + n, base + k)] = SlotBias]
  BY DEF WriteBias
<1>3. base + k \in 0..(Words - 1) /\ n \in 0..2 /\ base \in Nat /\ k \in Nat
  BY <1>1, <1>2, WordInMemory DEF CursorInv, Lanes
<1>4. Lanes * Inputs + n \in Brams
  <2>1. Lanes * Inputs + n <= Lanes * Inputs + Lanes - 1
    BY <1>1, <1>3, SlotProducts DEF Lanes
  <2>2. Lanes * Inputs + Lanes - 1 \in Nat  BY <1>1, SlotProducts DEF Lanes
  <2> QED  BY <1>1, <1>3, <2>1, <2>2, SlotProducts DEF Brams
<1>5. PICK b \in Brams, w \in 0..(Words - 1) : b = Lanes * Inputs + n /\ w = base + k
  BY <1>3, <1>4
<1>6. b \in Nat /\ w \in Nat /\ b >= Lanes * Inputs
  BY <1>1, <1>3, <1>5, SlotProducts
<1>7. ~Before(b, w)
  <2>1. n * Inputs + i <= Lanes * Inputs  BY <1>1, <1>2, SlotProducts
  <2>2. ~(b < n * Inputs + i)
    BY <1>1, <1>2, <1>3, <1>6, <2>1, SlotProducts
  <2>3. ~(b < Lanes * Inputs + n) /\ ~(w < base + k)
    BY <1>3, <1>5, <1>6
  <2> QED  BY <2>2, <2>3 DEF Before
<1>8. \/ n' = n + 1 /\ base' + k' = base + k
      \/ base' + k' = base + k + 1
  <2>1. CASE n # 2
    BY <1>3, <2>1 DEF WriteBias, Lanes
  <2>2. CASE n = 2 /\ k # Rows(layer) - 1
    BY <1>3, <2>2 DEF WriteBias, Lanes
  <2>3. CASE n = 2 /\ k = Rows(layer) - 1
    <3>1. k' = 0 /\ base' = base + Rows(layer)
      BY <2>3 DEF WriteBias, Lanes, Advanced
    <3>2. Rows(layer) \in Nat  BY <1>1, <1>2, WordInMemory
    <3> QED  BY <1>3, <2>3, <3>1, <3>2
  <2> QED  BY <2>1, <2>2, <2>3
<1>9. Before(b, w)' /\ \A c \in Brams, v \in 0..(Words - 1) : Before(c, v) => Before(c, v)'
  <2>0. \A c \in Brams : c \in Nat  BY <1>1, SlotProducts DEF Brams, Lanes
  <2>1. CASE n' = n + 1 /\ base' + k' = base + k
    <3>1. n' * Inputs + i' = n * Inputs + i
      BY <1>1, <1>2, <1>3, <2>1, SlotProducts
    <3>2. Before(b, w)'
      BY <1>1, <1>3, <1>5, <1>6, <2>1, SlotProducts DEF Before
    <3>3. ASSUME NEW c \in Brams, NEW v \in 0..(Words - 1), Before(c, v)
          PROVE  Before(c, v)'
      <4>1. c < Lanes * Inputs + n => c < Lanes * Inputs + n'
        BY <1>1, <1>3, <2>0, <2>1, SlotProducts
      <4> QED  BY <2>1, <3>1, <3>3, <4>1 DEF Before
    <3> QED  BY <3>2, <3>3
  <2>2. CASE base' + k' = base + k + 1
    <3>1. w < base' + k'  BY <1>3, <1>5, <2>2
    <3>2. ASSUME NEW c \in Brams, NEW v \in 0..(Words - 1), Before(c, v)
          PROVE  v < base' + k'
      <4>1. v \in Int  OBVIOUS
      <4> QED  BY <1>3, <2>2, <3>2, <4>1 DEF Before
    <3> QED  BY <3>1, <3>2 DEF Before
  <2> QED  BY <1>8, <2>1, <2>2
<1>10. mem' = [mem EXCEPT ![Address(b, w)] = SlotBias]  BY <1>2, <1>5
<1> QED
  BY <1>1, <1>7, <1>9, <1>10, BiasCursor, OneWrite DEF LoadInv, WriteOnce

\* Every step of the loader keeps the invariant and overwrites no register.
LEMMA LoadStep == LoadInv /\ [Next]_vars => LoadInv' /\ [WriteOnce]_vars
<1> SUFFICES ASSUME LoadInv, [Next]_vars PROVE LoadInv' /\ [WriteOnce]_vars
  OBVIOUS
<1>1. CASE UNCHANGED vars
  <2>1. CursorInv'  BY <1>1, PackedSame DEF vars, cursor, LoadInv, CursorInv
  <2>2. MemoryInv'  BY <1>1 DEF vars, cursor, LoadInv, MemoryInv, Before
  <2> QED  BY <1>1, <2>1, <2>2 DEF LoadInv
<1>2. CASE WriteWeight  BY <1>2, WeightStep
<1>3. CASE WriteBias  BY <1>3, BiasStep
<1> QED  BY <1>1, <1>2, <1>3 DEF Next, Done

\* No register is written twice in one load, for every template that fits into
\* the memory: layers, words, slots, inputs and biases never collide.
THEOREM RegistersWrittenOnce == Spec => WrittenOnce
<1> QED
  BY LoadInit, LoadStep, PTL DEF Spec, WrittenOnce, WriteOnce

\* Every variable keeps its type; the cursor never leaves the memory.
THEOREM LoaderTypeCorrect == Spec => []TypeOK
<1>1. ASSUME LoadInv PROVE TypeOK
  <2>1. CursorInv /\ MemoryInv  BY <1>1 DEF LoadInv
  <2>2. Words \in Nat \ {0} /\ LayerCount \in Nat
    BY ShapesAssumption DEF LayerCount
  <2>3. k \in 0..(Words - 1)
    <3>1. CASE layer <= LayerCount
      BY <2>1, <2>2, <3>1, WordInMemory DEF CursorInv
    <3>2. CASE layer > LayerCount
      BY <2>1, <2>2, <3>2 DEF CursorInv
    <3> QED  BY <2>1, <2>2, <3>1, <3>2 DEF CursorInv
  <2> QED  BY <2>1, <2>3 DEF CursorInv, MemoryInv, TypeOK
<1> QED  BY <1>1, LoadInit, LoadStep, PTL DEF Spec

-----------------------------------------------------------------------------
(* The buffer: where the firmware points, the frontend has packed.          *)

\* The sizes of a layer.
LEMMA LayerSizes ==
  ASSUME LayoutsAgree, NEW l \in 1..LayerCount
  PROVE  /\ LayerCount \in Nat \ {0}
         /\ FirmwareBlocks[l].weights = LoaderShapes[l].out * LoaderShapes[l].in
         /\ FirmwareBlocks[l].biases = LoaderShapes[l].out
         /\ PanelShapes[l] = LoaderShapes[l] /\ PanelBiases[l] = LoaderShapes[l].out
         /\ LoaderShapes[l].out \in Nat \ {0} /\ LoaderShapes[l].in \in Nat \ {0}
         /\ LoaderShapes[l].in <= Inputs /\ LoaderShapes[l].out * LoaderShapes[l].in \in Nat
         /\ Len(Block(l)) = LoaderShapes[l].out * LoaderShapes[l].in + LoaderShapes[l].out
         /\ Len(Block(l)) \in Nat
<1>1. LoaderShapes[l] \in Shape /\ LayerCount \in Nat \ {0} /\ LoaderShapes[l].in <= Inputs
  BY ShapesAssumption DEF LayerCount
<1>2. LoaderShapes[l].out \in Nat \ {0} /\ LoaderShapes[l].in \in Nat \ {0}
  BY <1>1 DEF Shape
<1>3. ASSUME NEW a \in Nat, NEW b \in Nat PROVE a * b \in Nat
  BY <1>3
<1>4. LoaderShapes[l].out * LoaderShapes[l].in \in Nat  BY <1>2, <1>3
<1>6. /\ FirmwareBlocks[l].weights = LoaderShapes[l].out * LoaderShapes[l].in
      /\ FirmwareBlocks[l].biases = LoaderShapes[l].out
      /\ PanelShapes[l] = LoaderShapes[l] /\ PanelBiases[l] = LoaderShapes[l].out
  <2>1. l \in DOMAIN LoaderShapes  BY ShapesAssumption DEF LayerCount
  <2> QED  BY <2>1 DEF LayoutsAgree
<1>5. Len(Block(l)) = LoaderShapes[l].out * LoaderShapes[l].in + LoaderShapes[l].out
  BY <1>2, <1>4, <1>6 DEF Block
<1> QED  BY <1>1, <1>2, <1>4, <1>5, <1>6

\* The place of an element in a matrix of r rows and d columns, row by row.
LEMMA RowMajor ==
  ASSUME NEW d \in Nat \ {0}, NEW r \in Nat, NEW j \in 0..(r - 1), NEW x \in 0..(d - 1)
  PROVE  /\ j * d + x \in Nat /\ j * d + x + 1 \in 1..(r * d)
         /\ (j * d + x) \div d = j /\ (j * d + x) % d = x
<1>1. j \in Nat /\ x \in Nat /\ x < d /\ j * d \in Nat  OBVIOUS
<1>2. (j * d + x) \div d = j  BY <1>1
<1>3. (j * d + x) % d = x  BY <1>1
<1>4. PICK e \in Nat : r = j + 1 + e
  <2>1. r - j - 1 \in Nat /\ r = j + 1 + (r - j - 1)  OBVIOUS
  <2> QED  BY <2>1
<1>5. r * d = j * d + d + e * d  BY <1>1, <1>4
<1>6. e * d \in Nat  BY <1>4
<1> QED  BY <1>1, <1>2, <1>3, <1>5, <1>6

\* A block holds the weights of its layer row by row, and then the biases.
LEMMA BlockContents ==
  ASSUME LayoutsAgree, NEW l \in 1..LayerCount, NEW j \in 0..(LoaderShapes[l].out - 1)
  PROVE  /\ \A x \in 0..(LoaderShapes[l].in - 1) :
              /\ j * LoaderShapes[l].in + x + 1 \in 1..Len(Block(l))
              /\ Block(l)[j * LoaderShapes[l].in + x + 1] = PackedWeight(l, j, x)
         /\ LoaderShapes[l].out * LoaderShapes[l].in + j + 1 \in 1..Len(Block(l))
         /\ Block(l)[LoaderShapes[l].out * LoaderShapes[l].in + j + 1] = PackedBias(l, j)
<1> DEFINE d == LoaderShapes[l].in
           r == LoaderShapes[l].out
           size == r * d
           front == [p \in 1..size |-> PackedWeight(l, (p - 1) \div d, (p - 1) % d)]
           back == [p \in 1..r |-> PackedBias(l, p - 1)]
<1>1. /\ d \in Nat \ {0} /\ r \in Nat \ {0} /\ size \in Nat
      /\ Len(Block(l)) = size + r
  BY LayerSizes
<1>2. Block(l) = front \o back  BY LayerSizes DEF Block
<1>3. Len(front) = size /\ Len(back) = r  BY <1>1
<1>4. ASSUME NEW x \in 0..(d - 1)
      PROVE  j * d + x + 1 \in 1..Len(Block(l)) /\ Block(l)[j * d + x + 1] = PackedWeight(l, j, x)
  <2>1. /\ j * d + x \in Nat /\ j * d + x + 1 \in 1..size
        /\ (j * d + x) \div d = j /\ (j * d + x) % d = x
    BY <1>1, RowMajor
  <2> DEFINE q == j * d + x + 1
  <2>2. q - 1 = j * d + x  BY <2>1
  <2>3. front[q] = PackedWeight(l, j, x)
    <3>1. front[q] = PackedWeight(l, (q - 1) \div d, (q - 1) % d)  BY <2>1
    <3>2. (q - 1) \div d = j /\ (q - 1) % d = x  BY <2>1, <2>2
    <3> HIDE DEF q, front, d
    <3> QED  BY <3>1, <3>2
  <2> HIDE DEF q, front, back, size
  <2>4. (front \o back)[q] = front[q]
    BY <1>1, <1>3, <2>1 DEF q
  <2>5. Block(l)[q] = PackedWeight(l, j, x)  BY <1>2, <2>3, <2>4
  <2>6. \A p \in 1..size : p \in 1..(size + r)  BY <1>1
  <2> HIDE DEF d, r
  <2>7. j * d + x + 1 \in 1..Len(Block(l))  BY <1>1, <2>1, <2>6
  <2> QED  BY <2>5, <2>7 DEF q
<1>5. size + j + 1 \in 1..Len(Block(l)) /\ Block(l)[size + j + 1] = PackedBias(l, j)
  <2>1. j \in Nat /\ j + 1 \in 1..r  BY <1>1
  <2>2. back[j + 1] = PackedBias(l, (j + 1) - 1) /\ (j + 1) - 1 = j  BY <2>1
  <2>0. \A a, b, c \in Nat : c + 1 \in 1..b => a + c + 1 \in (a + 1)..(a + b)
    OBVIOUS
  <2>3. size + j + 1 \in (size + 1)..(size + r)
    <3> HIDE DEF size, r
    <3> QED  BY <1>1, <2>0, <2>1
  <2> HIDE DEF front, back, size
  <2>4. (front \o back)[size + j + 1] = back[j + 1]
    BY <1>1, <1>3, <2>1, <2>3
  <2> QED  BY <1>1, <1>2, <2>1, <2>2, <2>3, <2>4
<1> QED  BY <1>4, <1>5

\* The pointers: each one a block behind the one before.
LEMMA Pointers ==
  ASSUME LayoutsAgree
  PROVE  /\ WeightPointer \in [1..LayerCount -> Nat] /\ WeightPointer[1] = 0
         /\ \A l \in 1..(LayerCount - 1) :
              WeightPointer[l + 1] = WeightPointer[l] + Len(Block(l))
<1> DEFINE Next1(f, l) == IF l = 1 THEN 0
                          ELSE f[l - 1] + FirmwareBlocks[l - 1].weights
                                 + FirmwareBlocks[l - 1].biases
           len == [l \in 1..LayerCount |-> Len(Block(l))]
<1>1. LayerCount \in Nat \ {0}  BY ShapesAssumption DEF LayerCount
<1>2. \A l \in 1..(LayerCount - 1) : l \in 1..LayerCount /\ l + 1 \in 1..LayerCount
  BY <1>1
<1>3. \A l \in 1..LayerCount : len[l] \in Nat
  BY LayerSizes
<1>4. PICK f \in [1..LayerCount -> Nat] :
        f[1] = 0 /\ \A l \in 1..(LayerCount - 1) : f[l + 1] = f[l] + len[l]
  <2> HIDE DEF len
  <2> QED  BY <1>1, <1>2, <1>3, SumsExist
<1>5. ASSUME NEW l \in 1..LayerCount, NEW a \in Nat
      PROVE  a + len[l] = a + FirmwareBlocks[l].weights + FirmwareBlocks[l].biases
  <2>1. len[l] = LoaderShapes[l].out * LoaderShapes[l].in + LoaderShapes[l].out
    BY LayerSizes
  <2>2. LoaderShapes[l].out * LoaderShapes[l].in \in Nat /\ LoaderShapes[l].out \in Nat
    BY LayerSizes
  <2>3. /\ FirmwareBlocks[l].weights = LoaderShapes[l].out * LoaderShapes[l].in
        /\ FirmwareBlocks[l].biases = LoaderShapes[l].out
    BY LayerSizes
  <2> HIDE DEF len
  <2> QED  BY <2>1, <2>2, <2>3
<1>6. \A l \in 1..LayerCount : f[l] = Next1(f, l)
  <2> TAKE l \in 1..LayerCount
  <2>1. CASE l = 1  BY <1>4, <2>1
  <2>2. CASE l # 1
    <3>1. PICK m \in 1..(LayerCount - 1) : l = m + 1
      <4>1. l - 1 \in 1..(LayerCount - 1) /\ l = (l - 1) + 1  BY <1>1, <2>2
      <4> QED  BY <4>1
    <3>2. f[m + 1] = f[m] + len[m] /\ f[m] \in Nat  BY <1>2, <1>4
    <3>3. l - 1 = m  BY <3>1
    <3> HIDE DEF len
    <3> QED  BY <1>2, <1>5, <2>2, <3>1, <3>2, <3>3
  <2> QED  BY <2>1, <2>2
<1>7. f = [l \in 1..LayerCount |-> Next1(f, l)]
  BY <1>4, <1>6
<1>8. WeightPointer = [l \in 1..LayerCount |-> Next1(WeightPointer, l)]
  BY <1>7 DEF WeightPointer
<1>9. WeightPointer[1] = 0 /\ DOMAIN WeightPointer = 1..LayerCount
  BY <1>1, <1>8
<1>10. ASSUME NEW l \in 1..(LayerCount - 1), WeightPointer[l] \in Nat
       PROVE  WeightPointer[l + 1] = WeightPointer[l] + Len(Block(l))
  <2>1. l + 1 \in 1..LayerCount /\ l + 1 # 1 /\ (l + 1) - 1 = l  BY <1>2
  <2>2. WeightPointer[l + 1] =
          WeightPointer[l] + FirmwareBlocks[l].weights + FirmwareBlocks[l].biases
    BY <1>8, <2>1
  <2> QED  BY <1>2, <1>5, <1>10, <2>2
<1> DEFINE S == {l \in 1..LayerCount : WeightPointer[l] \in Nat}
<1>11. 1..LayerCount \subseteq S
  <2>1. 1 \in S  BY <1>1, <1>9
  <2>2. ASSUME NEW l \in 1..(LayerCount - 1), l \in S PROVE l + 1 \in S
    <3>1. Len(Block(l)) \in Nat  BY <1>2, LayerSizes
    <3> QED  BY <1>2, <1>10, <2>2, <3>1
  <2> HIDE DEF S
  <2> QED  BY <1>1, <2>1, <2>2, InductionUpTo
<1>12. WeightPointer \in [1..LayerCount -> Nat]
  <2>1. WeightPointer = [l \in 1..LayerCount |-> WeightPointer[l]]  BY <1>8
  <2> QED  BY <1>11, <2>1
<1> QED  BY <1>2, <1>9, <1>10, <1>12

\* The first words that the core counts are those of the loader.
LEMMA FirstWordIsFirst ==
  ASSUME NEW f, FirstWords(f)
  PROVE  \A l \in 1..LayerCount : FirstWord[l] = f[l]
<1>1. LayerCount \in Nat \ {0}  BY ShapesAssumption DEF LayerCount
<1>2. \A l \in 1..(LayerCount - 1) : l \in 1..LayerCount /\ l + 1 \in 1..LayerCount
  BY <1>1
<1> DEFINE g == [l \in 1..LayerCount |-> f[l]]
           Sum(h, l) == IF l = 1 THEN 0 ELSE h[l - 1] + Rows(l - 1)
<1>3. g = [l \in 1..LayerCount |-> Sum(g, l)]
  <2>1. ASSUME NEW l \in 1..LayerCount PROVE f[l] = Sum(g, l)
    <3>1. CASE l = 1  BY <3>1 DEF FirstWords
    <3>2. CASE l # 1
      <4>1. l - 1 \in 1..LayerCount /\ (l - 1) + 1 = l  BY <1>1, <3>2
      <4>2. f[(l - 1) + 1] = f[l - 1] + Rows(l - 1)  BY <4>1 DEF FirstWords
      <4> QED  BY <3>2, <4>1, <4>2
    <3> QED  BY <3>1, <3>2
  <2> QED  BY <2>1
<1>4. FirstWord = [l \in 1..LayerCount |-> Sum(FirstWord, l)]
  BY <1>3 DEF FirstWord
<1> DEFINE S == {l \in 1..LayerCount : FirstWord[l] = f[l]}
<1>5. 1 \in S  BY <1>1, <1>4 DEF FirstWords
<1>6. ASSUME NEW l \in 1..(LayerCount - 1), l \in S PROVE l + 1 \in S
  <2>1. l + 1 \in 1..LayerCount /\ l + 1 # 1 /\ (l + 1) - 1 = l  BY <1>2
  <2>2. FirstWord[l + 1] = FirstWord[l] + Rows(l)  BY <1>4, <2>1
  <2>3. f[l + 1] = f[l] + Rows(l)  BY <1>2 DEF FirstWords
  <2> QED  BY <1>6, <2>1, <2>2, <2>3
<1> HIDE DEF S
<1>7. 1..LayerCount \subseteq S  BY <1>1, <1>5, <1>6, InductionUpTo
<1> QED  BY <1>7 DEF S

\* The buffer has each block where its pointer says.
LEMMA BufferContents ==
  ASSUME LayoutsAgree, NEW l \in 1..LayerCount, NEW p \in 1..Len(Block(l))
  PROVE  Packed[WeightPointer[l] + p] = Block(l)[p]
<1> DEFINE s == [m \in 1..LayerCount |-> Block(m)]
<1>1. LayerCount \in Nat \ {0} /\ Len(s) = LayerCount
  BY ShapesAssumption DEF LayerCount
<1>2. \A m \in 1..(LayerCount - 1) : m \in 1..LayerCount /\ m + 1 \in 1..LayerCount
  BY <1>1
<1>3. \A m \in 1..LayerCount : s[m] = Block(m) /\ Len(s[m]) \in Nat
  BY LayerSizes
<1>4. Packed = FlattenSeq(s)
  <2>1. PanelShapes = LoaderShapes /\ DOMAIN LoaderShapes = 1..LayerCount
    BY ShapesAssumption DEF LayoutsAgree, LayerCount
  <2> QED  BY <2>1 DEF Packed
<1> HIDE DEF s
<1>5. PICK g : /\ FlattenSeq(s) = g[Len(s)]
               /\ g[1] = s[1]
               /\ \A m \in 1..(Len(s) - 1) : g[m + 1] = g[m] \o s[m + 1]
  BY <1>1, FlattenUnfolds
<1> DEFINE Placed(m) ==
             /\ Len(g[m]) = WeightPointer[m] + Len(s[m])
             /\ \A a \in 1..m :
                  /\ WeightPointer[a] + Len(s[a]) <= Len(g[m])
                  /\ \A q \in 1..Len(s[a]) : g[m][WeightPointer[a] + q] = s[a][q]
           S == {m \in 1..LayerCount : Placed(m)}
<1>6. 1 \in S
  <2>1. 1 \in 1..LayerCount /\ WeightPointer[1] = 0 /\ g[1] = s[1] /\ Len(s[1]) \in Nat
    BY <1>1, <1>3, <1>5, Pointers
  <2>2. \A q \in 1..Len(s[1]) : 0 + q = q  BY <2>1
  <2>3. \A a \in 1..1 : a = 1  OBVIOUS
  <2> QED  BY <2>1, <2>2, <2>3
<1>7. ASSUME NEW m \in 1..(LayerCount - 1), m \in S PROVE m + 1 \in S
  <2>1. m \in 1..LayerCount /\ m + 1 \in 1..LayerCount /\ m \in Nat  BY <1>2
  <2>2. g[m + 1] = g[m] \o s[m + 1]  BY <1>1, <1>5
  <2>3. /\ Len(g[m]) = WeightPointer[m] + Len(s[m]) /\ Len(g[m]) \in Nat
        /\ WeightPointer[m + 1] = Len(g[m])
    BY <1>3, <1>7, <2>1, Pointers
  <2>4. Len(s[m + 1]) \in Nat  BY <1>3, <2>1
  <2>5. /\ Len(g[m + 1]) = Len(g[m]) + Len(s[m + 1])
        /\ \A q \in 1..Len(g[m]) : g[m + 1][q] = g[m][q]
        /\ \A q \in 1..Len(s[m + 1]) : g[m + 1][Len(g[m]) + q] = s[m + 1][q]
    <3>1. PICK u, v : u = g[m] /\ v = s[m + 1] /\ g[m + 1] = u \o v
      BY <2>2
    <3>2. Len(u) \in Nat /\ Len(v) \in Nat  BY <2>3, <2>4, <3>1
    <3>3. /\ Len(u \o v) = Len(u) + Len(v)
          /\ \A q \in 1..Len(u) : (u \o v)[q] = u[q]
          /\ \A q \in 1..Len(v) : (u \o v)[Len(u) + q] = v[q]
      BY <3>2, JoinedParts
    <3> QED  BY <3>1, <3>3
  <2>6. ASSUME NEW a \in 1..(m + 1)
        PROVE  /\ WeightPointer[a] + Len(s[a]) <= Len(g[m + 1])
               /\ \A q \in 1..Len(s[a]) : g[m + 1][WeightPointer[a] + q] = s[a][q]
    <3>1. CASE a = m + 1
      <4>1. WeightPointer[m + 1] + Len(s[m + 1]) <= Len(g[m + 1])
        BY <2>3, <2>4, <2>5
      <4>2. \A q \in 1..Len(s[m + 1]) :
              g[m + 1][WeightPointer[m + 1] + q] = s[m + 1][q]
        BY <2>3, <2>5
      <4> HIDE DEF S
      <4> QED  BY <3>1, <4>1, <4>2
    <3>2. CASE a # m + 1
      <4>1. a \in 1..m /\ a \in 1..LayerCount  BY <1>1, <2>1, <3>2
      <4>2. WeightPointer[a] \in Nat /\ Len(s[a]) \in Nat
        BY <1>3, <4>1, Pointers
      <4>3. WeightPointer[a] + Len(s[a]) <= Len(g[m])  BY <1>7, <4>1
      <4>4. ASSUME NEW q \in 1..Len(s[a])
            PROVE  g[m + 1][WeightPointer[a] + q] = s[a][q]
        <5>1. WeightPointer[a] + q \in 1..Len(g[m])  BY <2>3, <4>2, <4>3
        <5>2. g[m][WeightPointer[a] + q] = s[a][q]  BY <1>7, <4>1
        <5> QED  BY <2>5, <5>1, <5>2
      <4> QED  BY <2>3, <2>4, <2>5, <4>2, <4>3, <4>4
    <3> QED  BY <3>1, <3>2
  <2>7. Placed(m + 1)  BY <2>3, <2>5, <2>6
  <2> HIDE DEF Placed
  <2> QED  BY <2>1, <2>7
<1> HIDE DEF S
<1>8. LayerCount \in S
  <2>1. 1..LayerCount \subseteq S  BY <1>1, <1>6, <1>7, InductionUpTo
  <2> QED  BY <1>1, <2>1
<1>9. Placed(LayerCount)  BY <1>8 DEF S
<1> QED  BY <1>1, <1>3, <1>4, <1>5, <1>9

-----------------------------------------------------------------------------
(* The values: what the loader writes is the trained network.               *)

\* The register for input x, and for the bias, of neuron j of layer l.
Goal(l, j, x) ==
  IF j < LoaderShapes[l].out /\ x < LoaderShapes[l].in THEN PackedWeight(l, j, x) ELSE Zero
BiasGoal(l, j) == IF j < LoaderShapes[l].out THEN PackedBias(l, j) ELSE Zero

\* The value the loader fetches for the slot and the input is the trained one.
LEMMA SlotWeightIsGoal ==
  ASSUME LayoutsAgree, buffer = Packed, NEW l \in 1..LayerCount, layer = l,
         NEW q \in Nat, Neuron = q, NEW x \in 0..(Inputs - 1), i = x
  PROVE  SlotWeight = Goal(l, q, x)
<1>1. CASE q < LoaderShapes[l].out /\ x < LoaderShapes[l].in
  <2>1. LoaderShapes[l].out \in Nat /\ LoaderShapes[l].in \in Nat /\ WeightPointer[l] \in Nat
    BY LayerSizes, Pointers
  <2>2. q \in 0..(LoaderShapes[l].out - 1) /\ x \in 0..(LoaderShapes[l].in - 1)
    BY <1>1, <2>1, ShapesAssumption
  <2>3. /\ q * LoaderShapes[l].in + x + 1 \in 1..Len(Block(l))
        /\ Block(l)[q * LoaderShapes[l].in + x + 1] = PackedWeight(l, q, x)
    BY <2>2, BlockContents
  <2>4. Packed[WeightPointer[l] + (q * LoaderShapes[l].in + x + 1)] = PackedWeight(l, q, x)
    BY <2>3, BufferContents
  <2>5. q * LoaderShapes[l].in \in Nat  BY <2>1
  <2>6. WeightPointer[l] + (q * LoaderShapes[l].in + x + 1)
          = WeightPointer[l] + q * LoaderShapes[l].in + x + 1
    BY <2>1, <2>2, <2>5
  <2> QED  BY <1>1, <2>4, <2>6 DEF SlotWeight, Goal
<1>2. CASE ~(q < LoaderShapes[l].out /\ x < LoaderShapes[l].in)
  BY <1>2 DEF SlotWeight, Goal
<1> QED  BY <1>1, <1>2

\* So is the bias of the slot.
LEMMA SlotBiasIsGoal ==
  ASSUME LayoutsAgree, buffer = Packed, NEW l \in 1..LayerCount, layer = l,
         NEW q \in Nat, Neuron = q
  PROVE  SlotBias = BiasGoal(l, q)
<1>1. CASE q < LoaderShapes[l].out
  <2>1. /\ LoaderShapes[l].out \in Nat /\ WeightPointer[l] \in Nat
        /\ LoaderShapes[l].out * LoaderShapes[l].in \in Nat
    BY LayerSizes, Pointers
  <2>2. q \in 0..(LoaderShapes[l].out - 1)  BY <1>1, <2>1
  <2>3. /\ LoaderShapes[l].out * LoaderShapes[l].in + q + 1 \in 1..Len(Block(l))
        /\ Block(l)[LoaderShapes[l].out * LoaderShapes[l].in + q + 1] = PackedBias(l, q)
    BY <2>2, BlockContents
  <2>4. Packed[WeightPointer[l] + (LoaderShapes[l].out * LoaderShapes[l].in + q + 1)]
          = PackedBias(l, q)
    BY <2>3, BufferContents
  <2>5. WeightPointer[l] + (LoaderShapes[l].out * LoaderShapes[l].in + q + 1)
          = WeightPointer[l] + LoaderShapes[l].out * LoaderShapes[l].in + q + 1
    BY <2>1
  <2>6. BiasPointer(l) = WeightPointer[l] + LoaderShapes[l].out * LoaderShapes[l].in
    BY LayerSizes DEF BiasPointer
  <2> QED  BY <1>1, <2>4, <2>5, <2>6 DEF SlotBias, BiasGoal
<1>2. CASE ~(q < LoaderShapes[l].out)
  BY <1>2 DEF SlotBias, BiasGoal
<1> QED  BY <1>1, <1>2

-----------------------------------------------------------------------------
(* The memory: every register behind the cursor holds the trained network.  *)

\* The layers lie one behind the other, up to the end of the memory.
LEMMA LayersInOrder ==
  ASSUME NEW f, FirstWords(f)
  PROVE  \A l \in 1..LayerCount : \A m \in 1..(LayerCount + 1) :
           l < m => f[l] + Rows(l) <= f[m]
<1>1. LayerCount \in Nat \ {0}  BY ShapesAssumption DEF LayerCount
<1>2. \A l \in 1..LayerCount : l + 1 \in 1..(LayerCount + 1)  BY <1>1
<1> TAKE l \in 1..LayerCount
<1>3. Rows(l) \in Nat /\ f[l] \in Nat
  BY <1>1, RowsPositive DEF FirstWords
<1> DEFINE S == {m \in 1..(LayerCount + 1) : l < m => f[l] + Rows(l) <= f[m]}
<1>4. 1 \in S  BY <1>1
<1>5. ASSUME NEW m \in 1..((LayerCount + 1) - 1), m \in S PROVE m + 1 \in S
  <2>1. m \in 1..LayerCount /\ m + 1 \in 1..(LayerCount + 1)  BY <1>1
  <2>2. f[m + 1] = f[m] + Rows(m) /\ f[m] \in Nat /\ Rows(m) \in Nat
    BY <1>1, <2>1, RowsPositive DEF FirstWords
  <2>3. CASE m = l  BY <1>3, <2>1, <2>2, <2>3
  <2>4. CASE m # l
    <3>1. l < m + 1 => l < m  BY <1>1, <2>1, <2>4
    <3>2. l < m => f[l] + Rows(l) <= f[m]  BY <1>5
    <3> QED  BY <1>3, <2>1, <2>2, <3>1, <3>2
  <2> QED  BY <2>3, <2>4
<1> HIDE DEF S
<1>6. LayerCount + 1 \in Nat  BY <1>1
<1>7. 1..(LayerCount + 1) \subseteq S  BY <1>4, <1>5, <1>6, InductionUpTo
<1> QED  BY <1>7 DEF S

\* A word belongs to one row of one layer only.
LEMMA RowsDisjoint ==
  ASSUME NEW l \in 1..LayerCount, NEW m \in 1..LayerCount,
         NEW r \in 0..(Rows(l) - 1), NEW q \in 0..(Rows(m) - 1),
         FirstWord[l] + r = FirstWord[m] + q
  PROVE  l = m /\ r = q
<1>1. PICK f : FirstWords(f)  BY FitAssumption DEF FirstWords
<1>2. LayerCount \in Nat  BY ShapesAssumption DEF LayerCount
<1>3. l \in 1..(LayerCount + 1) /\ m \in 1..(LayerCount + 1)  BY <1>2
<1>4. FirstWord[l] = f[l] /\ FirstWord[m] = f[m]  BY <1>1, FirstWordIsFirst
<1>5. f[l] \in Nat /\ f[m] \in Nat /\ Rows(l) \in Nat /\ Rows(m) \in Nat
  <2>1. Words \in Nat  BY ShapesAssumption
  <2> QED  BY <1>1, <1>3, <2>1, RowsPositive DEF FirstWords
<1>6. ~(l < m)
  <2>1. l < m => f[l] + Rows(l) <= f[m]  BY <1>1, <1>3, LayersInOrder
  <2> QED  BY <1>4, <1>5, <2>1
<1>7. ~(m < l)
  <2>1. m < l => f[m] + Rows(m) <= f[l]  BY <1>1, <1>3, LayersInOrder
  <2> QED  BY <1>4, <1>5, <2>1
<1>8. l = m  BY <1>2, <1>6, <1>7
<1> QED  BY <1>4, <1>5, <1>8

\* Every row of every layer is a word of the memory.
LEMMA RowInMemory ==
  ASSUME NEW l \in 1..LayerCount, NEW r \in 0..(Rows(l) - 1)
  PROVE  /\ FirstWord[l] \in Nat /\ r \in Nat
         /\ FirstWord[l] + r \in 0..(Words - 1)
         /\ \A f : FirstWords(f) => FirstWord[l] + r < f[LayerCount + 1]
<1>1. LayerCount \in Nat /\ Words \in Nat  BY ShapesAssumption DEF LayerCount
<1>2. ASSUME NEW f, FirstWords(f)
      PROVE  /\ FirstWord[l] \in Nat /\ r \in Nat
             /\ FirstWord[l] + r < f[LayerCount + 1] /\ f[LayerCount + 1] \in 0..Words
  <2>1. l \in 1..(LayerCount + 1) /\ LayerCount + 1 \in 1..(LayerCount + 1) /\ l < LayerCount + 1
    BY <1>1
  <2>2. f[l] + Rows(l) <= f[LayerCount + 1]  BY <1>2, <2>1, LayersInOrder
  <2>3. FirstWord[l] = f[l]  BY <1>2, FirstWordIsFirst
  <2>4. f[l] \in 0..Words /\ f[LayerCount + 1] \in 0..Words  BY <1>2, <2>1 DEF FirstWords
  <2>5. Rows(l) \in Nat  BY RowsPositive
  <2> QED  BY <1>1, <2>2, <2>3, <2>4, <2>5
<1>3. PICK f : FirstWords(f)  BY FitAssumption DEF FirstWords
<1>4. FirstWord[l] + r \in 0..(Words - 1)
  <2>1. /\ FirstWord[l] \in Nat /\ r \in Nat
        /\ FirstWord[l] + r < f[LayerCount + 1] /\ f[LayerCount + 1] \in 0..Words
    BY <1>2, <1>3
  <2> QED  BY <1>1, <2>1
<1> QED  BY <1>2, <1>3, <1>4

\* Every register behind the cursor holds its weight or bias.
ContentInv ==
  \A l \in 1..LayerCount : \A r \in 0..(Rows(l) - 1) : \A s \in 0..2 :
    /\ \A x \in 0..(Inputs - 1) :
         Before(s * Inputs + x, FirstWord[l] + r) =>
           mem[Address(s * Inputs + x, FirstWord[l] + r)] = Goal(l, r * Lanes + s, x)
    /\ Before(Lanes * Inputs + s, FirstWord[l] + r) =>
         mem[Address(Lanes * Inputs + s, FirstWord[l] + r)] = BiasGoal(l, r * Lanes + s)

\* The memories of the slots are memories of the core.
LEMMA SlotBrams ==
  ASSUME NEW s \in 0..2
  PROVE  /\ Lanes * Inputs + s \in Brams
         /\ \A x \in 0..(Inputs - 1) :
              s * Inputs + x \in Brams /\ s * Inputs + x < Lanes * Inputs
<1>1. Inputs \in Nat \ {0}  BY ShapesAssumption
<1>2. s = 0 \/ s = 1 \/ s = 2  OBVIOUS
<1> QED  BY <1>1, <1>2 DEF Brams, Lanes

\* The register written is the only one that comes to lie behind the cursor.
OneBehind(b, w) ==
  \A c \in Brams, v \in 0..(Words - 1) : Before(c, v)' => Before(c, v) \/ (c = b /\ v = w)

\* What must be written into BRAM b at word w.
Right(b, w, val) ==
  \A l \in 1..LayerCount : \A r \in 0..(Rows(l) - 1) : \A s \in 0..2 :
    FirstWord[l] + r = w =>
      /\ \A x \in 0..(Inputs - 1) : s * Inputs + x = b => val = Goal(l, r * Lanes + s, x)
      /\ Lanes * Inputs + s = b => val = BiasGoal(l, r * Lanes + s)

\* A right value in the one register that comes to lie behind the cursor.
LEMMA RightWrite ==
  ASSUME MemoryInv, ContentInv, NEW b \in Brams, NEW w \in 0..(Words - 1), NEW val,
         mem' = [mem EXCEPT ![Address(b, w)] = val], trained' = trained,
         OneBehind(b, w), Right(b, w, val)
  PROVE  ContentInv'
<1>1. /\ \A l, q, x : Goal(l, q, x)' = Goal(l, q, x)
      /\ \A l, q : BiasGoal(l, q)' = BiasGoal(l, q)
  BY PackedSame DEF Goal, BiasGoal
<1>2. ASSUME NEW c \in Brams, NEW v \in 0..(Words - 1), Before(c, v)'
      PROVE  \/ Before(c, v) /\ mem'[Address(c, v)] = mem[Address(c, v)]
             \/ c = b /\ v = w /\ mem'[Address(c, v)] = val
  <2>1. Address(c, v) \in DOMAIN mem  BY AddressInRange DEF MemoryInv
  <2>2. CASE c = b /\ v = w  BY <2>1, <2>2
  <2>3. CASE ~(c = b /\ v = w)
    <3>1. Address(c, v) # Address(b, w)  BY <2>3, AddressesDiffer
    <3> QED  BY <1>2, <2>1, <2>3, <3>1 DEF OneBehind
  <2> QED  BY <2>2, <2>3
<1>3. ASSUME NEW l \in 1..LayerCount, NEW r \in 0..(Rows(l) - 1), NEW s \in 0..2
      PROVE  /\ \A x \in 0..(Inputs - 1) :
                  Before(s * Inputs + x, FirstWord[l] + r)' =>
                    mem'[Address(s * Inputs + x, FirstWord[l] + r)]
                      = Goal(l, r * Lanes + s, x)
             /\ Before(Lanes * Inputs + s, FirstWord[l] + r)' =>
                  mem'[Address(Lanes * Inputs + s, FirstWord[l] + r)]
                    = BiasGoal(l, r * Lanes + s)
  <2>1. PICK v \in 0..(Words - 1) : v = FirstWord[l] + r  BY RowInMemory
  <2>2. ASSUME NEW x \in 0..(Inputs - 1), Before(s * Inputs + x, v)'
        PROVE  mem'[Address(s * Inputs + x, v)] = Goal(l, r * Lanes + s, x)
    <3>1. PICK c \in Brams : c = s * Inputs + x  BY SlotBrams
    <3>2. CASE Before(c, v) /\ mem'[Address(c, v)] = mem[Address(c, v)]
      BY <2>1, <3>1, <3>2 DEF ContentInv
    <3>3. CASE c = b /\ v = w /\ mem'[Address(c, v)] = val
      BY <2>1, <3>1, <3>3 DEF Right
    <3> QED  BY <1>2, <2>2, <3>1, <3>2, <3>3
  <2>3. ASSUME Before(Lanes * Inputs + s, v)'
        PROVE  mem'[Address(Lanes * Inputs + s, v)] = BiasGoal(l, r * Lanes + s)
    <3>1. PICK c \in Brams : c = Lanes * Inputs + s  BY SlotBrams
    <3>2. CASE Before(c, v) /\ mem'[Address(c, v)] = mem[Address(c, v)]
      BY <2>1, <3>1, <3>2 DEF ContentInv
    <3>3. CASE c = b /\ v = w /\ mem'[Address(c, v)] = val
      BY <2>1, <3>1, <3>3 DEF Right
    <3> QED  BY <1>2, <2>3, <3>1, <3>2, <3>3
  <2> QED  BY <2>1, <2>2, <2>3
<1> QED  BY <1>1, <1>3 DEF ContentInv

\* A step of the loader from the row under its cursor concerns that row only.
LEMMA RowUnderCursor ==
  ASSUME CursorInv, layer <= LayerCount,
         NEW l \in 1..LayerCount, NEW r \in 0..(Rows(l) - 1),
         FirstWord[l] + r = base + k
  PROVE  l = layer /\ r = k
<1>1. layer \in 1..LayerCount /\ k \in 0..(Rows(layer) - 1)
  <2>1. layer \in 1..LayerCount /\ Rows(layer) \in Nat \ {0}  BY WordInMemory
  <2>2. k \in Nat /\ k < Rows(layer)  BY DEF CursorInv
  <2> QED  BY <2>1, <2>2
<1>2. base = FirstWord[layer]
  <2>1. PICK f : FirstWords(f)  BY FitAssumption DEF FirstWords
  <2> QED  BY <1>1, <2>1, FirstWordIsFirst DEF CursorInv
<1> QED  BY <1>1, <1>2, RowsDisjoint

\* The weights are right.
LEMMA WeightContent ==
  ASSUME LayoutsAgree, LoadInv, ContentInv, WriteWeight PROVE ContentInv'
<1>1. CursorInv /\ MemoryInv  BY DEF LoadInv
<1>2. /\ layer <= LayerCount /\ i < Inputs /\ i' = i + 1 /\ trained' = trained
      /\ mem' = [mem EXCEPT ![Address(n * Inputs + i, base + k)] = SlotWeight]
      /\ UNCHANGED <<layer, base, k, n>>
  BY DEF WriteWeight
<1>3. base + k \in 0..(Words - 1) /\ i \in 0..(Inputs - 1) /\ n \in 0..2 /\ k \in Nat
  BY <1>1, <1>2, WordInMemory, SlotProducts DEF CursorInv, Lanes
<1>4. PICK b \in Brams, w \in 0..(Words - 1) : b = n * Inputs + i /\ w = base + k
  BY <1>3, SlotBrams
<1>5. OneBehind(b, w)
  <2> SUFFICES ASSUME NEW c \in Brams, NEW v \in 0..(Words - 1), Before(c, v)',
                      ~Before(c, v)
               PROVE  c = b /\ v = w
    BY DEF OneBehind
  <2>1. c \in Nat /\ v \in Nat  BY <1>1, SlotProducts DEF Brams, Lanes
  <2>2. n' * Inputs + i' = n * Inputs + i + 1
    BY <1>1, <1>2, <1>3, SlotProducts
  <2>3. v = base + k  BY <1>2 DEF Before
  <2>4. c < n * Inputs + i + 1 /\ ~(c < n * Inputs + i)
    BY <1>2, <2>2, <2>3 DEF Before
  <2> QED  BY <1>1, <1>3, <1>4, <2>1, <2>3, <2>4, SlotProducts
<1>6. Right(b, w, SlotWeight)
  <2> SUFFICES ASSUME NEW l \in 1..LayerCount, NEW r \in 0..(Rows(l) - 1), NEW s \in 0..2,
                      FirstWord[l] + r = w
               PROVE  /\ \A x \in 0..(Inputs - 1) :
                           s * Inputs + x = b => SlotWeight = Goal(l, r * Lanes + s, x)
                      /\ Lanes * Inputs + s # b
    BY DEF Right
  <2>1. l = layer /\ r = k  BY <1>1, <1>2, <1>4, RowUnderCursor
  <2>2. Lanes * Inputs + s # b
    <3>1. b < Lanes * Inputs  BY <1>3, <1>4, SlotBrams
    <3>2. Lanes * Inputs \in Nat /\ b \in Nat  BY <1>1, SlotProducts DEF Brams, Lanes
    <3> QED  BY <3>1, <3>2
  <2>3. ASSUME NEW x \in 0..(Inputs - 1), s * Inputs + x = b
        PROVE  SlotWeight = Goal(l, r * Lanes + s, x)
    <3>1. Inputs \in Nat \ {0}  BY ShapesAssumption
    <3>2. s = (s * Inputs + x) \div Inputs /\ x = (s * Inputs + x) % Inputs
      BY <3>1, RowMajor, 3 \in Nat
    <3>3. n = (n * Inputs + i) \div Inputs /\ i = (n * Inputs + i) % Inputs
      BY <1>3, <3>1, RowMajor, 3 \in Nat
    <3>4. s = n /\ x = i  BY <1>4, <2>3, <3>2, <3>3
    <3>5. Neuron = r * Lanes + s /\ r * Lanes + s \in Nat
      BY <1>3, <2>1, <3>4 DEF Neuron, Lanes
    <3>6. layer \in 1..LayerCount  BY <2>1
    <3>7. buffer = Packed  BY <1>1 DEF CursorInv
    <3> QED  BY <2>1, <3>4, <3>5, <3>7, SlotWeightIsGoal
  <2> QED  BY <2>2, <2>3
<1> QED  BY <1>1, <1>2, <1>4, <1>5, <1>6, RightWrite

\* So are the biases.
LEMMA BiasContent ==
  ASSUME LayoutsAgree, LoadInv, ContentInv, WriteBias PROVE ContentInv'
<1>1. CursorInv /\ MemoryInv  BY DEF LoadInv
<1>2. /\ layer <= LayerCount /\ i = Inputs /\ i' = 0 /\ trained' = trained
      /\ mem' = [mem EXCEPT ![Address(Lanes * Inputs + n, base + k)] = SlotBias]
  BY DEF WriteBias
<1>3. base + k \in 0..(Words - 1) /\ n \in 0..2 /\ k \in Nat /\ base \in Nat
  BY <1>1, <1>2, WordInMemory DEF CursorInv, Lanes
<1>4. PICK b \in Brams, w \in 0..(Words - 1) : b = Lanes * Inputs + n /\ w = base + k
  BY <1>3, SlotBrams
<1>5. \/ n # 2 /\ n' = n + 1 /\ base' + k' = base + k
      \/ n = 2 /\ n' = 0 /\ base' + k' = base + k + 1
  <2>1. CASE n # 2
    BY <1>3, <2>1 DEF WriteBias, Lanes
  <2>2. CASE n = 2 /\ k # Rows(layer) - 1
    BY <1>3, <2>2 DEF WriteBias, Lanes
  <2>3. CASE n = 2 /\ k = Rows(layer) - 1
    <3>1. k' = 0 /\ base' = base + Rows(layer) /\ n' = 0
      BY <2>3 DEF WriteBias, Lanes, Advanced
    <3>2. Rows(layer) \in Nat  BY <1>1, <1>2, WordInMemory
    <3> QED  BY <1>3, <2>3, <3>1, <3>2
  <2> QED  BY <2>1, <2>2, <2>3
<1>6. OneBehind(b, w)
  <2> SUFFICES ASSUME NEW c \in Brams, NEW v \in 0..(Words - 1), Before(c, v)',
                      ~Before(c, v)
               PROVE  c = b /\ v = w
    BY DEF OneBehind
  <2>1. c \in Nat /\ v \in Nat /\ c <= 3 * Inputs + 2
    BY <1>1, SlotProducts DEF Brams, Lanes
  <2>2. Inputs \in Nat  BY ShapesAssumption
  <2>3. CASE n # 2 /\ n' = n + 1 /\ base' + k' = base + k
    <3>1. n' * Inputs + i' = n * Inputs + i
      BY <1>1, <1>2, <1>3, <2>3, SlotProducts
    <3>2. v = base + k  BY <2>3 DEF Before
    <3>3. ~(c < n * Inputs + i) /\ ~(Lanes * Inputs <= c /\ c < Lanes * Inputs + n)
      BY <3>2 DEF Before
    <3>4. Lanes * Inputs <= c /\ c < Lanes * Inputs + (n + 1)
      BY <2>3, <3>1, <3>2, <3>3 DEF Before
    <3> QED  BY <1>3, <1>4, <2>1, <2>2, <3>2, <3>3, <3>4 DEF Lanes
  <2>4. CASE n = 2 /\ n' = 0 /\ base' + k' = base + k + 1
    <3>1. n' * Inputs + i' = 0 /\ n * Inputs + i = Lanes * Inputs
      BY <1>2, <2>2, <2>4 DEF Lanes
    <3>2. v < base + k + 1
      <4>1. ~(c < 0)  BY <2>1
      <4>2. ~(Lanes * Inputs <= c /\ c < Lanes * Inputs + 0)
        BY <2>1, <2>2 DEF Lanes
      <4> QED  BY <2>4, <3>1, <4>1, <4>2 DEF Before
    <3>3. v = base + k  BY <1>3, <2>1, <3>2 DEF Before
    <3>4. ~(c < Lanes * Inputs) /\ ~(Lanes * Inputs <= c /\ c < Lanes * Inputs + 2)
      BY <2>4, <3>1, <3>3 DEF Before
    <3> QED  BY <1>4, <2>1, <2>2, <2>4, <3>3, <3>4 DEF Lanes
  <2> QED  BY <1>5, <2>3, <2>4
<1>7. Right(b, w, SlotBias)
  <2> SUFFICES ASSUME NEW l \in 1..LayerCount, NEW r \in 0..(Rows(l) - 1), NEW s \in 0..2,
                      FirstWord[l] + r = w
               PROVE  /\ \A x \in 0..(Inputs - 1) : s * Inputs + x # b
                      /\ Lanes * Inputs + s = b => SlotBias = BiasGoal(l, r * Lanes + s)
    BY DEF Right
  <2>1. l = layer /\ r = k  BY <1>1, <1>2, <1>4, RowUnderCursor
  <2>2. ASSUME NEW x \in 0..(Inputs - 1) PROVE s * Inputs + x # b
    <3>1. s * Inputs + x < Lanes * Inputs /\ s * Inputs + x \in Brams  BY SlotBrams
    <3>2. Lanes * Inputs \in Nat  BY <1>1, SlotProducts
    <3> HIDE DEF Brams
    <3>3. s * Inputs + x \in Nat  BY <1>1, <3>1, SlotProducts DEF Brams, Lanes
    <3> QED  BY <1>3, <1>4, <3>1, <3>2, <3>3
  <2>3. ASSUME Lanes * Inputs + s = b PROVE SlotBias = BiasGoal(l, r * Lanes + s)
    <3>1. s = n
      <4>1. Lanes * Inputs \in Nat  BY <1>1, SlotProducts
      <4> QED  BY <1>3, <1>4, <2>3, <4>1
    <3>2. Neuron = r * Lanes + s /\ r * Lanes + s \in Nat
      BY <1>3, <2>1, <3>1 DEF Neuron, Lanes
    <3>3. buffer = Packed  BY <1>1 DEF CursorInv
    <3> QED  BY <2>1, <3>2, <3>3, SlotBiasIsGoal
  <2> QED  BY <2>2, <2>3
<1> QED  BY <1>1, <1>2, <1>4, <1>6, <1>7, RightWrite

\* The invariant of the whole load.
TrainedInv == LoadInv /\ ContentInv

\* Every step of the loader keeps it.
LEMMA TrainedStep == LayoutsAgree /\ TrainedInv /\ [Next]_vars => TrainedInv'
<1> SUFFICES ASSUME LayoutsAgree, TrainedInv, [Next]_vars PROVE ContentInv'
  BY LoadStep DEF TrainedInv
<1>1. LoadInv /\ ContentInv  BY DEF TrainedInv
<1>2. CASE UNCHANGED vars
  <2>1. /\ \A l, q, x : Goal(l, q, x)' = Goal(l, q, x)
        /\ \A l, q : BiasGoal(l, q)' = BiasGoal(l, q)
        /\ \A c, v : Before(c, v)' = Before(c, v)
        /\ mem' = mem
    BY <1>2, PackedSame DEF vars, cursor, Goal, BiasGoal, Before
  <2> QED  BY <1>1, <2>1 DEF ContentInv
<1>3. CASE WriteWeight  BY <1>1, <1>3, WeightContent
<1>4. CASE WriteBias  BY <1>1, <1>4, BiasContent
<1> QED  BY <1>2, <1>3, <1>4 DEF Next, Done

\* Nothing lies behind the cursor at first.
LEMMA TrainedInit == Init => TrainedInv
<1> SUFFICES ASSUME Init PROVE ContentInv
  BY LoadInit DEF TrainedInv
<1>1. base = 0 /\ k = 0 /\ n = 0 /\ i = 0  BY DEF Init
<1>2. Inputs \in Nat  BY ShapesAssumption
<1>3. ASSUME NEW c \in Brams, NEW v \in 0..(Words - 1) PROVE ~Before(c, v)
  <2>1. c \in Nat /\ v \in Nat  BY <1>2 DEF Brams, Lanes
  <2> QED  BY <1>1, <1>2, <2>1 DEF Before, Lanes
<1> QED  BY <1>3, SlotBrams, RowInMemory DEF ContentInv

\* Once a load is over the core has the trained network, for every network that
\* fits into the memory and every checkpoint, if the three layouts have the same
\* layers: packing, pointers and loader then agree on the place of each weight
\* and bias.
THEOREM NetworkLoaded == LayoutsAgree => (Spec => []LoadedAsTrained)
<1> SUFFICES ASSUME LayoutsAgree PROVE Spec => []LoadedAsTrained
  OBVIOUS
<1>1. ASSUME TrainedInv, layer = LayerCount + 1,
             NEW l \in 1..LayerCount, NEW j \in 0..(Lanes * Rows(l) - 1)
      PROVE  /\ \A x \in 0..(Inputs - 1) : Effective(l, j, x) = Goal(l, j, x)
             /\ EffectiveBias(l, j) = BiasGoal(l, j)
  <2>1. CursorInv /\ ContentInv  BY <1>1 DEF TrainedInv, LoadInv
  <2>2. Rows(l) \in Nat \ {0}  BY RowsPositive
  <2> DEFINE r == j \div 3
             s == j % 3
  <2>3. r \in 0..(Rows(l) - 1) /\ s \in 0..2 /\ r * 3 + s = j
    BY <2>2 DEF Lanes
  <2>4. \A c : Before(c, FirstWord[l] + r)
    <3>1. PICK f : FirstWords(f)  BY FitAssumption DEF FirstWords
    <3>2. LayerCount \in Nat  BY ShapesAssumption DEF LayerCount
    <3>3. base = f[LayerCount + 1] /\ k = 0 /\ base \in Nat
      BY <1>1, <2>1, <3>1, <3>2, ShapesAssumption DEF CursorInv
    <3>4. FirstWord[l] + r < f[LayerCount + 1]  BY <2>3, <3>1, RowInMemory
    <3> QED  BY <3>3, <3>4 DEF Before
  <2> HIDE DEF r, s
  <2>5. WordOf(l, j) = FirstWord[l] + r /\ j % Lanes = s
    BY DEF WordOf, Lanes, r, s
  <2>6. r * Lanes + s = j  BY <2>3 DEF Lanes
  <2> QED
    BY <2>1, <2>3, <2>4, <2>5, <2>6 DEF ContentInv, Effective, EffectiveBias
<1>2. ASSUME TrainedInv PROVE LoadedAsTrained
  BY <1>1, <1>2 DEF LoadedAsTrained, Goal, BiasGoal
<1> QED  BY <1>2, TrainedInit, TrainedStep, PTL DEF Spec
=============================================================================
