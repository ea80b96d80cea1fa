------------------------- MODULE Num8ReceiverProofs -------------------------
(***************************************************************************)
(* Theorems about Num8Receiver: for any stream, any receivers and any      *)
(* frames, a receiver's dataset is the stream's after exactly the          *)
(* operations it reports.  What StreamDataset is has to be shown first: a  *)
(* recursive definition says nothing until a function that satisfies it is *)
(* known to exist.                                                         *)
(***************************************************************************)
EXTENDS Num8Receiver, Num8NatProofs, TLAPS

-----------------------------------------------------------------------------
(* The dataset of the stream, built up to operation n. *)

BuiltTo(n, g) ==
  g = [m \in 0..n |-> IF m = 0 THEN {} ELSE ApplyNum8(Content[m], g[m - 1])]

\* The stream's dataset can be built up to any operation.
LEMMA BuiltExists == \A n \in Nat : \E g : BuiltTo(n, g)
<1> DEFINE T == {n \in Nat : ~ \E g : BuiltTo(n, g)}
<1> SUFFICES ASSUME T # {} PROVE FALSE
  OBVIOUS
<1>1. PICK x \in T : \A y \in T : x <= y
  BY LeastElement
<1>2. x \in Nat /\ ~ \E g : BuiltTo(x, g)
  BY <1>1
<1>3. CASE x = 0
  <2>1. BuiltTo(0, [m \in 0..0 |-> {}])
    BY DEF BuiltTo
  <2> QED
    BY <1>2, <1>3, <2>1
<1>4. CASE x # 0
  <2>1. x - 1 \in Nat /\ x - 1 \notin T
    BY <1>1, <1>2, <1>4
  <2>2. PICK g : BuiltTo(x - 1, g)
    BY <2>1
  <2> DEFINE h == [m \in 0..x |->
                     IF m = x THEN ApplyNum8(Content[x], g[x - 1]) ELSE g[m]]
  <2>3. /\ DOMAIN g = 0..x - 1
        /\ \A m \in 0..x - 1 :
             g[m] = IF m = 0 THEN {} ELSE ApplyNum8(Content[m], g[m - 1])
    BY <2>2 DEF BuiltTo
  <2>4. \A m \in 0..x :
          h[m] = IF m = 0 THEN {} ELSE ApplyNum8(Content[m], h[m - 1])
    <3>1. TAKE m \in 0..x
    <3>2. CASE m = x
      <4>1. h[m - 1] = g[x - 1]
        BY <1>2, <1>4, <3>2
      <4> QED
        BY <1>2, <1>4, <3>2, <4>1
    <3>3. CASE m # x
      <4>1. m \in 0..x - 1 /\ h[m] = g[m]
        BY <1>2, <3>3
      <4>2. m # 0 => h[m - 1] = g[m - 1]
        BY <1>2, <3>3, <4>1
      <4> QED
        BY <2>3, <4>1, <4>2
    <3> QED
      BY <3>2, <3>3
  <2>5. BuiltTo(x, h)
    <3> HIDE DEF h
    <3>1. h = [m \in 0..x |-> h[m]]
      BY DEF h
    <3> QED
      BY <2>4, <3>1 DEF BuiltTo
  <2> QED
    BY <1>2, <2>5
<1> QED
  BY <1>3, <1>4

LEMMA BuiltAt ==
  ASSUME NEW n \in Nat, NEW g, BuiltTo(n, g), NEW m \in 0..n
  PROVE  g[m] = IF m = 0 THEN {} ELSE ApplyNum8(Content[m], g[m - 1])
BY DEF BuiltTo

\* However far it is built, the result is the same.
LEMMA BuiltUnique ==
  ASSUME NEW n \in Nat, NEW k \in Nat, NEW g, NEW h, BuiltTo(n, g), BuiltTo(k, h),
         NEW i \in Nat, i <= n, i <= k
  PROVE  g[i] = h[i]
<1> DEFINE T == {m \in Nat : m <= n /\ m <= k /\ g[m] # h[m]}
<1> SUFFICES ASSUME T # {} PROVE FALSE
  OBVIOUS
<1>1. PICK x \in T : \A y \in T : x <= y
  BY LeastElement
<1>2. /\ g[x] = IF x = 0 THEN {} ELSE ApplyNum8(Content[x], g[x - 1])
      /\ h[x] = IF x = 0 THEN {} ELSE ApplyNum8(Content[x], h[x - 1])
  <2>1. x \in 0..n /\ x \in 0..k
    BY <1>1
  <2> QED
    BY <2>1, BuiltAt
<1>3. x # 0
  BY <1>1, <1>2
<1>4. x - 1 \in Nat /\ x - 1 \notin T /\ x - 1 <= n /\ x - 1 <= k
  BY <1>1, <1>3
<1> QED
  BY <1>1, <1>2, <1>3, <1>4

\* StreamDataset is the function its recursive definition describes.
LEMMA StreamDatasetDef ==
  /\ StreamDataset[0] = {}
  /\ \A n \in Nat : StreamDataset[n + 1] = ApplyNum8(Content[n + 1], StreamDataset[n])
<1> DEFINE B(n) == CHOOSE g : BuiltTo(n, g)
           F == [n \in Nat |-> B(n)[n]]
<1>1. ASSUME NEW n \in Nat PROVE BuiltTo(n, B(n))
  BY BuiltExists
<1>2. ASSUME NEW n \in Nat
      PROVE  F[n] = IF n = 0 THEN {} ELSE ApplyNum8(Content[n], F[n - 1])
  <2>1. B(n)[n] = IF n = 0 THEN {} ELSE ApplyNum8(Content[n], B(n)[n - 1])
    BY <1>1, BuiltAt
  <2>2. CASE n = 0
    BY <2>1, <2>2
  <2>3. CASE n # 0
    <3>1. n - 1 \in Nat /\ n - 1 <= n
      BY <2>3
    <3>2. B(n)[n - 1] = B(n - 1)[n - 1]
      <4>1. BuiltTo(n, B(n)) /\ BuiltTo(n - 1, B(n - 1))
        BY <1>1, <3>1
      <4> HIDE DEF B
      <4> QED
        BY <3>1, <4>1, BuiltUnique
    <3> QED
      BY <2>1, <2>3, <3>1, <3>2
  <2> QED
    BY <2>2, <2>3
<1>3. F = [n \in Nat |-> IF n = 0 THEN {} ELSE ApplyNum8(Content[n], F[n - 1])]
  <2> HIDE DEF F
  <2>1. F = [n \in Nat |-> F[n]]
    BY DEF F
  <2> QED
    BY <1>2, <2>1
<1>4. StreamDataset
        = [n \in Nat |-> IF n = 0 THEN {} ELSE ApplyNum8(Content[n], StreamDataset[n - 1])]
  <2> HIDE DEF F
  <2> QED
    BY <1>3 DEF StreamDataset
<1> QED
  <2>1. ASSUME NEW n \in Nat
        PROVE  StreamDataset[n]
                 = IF n = 0 THEN {} ELSE ApplyNum8(Content[n], StreamDataset[n - 1])
    BY <1>4
  <2>2. ASSUME NEW n \in Nat
        PROVE  StreamDataset[n + 1] = ApplyNum8(Content[n + 1], StreamDataset[n])
    <3>1. n + 1 \in Nat /\ n + 1 # 0 /\ (n + 1) - 1 = n
      OBVIOUS
    <3> QED
      BY <2>1, <3>1
  <2> QED
    BY <2>1, <2>2

-----------------------------------------------------------------------------
ReceiverInv == TypeOK /\ DatasetIsPrefix

LEMMA ReceiverInit == Init => ReceiverInv
  BY StreamDatasetDef, WidthAssumption
  DEF Init, ReceiverInv, TypeOK, DatasetIsPrefix, OpIds

\* Whatever is applied is the next operation of the stream.
LEMMA AppliedIsNext ==
  ASSUME ReceiverInv, NEW r \in ReceiverIds, NEW f \in DataFrames, NEW ok, NEW room,
         Verdict(r, f, ok, room) = "APPLIED"
  PROVE  /\ f.op_id = last_applied_op_id[r] + 1 /\ f.op_id \in OpIds
         /\ f.op_type = Content[f.op_id].op_type
         /\ f.value = Content[f.op_id].value
         /\ f.value \in 0..MAX_VALUE
<1>1. /\ Decodable(f) /\ Trusts(f) /\ f.stream_id = StreamId
      /\ f.type = "DATA" /\ f.op_id = Expected(r)
  BY DEF Verdict, ForReceiver
<1>2. last_applied_op_id[r] \in OpIds
  BY DEF ReceiverInv, TypeOK
<1>3. f.op_id # 0 /\ f.value <= MAX_VALUE
  BY <1>1 DEF Decodable
<1>4. f.op_id \in OpIds /\ f.value \in Nat
  BY StreamAssumption
<1>5. f.op_id = last_applied_op_id[r] + 1
  BY <1>1, <1>2, <1>3 DEF Expected, Inc32
<1> QED
  BY <1>1, <1>3, <1>4, <1>5, StreamAssumption, WidthAssumption

LEMMA ReceiverStep ==
  ASSUME ReceiverInv, [Next]_vars
  PROVE  ReceiverInv'
<1>1. CASE UNCHANGED vars
  BY <1>1 DEF vars, ReceiverInv, TypeOK, DatasetIsPrefix
<1>2. ASSUME NEW r \in ReceiverIds, NEW f \in DataFrames, NEW ok, NEW room,
             Verdict(r, f, ok, room) = "APPLIED", HandleData(r, f, ok, room)
      PROVE  ReceiverInv'
  <2> DEFINE n == last_applied_op_id[r]
  <2>1. /\ last_applied_op_id \in [ReceiverIds -> OpIds] /\ n \in Nat
        /\ dataset \in [ReceiverIds -> SUBSET (0..MAX_VALUE)]
        /\ dataset[r] = StreamDataset[n]
    BY DEF ReceiverInv, TypeOK, DatasetIsPrefix, OpIds
  <2>2. /\ last_applied_op_id' = [last_applied_op_id EXCEPT ![r] = f.op_id]
        /\ dataset' = [dataset EXCEPT ![r] = ApplyNum8(f, @)]
    BY <1>2 DEF HandleData
  <2>3. /\ f.op_id = n + 1 /\ f.op_id \in OpIds /\ f.value \in 0..MAX_VALUE
        /\ ApplyNum8(f, dataset[r]) = ApplyNum8(Content[n + 1], dataset[r])
    <3>1. /\ f.op_id = n + 1 /\ f.op_id \in OpIds /\ f.value \in 0..MAX_VALUE
          /\ f.op_type = Content[f.op_id].op_type
          /\ f.value = Content[f.op_id].value
      BY <1>2, AppliedIsNext
    <3> QED
      BY <3>1 DEF ApplyNum8
  <2>4. ApplyNum8(f, dataset[r]) = StreamDataset[n + 1]
    BY <2>1, <2>3, StreamDatasetDef
  <2>5. ApplyNum8(f, dataset[r]) \in SUBSET (0..MAX_VALUE)
    BY <2>1, <2>3 DEF ApplyNum8
  <2>6. TypeOK'
    BY <2>1, <2>2, <2>3, <2>5 DEF TypeOK
  <2>7. DatasetIsPrefix'
    BY <2>1, <2>2, <2>3, <2>4 DEF DatasetIsPrefix, ReceiverInv
  <2> QED
    BY <2>6, <2>7 DEF ReceiverInv
<1> QED
  BY <1>1, <1>2 DEF Next, HandleData

LEMMA ReceiverInvariant == Spec => []ReceiverInv
<1>1. ReceiverInv /\ [Next]_vars => ReceiverInv'
  BY ReceiverStep
<1> QED
  BY ReceiverInit, <1>1, PTL DEF Spec

\* A receiver never holds a value outside the domain, nor reports an op_id that
\* does not fit 32 bits.
THEOREM ReceiverTyped == Spec => []TypeOK
<1>1. ReceiverInv => TypeOK
  BY DEF ReceiverInv
<1> QED
  BY ReceiverInvariant, <1>1, PTL

\* For every stream and every sequence of frames, repeated, out of order or
\* foreign, and every failure: the dataset is the stream's after exactly the
\* operations that the receiver reports as applied.
THEOREM DatasetIsStream == Spec => []DatasetIsPrefix
<1>1. ReceiverInv => DatasetIsPrefix
  BY DEF ReceiverInv
<1> QED
  BY ReceiverInvariant, <1>1, PTL
=============================================================================
