------------------------- MODULE Num8FairnessProofs -------------------------
(***************************************************************************)
(* poll_tx starves nobody, for any number of slots.  The scan reaches a    *)
(* slot after some slots; whoever is served instead is one of these, and   *)
(* the cursor then starts behind it.  So a slot that is ready and was      *)
(* overtaken n times is fewer than ReceiverCapacity - n slots away from    *)
(* the cursor (Near), and n cannot reach ReceiverCapacity.                 *)
(***************************************************************************)
EXTENDS Num8SenderFairness, Num8SenderProofs

\* Slot i is d slots away from the cursor, and that is not too far
NearAt(i, d) ==
  d \in Nat /\ overtaken[i] + d < ReceiverCapacity /\ Turn(d) = i

Near(i) == \E d \in Slots : NearAt(i, d)

FairnessInv ==
  /\ Slots # {} => poll_cursor \in Slots
  /\ overtaken \in [Slots -> Nat]
  /\ \A i \in Slots : IF Ready(i) THEN Near(i) ELSE overtaken[i] = 0

-----------------------------------------------------------------------------
\* The scan reaches every slot.
LEMMA EverySlotHasATurn ==
  ASSUME NEW c \in Slots, NEW i \in Slots
  PROVE  \E d \in Slots : (c + d) % ReceiverCapacity = i
<1> DEFINE d == IF c <= i THEN i - c ELSE i + ReceiverCapacity - c
<1>1. /\ ReceiverCapacity \in Nat \ {0} /\ c \in Nat /\ i \in Nat
      /\ c < ReceiverCapacity /\ i < ReceiverCapacity
  BY SenderAssumption DEF Slots
<1>2. d \in Slots
  BY <1>1 DEF Slots
<1>3. (c + d) % ReceiverCapacity = i
  BY <1>1
<1> QED
  BY <1>2, <1>3

\* A slot that was just served, or just became ready, is near.
LEMMA FreshIsNear ==
  ASSUME poll_cursor' \in Slots, NEW i \in Slots, overtaken'[i] = 0
  PROVE  Near(i)'
<1>1. PICK d \in Slots : (poll_cursor' + d) % ReceiverCapacity = i
  BY EverySlotHasATurn
<1>2. d \in Nat /\ d < ReceiverCapacity
  BY SenderAssumption DEF Slots
<1> QED
  BY <1>1, <1>2 DEF Near, NearAt, Turn

\* Behind the slot that was served, the others are nearer by at least one.
LEMMA CursorAdvances ==
  ASSUME poll_cursor \in Slots, NEW k \in Slots, NEW d \in Slots, k < d,
         poll_cursor' = (Turn(k) + 1) % ReceiverCapacity
  PROVE  Turn(d - k - 1)' = Turn(d)
<1>1. /\ ReceiverCapacity \in Nat \ {0} /\ poll_cursor \in Nat
      /\ k \in Nat /\ d \in Nat /\ k + 1 \in Nat /\ d - k - 1 \in Nat
      /\ poll_cursor < ReceiverCapacity /\ d < ReceiverCapacity
      /\ k < ReceiverCapacity /\ k + 1 < ReceiverCapacity
      /\ (k + 1) + (d - k - 1) = d
  BY SenderAssumption DEF Slots
<1> DEFINE c == ReceiverCapacity
           h == poll_cursor
           j == k + 1
           e == d - k - 1
<1>2. /\ c \in Nat /\ h \in Nat /\ k \in Nat /\ 1 \in Nat /\ j \in Nat /\ e \in Nat
      /\ h < c /\ k < c /\ j < c /\ k + 1 < c /\ j + e < c /\ j + e = d
  BY <1>1
<1> HIDE DEF c, h, j, e
<1>3. (((h + k) % c) + 1) % c = (h + (k + 1)) % c
  BY <1>2
<1>4. (((h + j) % c) + e) % c = (h + (j + e)) % c
  BY <1>2, ModShift
<1>5. poll_cursor' = (h + j) % c
  BY <1>3 DEF Turn, c, h, j
<1>6. Turn(d - k - 1)' = (poll_cursor' + e) % c
  BY DEF Turn, c, e
<1> QED
  BY <1>2, <1>4, <1>5, <1>6 DEF Turn, h, c

-----------------------------------------------------------------------------
(* The steps. *)

\* A frame for another slot: that one came first in the scan.
LEMMA ServedKeepsNear ==
  ASSUME FairnessInv, NEW k \in Slots, PollSend(k), Observe,
         NEW i \in Slots, Ready(i)'
  PROVE  Near(i)'
<1>1. /\ poll_cursor' = (Turn(k) + 1) % ReceiverCapacity
      /\ FirstToServe(Reclaim(log, receivers), k)
      /\ poll_cursor \in Slots /\ poll_cursor \in Nat
  BY SenderAssumption DEF PollSend, FairnessInv, Slots
<1>2. /\ overtaken'[i] = IF i \in {Turn(n) : n \in {j \in Slots : PollSend(j)}} THEN 0
                         ELSE IF Ready(i) THEN overtaken[i] + 1 ELSE 0
  BY DEF Observe
<1>3. poll_cursor' \in Slots
  <2>1. ReceiverCapacity \in Nat \ {0} /\ Turn(k) \in Nat
    BY <1>1, SenderAssumption, TurnTyped DEF Slots
  <2> QED
    BY <1>1, <2>1 DEF Slots
<1>4. CASE overtaken'[i] = 0
  BY <1>3, <1>4, FreshIsNear
<1>5. CASE overtaken'[i] # 0
  <2>1. i # Turn(k) /\ Ready(i) /\ overtaken'[i] = overtaken[i] + 1
    BY <1>2, <1>5
  <2>2. PICK d \in Slots : NearAt(i, d)
    BY <2>1 DEF FairnessInv, Near
  <2>3. d # k
    BY <2>1, <2>2 DEF NearAt
  <2>4. ~ d < k
    BY <1>1, <2>1, <2>2, SenderAssumption DEF FirstToServe, Ready, NearAt, Slots
  <2>5. k < d /\ d \in Nat /\ k \in Nat
    BY <2>3, <2>4, SenderAssumption DEF Slots
  <2>6. Turn(d - k - 1)' = i
    BY <1>1, <2>2, <2>5, CursorAdvances DEF NearAt
  <2>7. /\ d - k - 1 \in Slots /\ d - k - 1 \in Nat
        /\ overtaken'[i] + (d - k - 1) < ReceiverCapacity
    BY <2>1, <2>2, <2>5, SenderAssumption DEF FairnessInv, NearAt, Slots
  <2> QED
    BY <2>6, <2>7 DEF Near, NearAt
<1> QED
  BY <1>4, <1>5

\* Every other call leaves the cursor alone.
LEMMA CursorStays ==
  ASSUME Next, ~ \E k \in Slots : PollSend(k)
  PROVE  UNCHANGED poll_cursor
<1>1. CASE \E rid \in ReceiverIds, n \in Progress :
             RegisterReceiver(rid, n) \/ SetReceiverProgress(rid, n)
  BY <1>1 DEF RegisterReceiver, SetReceiverProgress
<1>2. CASE \E rid \in ReceiverIds : UnregisterReceiver(rid)
  BY <1>2 DEF UnregisterReceiver
<1>3. CASE \/ \E op_type \in OpTypes, v \in Values : Enqueue(op_type, v)
           \/ \E removes, adds \in Lists : EnqueueLists(removes, adds)
  BY <1>3 DEF Enqueue, EnqueueLists
<1>4. CASE \E f \in RxFrames : HandleRequest(f) \/ HandleRx(f)
  BY <1>4 DEF HandleRequest, HandleRx, HandleRxRequest, HandleRxAck, HandleRxNack
<1>5. CASE Poll
  BY <1>5 DEF Poll, PollIdle, PollFail
<1>6. CASE Tick
  BY <1>6 DEF Tick
<1> QED
  BY <1>1, <1>2, <1>3, <1>4, <1>5, <1>6 DEF Next

\* A call that sends nothing counts nothing.
LEMMA OthersKeepNear ==
  ASSUME FairnessInv, UNCHANGED poll_cursor, NEW i \in Slots, Ready(i)',
         overtaken'[i] \in {0, overtaken[i]}
  PROVE  Near(i)'
<1>1. poll_cursor' \in Slots
  BY DEF FairnessInv
<1>2. CASE overtaken'[i] = 0
  BY <1>1, <1>2, FreshIsNear
<1>3. CASE overtaken'[i] = overtaken[i] /\ overtaken[i] # 0
  BY <1>3 DEF FairnessInv, Near, NearAt, Turn
<1> QED
  BY <1>2, <1>3

LEMMA FairnessInit == ObservedInit => FairnessInv
<1> SUFFICES ASSUME ObservedInit
             PROVE  FairnessInv
  OBVIOUS
<1>1. Slots # {} => poll_cursor \in Slots
  BY SenderAssumption DEF ObservedInit, Init, Slots
<1>2. \A i \in Slots : ~Ready(i) /\ overtaken[i] = 0
  BY DEF ObservedInit, Init, Ready, Serves, ZeroSlot
<1>3. overtaken \in [Slots -> Nat]
  BY DEF ObservedInit
<1> QED
  BY <1>1, <1>2, <1>3 DEF FairnessInv

LEMMA FairnessStep ==
  ASSUME FairnessInv, [ObservedNext]_observed
  PROVE  FairnessInv'
<1>1. CASE ObservedNext
  <2>1. overtaken' \in [Slots -> Nat]
    BY <1>1 DEF ObservedNext, Observe, FairnessInv
  <2>2. Slots # {} => poll_cursor' \in Slots
    <3>1. CASE \E k \in Slots : PollSend(k)
      <4>1. PICK k \in Slots : PollSend(k)
        BY <3>1
      <4>2. /\ ReceiverCapacity \in Nat \ {0} /\ poll_cursor \in Nat
            /\ poll_cursor' = (Turn(k) + 1) % ReceiverCapacity
        BY <4>1, SenderAssumption DEF FairnessInv, PollSend, Slots
      <4>3. Turn(k) \in Nat
        BY <4>2, TurnTyped DEF Slots
      <4> QED
        BY <4>2, <4>3 DEF Slots
    <3>2. CASE ~ \E k \in Slots : PollSend(k)
      BY <1>1, <3>2, CursorStays DEF ObservedNext, FairnessInv
    <3> QED
      BY <3>1, <3>2
  <2>3. ASSUME NEW i \in Slots, Ready(i)' PROVE Near(i)'
    <3>1. CASE \E k \in Slots : PollSend(k)
      BY <1>1, <2>3, <3>1, ServedKeepsNear DEF ObservedNext
    <3>2. CASE ~ \E k \in Slots : PollSend(k)
      <4>1. overtaken'[i] \in {0, overtaken[i]}
        BY <1>1, <3>2 DEF ObservedNext, Observe
      <4> QED
        BY <1>1, <2>3, <3>2, <4>1, CursorStays, OthersKeepNear DEF ObservedNext
    <3> QED
      BY <3>1, <3>2
  <2>4. ASSUME NEW i \in Slots, ~Ready(i)' PROVE overtaken'[i] = 0
    BY <1>1, <2>4 DEF ObservedNext, Observe
  <2> QED
    BY <2>1, <2>2, <2>3, <2>4 DEF FairnessInv
<1>2. CASE UNCHANGED observed
  <2>1. \A i \in Slots : (Ready(i)' <=> Ready(i)) /\ (Near(i)' <=> Near(i))
    BY <1>2 DEF observed, vars, Ready, Serves, Due, Needs, Near, NearAt, Turn
  <2>2. UNCHANGED <<poll_cursor, overtaken>>
    BY <1>2 DEF observed, vars
  <2> QED
    BY <2>1, <2>2 DEF FairnessInv
<1> QED
  BY <1>1, <1>2

\* No receiver with something to send is passed over as often as there are
\* slots, for any number of slots, wrapping ids, and any calls in between.
THEOREM NobodyStarves == ObservedSpec => []NoStarvation
<1>1. FairnessInv => NoStarvation
  <2> SUFFICES ASSUME FairnessInv, NEW i \in Slots
               PROVE  overtaken[i] < ReceiverCapacity
    BY DEF NoStarvation
  <2>1. CASE Ready(i)
    <3>1. PICK d \in Slots : NearAt(i, d)
      BY <2>1 DEF FairnessInv, Near
    <3> QED
      BY <3>1, SenderAssumption DEF FairnessInv, NearAt
  <2>2. CASE ~Ready(i)
    BY <2>2, SenderAssumption DEF FairnessInv, Slots
  <2> QED
    BY <2>1, <2>2
<1>2. ObservedInit => FairnessInv
  BY FairnessInit
<1>3. FairnessInv /\ [ObservedNext]_observed => FairnessInv'
  BY FairnessStep
<1> QED
  BY <1>1, <1>2, <1>3, PTL DEF ObservedSpec
=============================================================================
