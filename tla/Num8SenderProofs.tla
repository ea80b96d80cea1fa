-------------------------- MODULE Num8SenderProofs --------------------------
(***************************************************************************)
(* Theorems about Num8Sender, for every capacity, every number of          *)
(* receivers and every width of the counters.                              *)
(*                                                                         *)
(* TypeCorrect needs nothing else.  The log is right while the op_ids do   *)
(* not wrap (MaxOpId <= UINT32_MAX), which is the point of the run on      *)
(* MCSenderWrap.cfg.  This rests on the inductive invariant SenderInv: the *)
(* log is good and holds what is in flight.  A log operation, or several,  *)
(* is described once by Succeeds; StepIsGood then turns a change of the    *)
(* log and of the slots into the properties.                               *)
(*                                                                         *)
(* Last come the slots on their own: no call gives one receiver two, and   *)
(* none leaves an idle slot with what an earlier attempt or an earlier     *)
(* receiver put there.  That too needs no assumption on the op_ids.        *)
(***************************************************************************)
EXTENDS Num8Sender, Num8NatProofs, TLAPS, SequenceTheorems

-----------------------------------------------------------------------------
\* Min is that element.
LEMMA MinIsLeast ==
  ASSUME NEW T, T \subseteq Nat, T # {}
  PROVE  Min(T) \in T /\ \A y \in T : Min(T) <= y
  BY LeastElement DEF Min

-----------------------------------------------------------------------------
(* The operators on the log. *)

\* The successor of an op_id is an op_id, wrapping or not.
LEMMA Inc32Type == ASSUME NEW n \in OpIds PROVE Inc32(n) \in OpIds
  BY WidthAssumption DEF OpIds, Inc32

\* active_floor is no operation past the next one, and no operation past what
\* an active receiver needs.
LEMMA FloorFacts ==
  ASSUME NEW lg \in Log, NEW rs \in [Slots -> Slot]
  PROVE  /\ ActiveFloor(lg, rs) \in OpIds
         /\ ActiveFloor(lg, rs) <= Inc32(lg.latest_op_id)
         /\ \A i \in ActiveSlots(rs) : ActiveFloor(lg, rs) <= Needs(rs[i])
<1> DEFINE T == {Inc32(lg.latest_op_id)}
                \cup {Needs(rs[i]) : i \in ActiveSlots(rs)}
<1>1. Inc32(lg.latest_op_id) \in OpIds
  BY Inc32Type DEF Log
<1>2. \A i \in Slots : Needs(rs[i]) \in OpIds
  <2> TAKE i \in Slots
  <2>1. rs[i].last_acked_op_id \in OpIds
    BY DEF Slot
  <2> QED
    BY <2>1, Inc32Type DEF Needs
<1>3. T \subseteq OpIds /\ T # {}
  BY <1>1, <1>2 DEF ActiveSlots
<1>4. OpIds \subseteq Nat
  BY DEF OpIds
<1>5. Min(T) \in T /\ \A y \in T : Min(T) <= y
  <2> HIDE DEF T
  <2> QED
    BY <1>3, <1>4, MinIsLeast
<1>6. ActiveFloor(lg, rs) = Min(T)
  BY DEF ActiveFloor
<1> HIDE DEF T
<1>7. Min(T) \in OpIds
  BY <1>3, <1>5
<1>8. Inc32(lg.latest_op_id) \in T /\ \A i \in ActiveSlots(rs) : Needs(rs[i]) \in T
  BY DEF T
<1> QED
  BY <1>5, <1>6, <1>7, <1>8

\* reclaim_history, field by field.
LEMMA ReclaimFields ==
  ASSUME NEW lg \in Log, NEW rs \in [Slots -> Slot]
  PROVE  LET r == Reclaim(lg, rs)
             floor == ActiveFloor(lg, rs)
             drop == Min({floor - lg.oldest_retained_op_id, lg.op_count})
         IN  \/ /\ floor <= lg.oldest_retained_op_id
                /\ r = lg
             \/ /\ floor > lg.oldest_retained_op_id
                /\ drop \in {floor - lg.oldest_retained_op_id, lg.op_count}
                /\ drop <= floor - lg.oldest_retained_op_id /\ drop <= lg.op_count
                /\ r = [latest_op_id |-> lg.latest_op_id,
                        oldest_retained_op_id |-> floor,
                        op_head |-> IF lg.op_count - drop = 0 THEN 0
                                    ELSE (lg.op_head + drop) % OpCapacity,
                        op_count |-> lg.op_count - drop,
                        ops |-> lg.ops]
<1> DEFINE floor == ActiveFloor(lg, rs)
           drop == Min({floor - lg.oldest_retained_op_id, lg.op_count})
<1>1. CASE floor <= lg.oldest_retained_op_id
  BY <1>1 DEF Reclaim
<1>2. CASE ~(floor <= lg.oldest_retained_op_id)
  <2>1. floor \in Nat /\ lg.oldest_retained_op_id \in Nat /\ lg.op_count \in Nat
    BY FloorFacts DEF Log, OpIds
  <2>2. {floor - lg.oldest_retained_op_id, lg.op_count} \subseteq Nat
    BY <1>2, <2>1
  <2>3. /\ drop \in {floor - lg.oldest_retained_op_id, lg.op_count}
        /\ drop <= floor - lg.oldest_retained_op_id /\ drop <= lg.op_count
    <3> HIDE DEF floor
    <3> QED
      BY <2>2, MinIsLeast
  <2>4. Reclaim(lg, rs) =
          [lg EXCEPT !.oldest_retained_op_id = floor,
                     !.op_count = lg.op_count - drop,
                     !.op_head = IF lg.op_count - drop = 0 THEN 0
                                 ELSE (lg.op_head + drop) % OpCapacity]
    BY <1>2 DEF Reclaim
  <2> HIDE DEF floor, drop
  <2>5. Reclaim(lg, rs) = [latest_op_id |-> lg.latest_op_id,
                        oldest_retained_op_id |-> floor,
                        op_head |-> IF lg.op_count - drop = 0 THEN 0
                                    ELSE (lg.op_head + drop) % OpCapacity,
                        op_count |-> lg.op_count - drop,
                        ops |-> lg.ops]
    BY <2>4 DEF Log
  <2>6. floor > lg.oldest_retained_op_id
    BY <1>2, <2>1
  <2> QED
    BY <2>3, <2>5, <2>6 DEF floor, drop
<1> QED
  BY <1>1, <1>2

\* A log of the right type, with no more operations than the ring has room for
TypedLog(lg) == lg \in Log /\ lg.op_count <= OpCapacity

\* Reclaiming keeps a typed log typed, and touches neither the newest id nor
\* the stored operations.
LEMMA ReclaimTyped ==
  ASSUME NEW lg, TypedLog(lg), NEW rs \in [Slots -> Slot]
  PROVE  /\ TypedLog(Reclaim(lg, rs))
         /\ Reclaim(lg, rs).latest_op_id = lg.latest_op_id
         /\ Reclaim(lg, rs).ops = lg.ops
<1> DEFINE floor == ActiveFloor(lg, rs)
           drop == Min({floor - lg.oldest_retained_op_id, lg.op_count})
           count == lg.op_count - drop
           head == IF count = 0 THEN 0 ELSE (lg.op_head + drop) % OpCapacity
<1>1. lg \in Log /\ lg.op_count <= OpCapacity
  BY DEF TypedLog
<1>2. CASE Reclaim(lg, rs) = lg
  BY <1>1, <1>2 DEF TypedLog
<1>3. CASE /\ floor > lg.oldest_retained_op_id
           /\ drop \in {floor - lg.oldest_retained_op_id, lg.op_count}
           /\ drop <= floor - lg.oldest_retained_op_id /\ drop <= lg.op_count
           /\ Reclaim(lg, rs) = [latest_op_id |-> lg.latest_op_id,
                                 oldest_retained_op_id |-> floor,
                                 op_head |-> head, op_count |-> count,
                                 ops |-> lg.ops]
  <2>1. floor \in OpIds /\ floor \in Nat
    BY <1>1, FloorFacts DEF OpIds
  <2>2. lg.op_count \in Nat /\ lg.op_head \in Nat /\ lg.oldest_retained_op_id \in Nat
    BY <1>1 DEF Log, OpIds
  <2>3. drop \in Nat /\ drop <= lg.op_count
    <3> HIDE DEF drop, floor
    <3> QED
      BY <1>3, <2>1, <2>2
  <2>4. count \in Nat /\ count <= OpCapacity
    <3> HIDE DEF drop
    <3> QED
      BY <1>1, <2>2, <2>3, SenderAssumption
  <2>5. head \in Nat
    <3>1. CASE count = 0
      BY <3>1
    <3>2. CASE count # 0
      <4>1. OpCapacity \in Nat \ {0}
        BY <2>4, <3>2, SenderAssumption
      <4> HIDE DEF drop
      <4> QED
        BY <2>2, <2>3, <4>1
    <3> QED
      BY <3>1, <3>2
  <2> HIDE DEF floor, count, head
  <2> QED
    BY <1>1, <1>3, <2>1, <2>4, <2>5 DEF TypedLog, Log
<1> QED
  BY <1>1, <1>2, <1>3, ReclaimFields

\* So does appending, if there is room.
LEMMA AppendTyped ==
  ASSUME NEW lg, TypedLog(lg), lg.op_count < OpCapacity,
         NEW op_type \in OpTypes, NEW value \in Nat
  PROVE  TypedLog(AppendOp(lg, op_type, value))
<1> DEFINE head == IF lg.op_count = 0 THEN 0 ELSE lg.op_head
           at == (head + lg.op_count) % OpCapacity
           id == Inc32(lg.latest_op_id)
           op == [op_id |-> id, op_type |-> op_type, value |-> value]
<1>1. /\ lg \in Log /\ OpCapacity \in Nat \ {0}
      /\ lg.op_count \in Nat /\ lg.op_head \in Nat
      /\ lg.ops \in [0 .. OpCapacity - 1 -> Op]
      /\ lg.latest_op_id \in OpIds /\ lg.oldest_retained_op_id \in OpIds
  BY SenderAssumption DEF TypedLog, Log
<1>2. id \in OpIds
  BY <1>1, Inc32Type
<1>3. op \in Op
  BY <1>2 DEF Op
<1>4. head \in Nat
  BY <1>1
<1>5. [lg.ops EXCEPT ![at] = op] \in [0 .. OpCapacity - 1 -> Op]
  BY <1>1, <1>3
<1>6. AppendOp(lg, op_type, value) =
        [latest_op_id |-> id,
         oldest_retained_op_id |-> IF lg.op_count = 0 THEN id
                                   ELSE lg.oldest_retained_op_id,
         op_head |-> head, op_count |-> lg.op_count + 1,
         ops |-> [lg.ops EXCEPT ![at] = op]]
  BY DEF AppendOp
<1> HIDE DEF head, at, id, op
<1> QED
  BY <1>1, <1>2, <1>4, <1>5, <1>6 DEF TypedLog, Log

\* And so does enqueue_op, which reclaims first.
LEMMA EnqueueTyped ==
  ASSUME NEW lg, TypedLog(lg), NEW rs \in [Slots -> Slot],
         NEW op_type \in OpTypes, NEW value \in Nat
  PROVE  TypedLog(EnqueueOp(lg, rs, op_type, value))
<1> DEFINE r == Reclaim(lg, rs)
<1>1. TypedLog(r)
  BY ReclaimTyped
<1>2. r.op_count \in Nat /\ OpCapacity \in Nat
  BY <1>1, SenderAssumption DEF TypedLog, Log
<1> HIDE DEF r
<1>3. CASE r.op_count >= OpCapacity
  BY <1>1, <1>3 DEF EnqueueOp, r
<1>4. CASE r.op_count < OpCapacity
  <2>1. TypedLog(AppendOp(r, op_type, value))
    BY <1>1, <1>4, AppendTyped
  <2> QED
    BY <1>2, <1>4, <2>1 DEF EnqueueOp, r
<1> QED
  BY <1>2, <1>3, <1>4
-----------------------------------------------------------------------------
(* The operators on the slots. *)

\* A cleared slot is a slot, and keeps its receiver and its progress.
LEMMA ClearedTyped ==
  ASSUME NEW sl \in Slot
  PROVE  /\ Cleared(sl) \in Slot
         /\ Cleared(sl).active = sl.active
         /\ Cleared(sl).receiver_id = sl.receiver_id
         /\ Cleared(sl).last_acked_op_id = sl.last_acked_op_id
         /\ Cleared(sl).waiting_ack = 0
<1>1. 0 \in Flag /\ 0 \in OpIds /\ 0 \in 0..MaxRetries
  BY SenderAssumption, WidthAssumption DEF Flag, OpIds
<1> QED
  BY <1>1 DEF Cleared, Slot

\* A deadline saturates at the largest time.
LEMMA DeadlineTyped ==
  ASSUME NEW t \in 0..UINT64_MAX
  PROVE  DeadlineAfter(t) \in 0..UINT64_MAX
<1>1. {t + AckTimeout, UINT64_MAX} \subseteq Nat
  BY SenderAssumption
<1>2. /\ DeadlineAfter(t) \in {t + AckTimeout, UINT64_MAX}
      /\ DeadlineAfter(t) <= UINT64_MAX
  BY <1>1, MinIsLeast DEF DeadlineAfter
<1> QED
  BY <1>1, <1>2, SenderAssumption

\* The scan looks at slots only.
LEMMA TurnTyped ==
  ASSUME NEW k \in Slots, poll_cursor \in Nat
  PROVE  Turn(k) \in Slots /\ (Turn(k) + 1) % ReceiverCapacity \in Nat
<1>1. ReceiverCapacity \in Nat \ {0} /\ k \in Nat
  BY SenderAssumption DEF Slots
<1> QED
  BY <1>1 DEF Slots, Turn

\* Passing over a slot leaves it alone or gives its receiver up.
LEMMA PassedOverTyped ==
  ASSUME NEW k, receivers \in [Slots -> Slot]
  PROVE  /\ PassedOver(k) \in [Slots -> Slot]
         /\ \A i \in Slots :
              \/ PassedOver(k)[i] = receivers[i]
              \/ PassedOver(k)[i] = [Cleared(receivers[i]) EXCEPT !.exhausted = 1]
<1>1. \A i \in Slots : [Cleared(receivers[i]) EXCEPT !.exhausted = 1] \in Slot
  BY ClearedTyped DEF Slot, Flag
<1> QED
  BY <1>1 DEF PassedOver

\* Each of the one or two operations of a batch is one.
LEMMA BatchTyped ==
  ASSUME NEW removes \in Lists, NEW adds \in Lists
  PROVE  LET batch == [k \in 1 .. Len(removes) |-> <<"REMOVE", removes[k]>>]
                      \o [k \in 1 .. Len(adds) |-> <<"ADD", adds[k]>>]
         IN  \A k \in 1 .. Len(batch) :
               batch[k][1] \in OpTypes /\ batch[k][2] \in Nat
<1>1. ASSUME NEW l \in Lists PROVE l \in Seq(Values)
  <2>1. PICK n \in 0..2 : l \in [1..n -> Values]
    BY DEF Lists
  <2> QED
    BY <2>1
<1>2. [k \in 1 .. Len(removes) |-> <<"REMOVE", removes[k]>>] \in Seq(OpTypes \X Values)
  <2>1. Len(removes) \in Nat /\ \A k \in 1 .. Len(removes) : removes[k] \in Values
    BY <1>1
  <2> QED
    BY <2>1 DEF OpTypes
<1>3. [k \in 1 .. Len(adds) |-> <<"ADD", adds[k]>>] \in Seq(OpTypes \X Values)
  <2>1. Len(adds) \in Nat /\ \A k \in 1 .. Len(adds) : adds[k] \in Values
    BY <1>1
  <2> QED
    BY <2>1 DEF OpTypes
<1> DEFINE batch == [k \in 1 .. Len(removes) |-> <<"REMOVE", removes[k]>>]
                    \o [k \in 1 .. Len(adds) |-> <<"ADD", adds[k]>>]
<1>4. batch \in Seq(OpTypes \X Values)
  BY <1>2, <1>3, ConcatProperties
<1>5. Values \subseteq Nat
  BY SenderAssumption
<1> HIDE DEF batch
<1>6. ASSUME NEW k \in 1 .. Len(batch)
      PROVE  batch[k][1] \in OpTypes /\ batch[k][2] \in Nat
  <2>1. batch[k] \in OpTypes \X Values
    BY <1>4
  <2> QED
    BY <1>5, <2>1
<1> QED
  BY <1>6 DEF batch

-----------------------------------------------------------------------------
(* Type correctness. *)

\* TypeOK is not inductive by itself: that the head stays a natural needs the
\* ring to have room for what it holds.
TypeInv == TypeOK /\ log.op_count <= OpCapacity

LEMMA TypeInit == Init => TypeInv
<1> SUFFICES ASSUME Init PROVE TypeInv
  OBVIOUS
<1>1. ZeroOp \in Op /\ ZeroSlot \in Slot
  BY SenderAssumption, WidthAssumption
  DEF ZeroOp, Op, ZeroSlot, Slot, Flag, OpIds
<1>2. log \in Log /\ log.op_count = 0
  BY <1>1, WidthAssumption DEF Init, Log, OpIds
<1>3. receivers \in [Slots -> Slot]
  BY <1>1 DEF Init
<1> QED
  BY <1>2, <1>3, SenderAssumption DEF Init, TypeInv, TypeOK

\* A slot changes and the log is reclaimed.
LEMMA TypeSetSlot ==
  ASSUME TypeInv, NEW i \in Slots, NEW sl \in Slot, SetSlotAndReclaim(i, sl),
         UNCHANGED <<seq, poll_cursor, now>>
  PROVE  TypeInv'
<1> USE DEF TypeInv, TypeOK
<1>1. receivers' \in [Slots -> Slot]
  BY DEF SetSlotAndReclaim
<1>2. TypedLog(log')
  BY <1>1, ReclaimTyped DEF SetSlotAndReclaim, TypedLog
<1> QED
  BY <1>1, <1>2 DEF TypedLog

\* The calls of the application.
LEMMA TypeRegistry ==
  ASSUME TypeInv, NEW rid \in ReceiverIds,
         \/ \E n \in Progress :
              RegisterReceiver(rid, n) \/ SetReceiverProgress(rid, n)
         \/ UnregisterReceiver(rid)
  PROVE  TypeInv'
<1> USE DEF TypeInv, TypeOK
<1>1. TypedLog(log) /\ Progress \subseteq OpIds
  BY SenderAssumption DEF TypedLog
<1>2. ASSUME NEW n \in Progress, RegisterReceiver(rid, n) PROVE TypeInv'
  <2>1. TypedLog(log')
    BY <1>1, <1>2, ReclaimTyped DEF RegisterReceiver
  <2>2. receivers' \in [Slots -> Slot]
    <3>1. CASE UNCHANGED receivers
      BY <3>1
    <3>2. CASE TakeSlot(rid, n)
      <4> DEFINE taken(i) == [receivers[i] EXCEPT !.active = 1, !.receiver_id = rid,
                                !.last_acked_op_id = n, !.exhausted = 0]
      <4>1. PICK i \in Slots : receivers' = [receivers EXCEPT ![i] = taken(i)]
        BY <3>2 DEF TakeSlot, FreeSlots
      <4>2. taken(i) \in Slot
        BY <1>1 DEF Slot, Flag
      <4> QED
        BY <4>1, <4>2
    <3> QED
      BY <1>2, <3>1, <3>2 DEF RegisterReceiver
  <2> QED
    BY <1>2, <2>1, <2>2 DEF RegisterReceiver, TypedLog
<1>3. ASSUME NEW n \in Progress, SetReceiverProgress(rid, n) PROVE TypeInv'
  <2>1. PICK i \in Slots :
          SetSlotAndReclaim(i, [Cleared(receivers[i]) EXCEPT !.last_acked_op_id = n])
    BY <1>3 DEF SetReceiverProgress
  <2>2. [Cleared(receivers[i]) EXCEPT !.last_acked_op_id = n] \in Slot
    BY <1>1, ClearedTyped DEF Slot
  <2> QED
    BY TypeSetSlot, <1>3, <2>1, <2>2 DEF SetReceiverProgress
<1>4. CASE UnregisterReceiver(rid)
  <2>1. PICK i \in Slots :
          SetSlotAndReclaim(i, [Cleared(receivers[i]) EXCEPT !.active = 0])
    BY <1>4 DEF UnregisterReceiver
  <2>2. [Cleared(receivers[i]) EXCEPT !.active = 0] \in Slot
    BY ClearedTyped DEF Slot, Flag
  <2> QED
    BY TypeSetSlot, <1>4, <2>1, <2>2 DEF UnregisterReceiver
<1> QED
  BY <1>2, <1>3, <1>4

LEMMA TypeEnqueue ==
  ASSUME TypeInv,
         \/ \E op_type \in OpTypes, v \in Values : Enqueue(op_type, v)
         \/ \E removes, adds \in Lists : EnqueueLists(removes, adds)
  PROVE  TypeInv'
<1> USE DEF TypeInv, TypeOK
<1>1. TypedLog(log) /\ Values \subseteq Nat
  BY SenderAssumption DEF TypedLog
<1>2. CASE \E op_type \in OpTypes, v \in Values : Enqueue(op_type, v)
  BY <1>1, <1>2, EnqueueTyped DEF Enqueue, TypedLog
<1>3. ASSUME NEW removes \in Lists, NEW adds \in Lists,
             EnqueueLists(removes, adds)
      PROVE  TypeInv'
  <2> DEFINE batch == [k \in 1 .. Len(removes) |-> <<"REMOVE", removes[k]>>]
                      \o [k \in 1 .. Len(adds) |-> <<"ADD", adds[k]>>]
             first == EnqueueOp(log, receivers, batch[1][1], batch[1][2])
             second == EnqueueOp(first, receivers, batch[2][1], batch[2][2])
  <2>1. \A k \in 1 .. Len(batch) : batch[k][1] \in OpTypes /\ batch[k][2] \in Nat
    BY BatchTyped
  <2>2. /\ Len(batch) \in 1..2
        /\ log' = IF Len(batch) = 1 THEN first ELSE second
        /\ UNCHANGED <<seq, receivers, poll_cursor, now>>
    BY <1>3 DEF EnqueueLists
  <2> HIDE DEF batch
  <2>3. TypedLog(first)
    BY <1>1, <2>2, <2>1, EnqueueTyped
  <2>4. Len(batch) = 2 => TypedLog(second)
    <3> HIDE DEF first
    <3> QED
      BY <2>1, <2>3, EnqueueTyped
  <2> HIDE DEF first, second
  <2>5. TypedLog(log')
    BY <2>2, <2>3, <2>4
  <2> QED
    BY <2>2, <2>5 DEF TypedLog
<1> QED
  BY <1>2, <1>3

\* poll_tx.
LEMMA TypePoll == ASSUME TypeInv, Poll PROVE TypeInv'
<1> USE DEF TypeInv, TypeOK
<1>1. TypedLog(log)
  BY DEF TypedLog
<1>2. TypedLog(Reclaim(log, receivers))
  BY <1>1, ReclaimTyped
<1>3. CASE PollIdle
  BY <1>2, <1>3, PassedOverTyped DEF PollIdle, TypedLog
<1>4. ASSUME NEW k \in Slots, PollSend(k) PROVE TypeInv'
  <2> DEFINE i == Turn(k)
             sl == receivers[i]
             lg == Reclaim(log, receivers)
             retries == IF sl.waiting_ack = 1 THEN sl.retries + 1 ELSE 0
             new == [sl EXCEPT !.inflight_op_id = Target(sl), !.waiting_ack = 1,
                               !.exhausted = 0, !.retries = retries,
                               !.due_at_ms = DeadlineAfter(now)]
  <2>1. i \in Slots /\ (i + 1) % ReceiverCapacity \in Nat
    BY TurnTyped
  <2>2. sl \in Slot
    BY <2>1
  <2>3. retries \in 0..MaxRetries
    BY <1>4, <2>2, SenderAssumption
    DEF PollSend, FirstToServe, Serves, Slot
  <2>4. Target(sl) \in OpIds
    BY <2>2, Inc32Type DEF Target, Needs, Slot
  <2>5. DeadlineAfter(now) \in 0..UINT64_MAX
    BY DeadlineTyped
  <2>6. seq # UINT16_MAX
    BY <1>4 DEF PollSend, PollFrames, CanEncode
  <2>7. /\ receivers' = [PassedOver(k) EXCEPT ![i] = new]
        /\ log' = lg /\ seq' = seq + 1 /\ now' = now
        /\ poll_cursor' = (i + 1) % ReceiverCapacity
    BY <1>4 DEF PollSend
  <2>8. new \in Slot
    <3> HIDE DEF retries, sl
    <3> QED
      BY <2>2, <2>3, <2>4, <2>5 DEF Slot, Flag
  <2>9. receivers' \in [Slots -> Slot]
    <3> HIDE DEF new
    <3> QED
      BY <2>7, <2>8, PassedOverTyped
  <2> HIDE DEF i, new, lg
  <2>10. seq' \in 1..UINT16_MAX /\ poll_cursor' \in Nat /\ now' \in 0..UINT64_MAX
    BY <2>1, <2>6, <2>7, SenderAssumption
  <2> QED
    BY <1>2, <2>7, <2>9, <2>10 DEF lg, TypedLog
<1>5. ASSUME NEW k \in Slots, NEW fits \in BOOLEAN, PollFail(k, fits)
      PROVE  TypeInv'
  <2> DEFINE i == Turn(k)
             sl == receivers[i]
             lg == Reclaim(log, receivers)
             retries == IF sl.waiting_ack = 1 THEN sl.retries + 1 ELSE sl.retries
  <2>1. i \in Slots
    BY TurnTyped
  <2>2. sl \in Slot
    BY <2>1
  <2>3. retries \in 0..MaxRetries
    BY <1>5, <2>2, SenderAssumption
    DEF PollFail, FirstToServe, Serves, Slot
  <2>4. [sl EXCEPT !.retries = retries] \in Slot
    <3> HIDE DEF retries, sl
    <3> QED
      BY <2>2, <2>3 DEF Slot
  <2>5. /\ receivers' = [PassedOver(k) EXCEPT ![i] = [sl EXCEPT !.retries = retries]]
        /\ log' = lg /\ now' = now /\ poll_cursor' = poll_cursor
        /\ seq' = IF CanEncode(lg, sl) THEN seq + 1 ELSE seq
    BY <1>5 DEF PollFail
  <2>6. receivers' \in [Slots -> Slot]
    <3> HIDE DEF sl, retries
    <3> QED
      BY <2>4, <2>5, PassedOverTyped
  <2>7. seq' \in 1..UINT16_MAX
    BY <2>5, SenderAssumption DEF CanEncode
  <2> QED
    BY <1>2, <2>5, <2>6, <2>7 DEF TypedLog
<1> QED
  BY <1>3, <1>4, <1>5 DEF Poll

\* Frames in, whatever they are.
LEMMA TypeRx ==
  ASSUME TypeInv, NEW f, f.op_id \in OpIds, HandleRequest(f) \/ HandleRx(f)
  PROVE  TypeInv'
<1> USE DEF TypeInv, TypeOK
<1>1. TypedLog(log)
  BY DEF TypedLog
<1>2. CASE HandleRequest(f)
  <2>1. seq # UINT16_MAX /\ seq' = seq + 1
    BY <1>2 DEF HandleRequest, AsksReclaimed
  <2>2. seq' \in 1..UINT16_MAX
    BY <2>1, SenderAssumption
  <2> QED
    BY <1>2, <2>2 DEF HandleRequest
<1>3. CASE HandleRxRequest(f)
  <2>1. PICK i \in Slots : receivers' = [receivers EXCEPT ![i].due_at_ms = now]
    BY <1>3 DEF HandleRxRequest
  <2>2. [receivers[i] EXCEPT !.due_at_ms = now] \in Slot
    BY DEF Slot
  <2>3. receivers' \in [Slots -> Slot]
    BY <2>1, <2>2
  <2> QED
    BY <1>3, <2>3 DEF HandleRxRequest
<1>4. CASE HandleRxAck(f)
  <2>1. PICK i \in Slots : SetSlotAndReclaim(i,
          [Cleared(receivers[i]) EXCEPT !.last_acked_op_id = f.op_id])
    BY <1>4 DEF HandleRxAck
  <2>2. [Cleared(receivers[i]) EXCEPT !.last_acked_op_id = f.op_id] \in Slot
    BY ClearedTyped DEF Slot
  <2> QED
    BY TypeSetSlot, <1>4, <2>1, <2>2 DEF HandleRxAck
<1>5. CASE HandleRxNack(f)
  <2>1. PICK i \in Slots : SetSlotAndReclaim(i,
          [Cleared(receivers[i]) EXCEPT !.due_at_ms = now])
    BY <1>5 DEF HandleRxNack
  <2>2. [Cleared(receivers[i]) EXCEPT !.due_at_ms = now] \in Slot
    BY ClearedTyped DEF Slot
  <2> QED
    BY TypeSetSlot, <1>5, <2>1, <2>2 DEF HandleRxNack
<1> QED
  BY <1>2, <1>3, <1>4, <1>5 DEF HandleRx

LEMMA TypeStep == ASSUME TypeInv, [Next]_vars PROVE TypeInv'
<1>1. CASE UNCHANGED vars
  BY <1>1 DEF vars, TypeInv, TypeOK
<1>2. CASE \E rid \in ReceiverIds, n \in Progress :
             RegisterReceiver(rid, n) \/ SetReceiverProgress(rid, n)
  BY <1>2, TypeRegistry
<1>3. CASE \E rid \in ReceiverIds : UnregisterReceiver(rid)
  BY <1>3, TypeRegistry
<1>4. CASE \/ \E op_type \in OpTypes, v \in Values : Enqueue(op_type, v)
           \/ \E removes, adds \in Lists : EnqueueLists(removes, adds)
  BY <1>4, TypeEnqueue
<1>5. CASE \E f \in RxFrames : HandleRequest(f) \/ HandleRx(f)
  BY <1>5, TypeRx, SenderAssumption
<1>6. CASE Poll
  BY <1>6, TypePoll
<1>7. CASE Tick
  BY <1>7, SenderAssumption DEF Tick, TypeInv, TypeOK
<1> QED
  BY <1>1, <1>2, <1>3, <1>4, <1>5, <1>6, <1>7 DEF Next

\* Every reachable state of the sender is in its types, whatever the capacities,
\* the timeouts and the widths of the counters are.
THEOREM TypeCorrect == Spec => []TypeOK
<1>1. TypeInv /\ [Next]_vars => TypeInv'
  BY TypeStep
<1>2. TypeInv => TypeOK
  BY DEF TypeInv
<1> QED
  BY TypeInit, <1>1, <1>2, PTL DEF Spec

-----------------------------------------------------------------------------
(* The ring.  The op_ids must not wrap: MaxOpId <= UINT32_MAX. *)

\* Positions relative to a head that moved are positions relative to the head
\* before it moved.
LEMMA ModShift ==
  ASSUME NEW c \in Nat, NEW h \in Nat, NEW d \in Nat, NEW k \in Nat,
         h < c, d < c, d + k < c
  PROVE  (((h + d) % c) + k) % c = (h + (d + k)) % c
  OBVIOUS

\* Two distances from the head shorter than the ring are different positions.
LEMMA ModDistinct ==
  ASSUME NEW c \in Nat, NEW h \in Nat, NEW j \in Nat, NEW k \in Nat,
         h < c, j < k, k < c
  PROVE  /\ (h + j) % c # (h + k) % c
         /\ (h + j) % c \in 0 .. c - 1 /\ (h + k) % c \in 0 .. c - 1
  OBVIOUS

\* RingConsistent, of any log
Ring(lg) ==
  /\ lg.op_count <= OpCapacity
  /\ lg.op_count = 0 \/ lg.op_head < OpCapacity
  /\ lg.oldest_retained_op_id + lg.op_count = lg.latest_op_id + 1
  /\ \A k \in 0 .. lg.op_count - 1 :
       lg.ops[(lg.op_head + k) % OpCapacity].op_id
         = lg.oldest_retained_op_id + k

\* The logs the sender can have
GoodLog(lg) ==
  /\ lg \in Log /\ Ring(lg)
  /\ lg.latest_op_id <= MaxOpId
  /\ 1 <= lg.oldest_retained_op_id

\* The fields of a good log are numbers.
LEMMA GoodLogTyped ==
  ASSUME NEW lg, GoodLog(lg)
  PROVE  /\ lg \in Log /\ TypedLog(lg)
         /\ lg.latest_op_id \in Nat /\ lg.oldest_retained_op_id \in Nat
         /\ lg.op_count \in Nat /\ lg.op_head \in Nat
         /\ lg.oldest_retained_op_id + lg.op_count = lg.latest_op_id + 1
  BY DEF GoodLog, Ring, Log, OpIds, TypedLog

\* In a good log find_op finds exactly the window of retained ids.
LEMMA RetainedWindow ==
  ASSUME NEW lg, GoodLog(lg), NEW n \in Nat
  PROVE  Retained(lg, n) <=> /\ lg.oldest_retained_op_id <= n
                             /\ n <= lg.latest_op_id
  BY GoodLogTyped DEF Retained

\* What one log operation, or several, may do to a good log
Succeeds(old, new, rs) ==
  /\ GoodLog(new)
  /\ old.latest_op_id <= new.latest_op_id
  /\ old.oldest_retained_op_id <= new.oldest_retained_op_id
  /\ \A op_id \in OpIds : Retained(old, op_id) /\ Retained(new, op_id)
                          => OpAt(new, op_id) = OpAt(old, op_id)
  /\ \A i \in ActiveSlots(rs) :
       Retained(old, Needs(rs[i])) => Retained(new, Needs(rs[i]))

LEMMA SucceedsTransitive ==
  ASSUME NEW a, NEW b, NEW c, NEW rs, GoodLog(a),
         Succeeds(a, b, rs), Succeeds(b, c, rs)
  PROVE  Succeeds(a, c, rs)
<1>1. GoodLog(b) /\ GoodLog(c)
  BY DEF Succeeds
<1>2. /\ a.latest_op_id <= b.latest_op_id /\ b.latest_op_id <= c.latest_op_id
      /\ a.oldest_retained_op_id <= b.oldest_retained_op_id
      /\ b.oldest_retained_op_id <= c.oldest_retained_op_id
  BY DEF Succeeds
<1>3. /\ a.latest_op_id <= c.latest_op_id
      /\ a.oldest_retained_op_id <= c.oldest_retained_op_id
  BY <1>1, <1>2, GoodLogTyped
<1>4. ASSUME NEW n \in OpIds, Retained(a, n), Retained(c, n)
      PROVE  OpAt(c, n) = OpAt(a, n)
  <2>1. n \in Nat
    BY DEF OpIds
  <2>2. Retained(b, n)
    BY <1>1, <1>2, <1>4, <2>1, RetainedWindow, GoodLogTyped
  <2> QED
    BY <1>4, <2>2 DEF Succeeds
<1>5. \A i \in ActiveSlots(rs) :
        Retained(a, Needs(rs[i])) => Retained(c, Needs(rs[i]))
  BY DEF Succeeds
<1> QED
  BY <1>1, <1>3, <1>4, <1>5 DEF Succeeds

\* What a receiver needs is the operation after its last acknowledged one, or 0.
LEMMA NeedsTyped ==
  ASSUME NEW sl \in Slot
  PROVE  /\ Needs(sl) \in Nat
         /\ sl.last_acked_op_id \in Nat
         /\ Needs(sl) # 0 => Needs(sl) = sl.last_acked_op_id + 1
  BY WidthAssumption DEF Needs, Inc32, Slot, OpIds

\* Reclaiming keeps the ring, and what any active receiver needs.
LEMMA ReclaimSucceeds ==
  ASSUME MaxOpId <= UINT32_MAX,
         NEW lg, GoodLog(lg), NEW rs \in [Slots -> Slot]
  PROVE  /\ Succeeds(lg, Reclaim(lg, rs), rs)
         /\ Reclaim(lg, rs).latest_op_id = lg.latest_op_id
<1> DEFINE r == Reclaim(lg, rs)
           floor == ActiveFloor(lg, rs)
           drop == Min({floor - lg.oldest_retained_op_id, lg.op_count})
           head == IF lg.op_count - drop = 0 THEN 0
                   ELSE (lg.op_head + drop) % OpCapacity
<1>1. /\ lg \in Log /\ TypedLog(lg)
      /\ lg.latest_op_id \in Nat /\ lg.oldest_retained_op_id \in Nat
      /\ lg.op_count \in Nat /\ lg.op_head \in Nat
      /\ lg.oldest_retained_op_id + lg.op_count = lg.latest_op_id + 1
  BY GoodLogTyped
<1>2. CASE r = lg
  BY <1>1, <1>2 DEF Succeeds
<1>3. CASE /\ floor > lg.oldest_retained_op_id
           /\ drop \in {floor - lg.oldest_retained_op_id, lg.op_count}
           /\ drop <= floor - lg.oldest_retained_op_id /\ drop <= lg.op_count
           /\ r = [latest_op_id |-> lg.latest_op_id,
                   oldest_retained_op_id |-> floor,
                   op_head |-> head, op_count |-> lg.op_count - drop,
                   ops |-> lg.ops]
  <2>1. /\ floor \in Nat
        /\ floor <= Inc32(lg.latest_op_id)
        /\ \A i \in ActiveSlots(rs) : floor <= Needs(rs[i])
    BY <1>1, FloorFacts DEF OpIds
  <2>2. floor <= lg.latest_op_id + 1
    BY <1>1, <2>1, WidthAssumption DEF Inc32
  <2> HIDE DEF floor, drop, head
  <2>3. drop = floor - lg.oldest_retained_op_id /\ drop \in Nat
    BY <1>1, <1>3, <2>1, <2>2
  <2>4. /\ lg.op_count <= OpCapacity /\ OpCapacity \in Nat
        /\ lg.op_count = 0 \/ lg.op_head < OpCapacity
        /\ \A k \in 0 .. lg.op_count - 1 :
             lg.ops[(lg.op_head + k) % OpCapacity].op_id
               = lg.oldest_retained_op_id + k
    BY SenderAssumption DEF GoodLog, Ring
  <2>5. r \in Log
    BY ReclaimTyped, <1>1 DEF TypedLog
  <2>6. ASSUME NEW k \in 0 .. lg.op_count - drop - 1
        PROVE  /\ drop + k \in 0 .. lg.op_count - 1
               /\ head < OpCapacity
               /\ (head + k) % OpCapacity
                    = (lg.op_head + (drop + k)) % OpCapacity
    <3>1. lg.op_count - drop # 0 /\ k \in Nat /\ drop + k < lg.op_count
      BY <1>1, <2>3
    <3>2. /\ lg.op_head < OpCapacity /\ drop < OpCapacity
          /\ drop + k < OpCapacity
      BY <1>1, <2>3, <2>4, <3>1
    <3>3. head = (lg.op_head + drop) % OpCapacity
      BY <3>1 DEF head
    <3>4. head < OpCapacity
      BY <1>1, <2>3, <2>4, <3>2, <3>3
    <3>5. (((lg.op_head + drop) % OpCapacity) + k) % OpCapacity
            = (lg.op_head + (drop + k)) % OpCapacity
      <4>1. OpCapacity \in Nat /\ lg.op_head \in Nat /\ drop \in Nat /\ k \in Nat
        BY <1>1, <2>3, <2>4, <3>1
      <4> QED
        BY <3>2, <4>1, ModShift, Zenon
    <3>6. drop + k \in 0 .. lg.op_count - 1
      BY <1>1, <2>3, <3>1
    <3> QED
      BY <3>3, <3>4, <3>5, <3>6
  <2>7. lg.op_count - drop = 0 \/ head < OpCapacity
    <3>1. CASE lg.op_count - drop = 0
      BY <3>1
    <3>2. CASE lg.op_count - drop # 0
      <4>1. 0 \in 0 .. lg.op_count - drop - 1
        BY <1>1, <1>3, <2>3, <3>2
      <4> QED
        BY <2>6, <4>1
    <3> QED
      BY <3>1, <3>2
  <2>8. ASSUME NEW k \in 0 .. lg.op_count - drop - 1
        PROVE  lg.ops[(head + k) % OpCapacity].op_id = floor + k
    <3>1. lg.ops[(lg.op_head + (drop + k)) % OpCapacity].op_id
            = lg.oldest_retained_op_id + (drop + k)
      BY <2>4, <2>6
    <3> QED
      BY <1>1, <2>1, <2>3, <2>6, <3>1
  <2>9. GoodLog(r)
    <3>1. /\ lg.op_count - drop <= OpCapacity
          /\ floor + (lg.op_count - drop) = lg.latest_op_id + 1
      BY <1>1, <2>1, <2>3, <2>4
    <3>2. Ring(r)
      BY <1>3, <2>7, <2>8, <3>1 DEF Ring
    <3>3. lg.latest_op_id <= MaxOpId /\ 1 <= floor
      BY <1>1, <1>3, <2>1 DEF GoodLog
    <3> QED
      BY <1>3, <2>5, <3>2, <3>3 DEF GoodLog
  <2>10. ASSUME NEW n \in OpIds, Retained(lg, n), Retained(r, n)
         PROVE  OpAt(r, n) = OpAt(lg, n)
    <3> DEFINE k == n - floor
    <3>1. n \in Nat /\ floor <= n /\ n <= lg.latest_op_id
      BY <1>3, <2>9, <2>10, RetainedWindow DEF OpIds
    <3>2. /\ k \in 0 .. lg.op_count - drop - 1
          /\ drop + k = n - lg.oldest_retained_op_id
      BY <1>1, <2>1, <2>3, <3>1
    <3>3. (head + k) % OpCapacity = (lg.op_head + (drop + k)) % OpCapacity
      BY <2>6, <3>2
    <3> QED
      BY <1>3, <3>2, <3>3 DEF OpAt
  <2>11. ASSUME NEW i \in ActiveSlots(rs), Retained(lg, Needs(rs[i]))
         PROVE  Retained(r, Needs(rs[i]))
    <3>1. rs[i] \in Slot /\ Needs(rs[i]) \in Nat
      BY NeedsTyped DEF ActiveSlots
    <3>2. Needs(rs[i]) <= lg.latest_op_id
      BY <2>11, <3>1, RetainedWindow
    <3> QED
      BY <1>3, <2>1, <2>9, <3>1, <3>2, RetainedWindow
  <2> QED
    BY <1>1, <1>3, <2>1, <2>9, <2>10, <2>11 DEF Succeeds
<1> QED
  BY <1>1, <1>2, <1>3, ReclaimFields

\* Appending puts the new operation behind the others and moves none of them.
LEMMA AppendSucceeds ==
  ASSUME MaxOpId <= UINT32_MAX,
         NEW lg, GoodLog(lg), NEW rs \in [Slots -> Slot],
         lg.op_count < OpCapacity, lg.latest_op_id < MaxOpId,
         NEW op_type \in OpTypes, NEW value \in Nat
  PROVE  LET new == AppendOp(lg, op_type, value)
             id == lg.latest_op_id + 1
         IN  /\ Succeeds(lg, new, rs)
             /\ new.latest_op_id = id
             /\ new.oldest_retained_op_id = lg.oldest_retained_op_id
             /\ OpAt(new, id) = [op_id |-> id, op_type |-> op_type, value |-> value]
<1> DEFINE new == AppendOp(lg, op_type, value)
           cap == OpCapacity
           count == lg.op_count
           oldest == lg.oldest_retained_op_id
           head == IF count = 0 THEN 0 ELSE lg.op_head
           at == (head + count) % cap
           id == Inc32(lg.latest_op_id)
           op == [op_id |-> id, op_type |-> op_type, value |-> value]
<1>1. /\ lg \in Log /\ TypedLog(lg)
      /\ lg.latest_op_id \in Nat /\ oldest \in Nat
      /\ count \in Nat /\ lg.op_head \in Nat
      /\ oldest + count = lg.latest_op_id + 1
      /\ cap \in Nat \ {0} /\ MaxOpId \in Nat /\ UINT32_MAX \in Nat
  BY GoodLogTyped, SenderAssumption, WidthAssumption
<1>2. id = lg.latest_op_id + 1 /\ id = oldest + count
  BY <1>1 DEF Inc32
<1>3. new = [latest_op_id |-> id,
             oldest_retained_op_id |-> IF count = 0 THEN id ELSE oldest,
             op_head |-> head, op_count |-> count + 1,
             ops |-> [lg.ops EXCEPT ![at] = op]]
  BY DEF AppendOp
<1>4. (IF count = 0 THEN id ELSE oldest) = oldest
  BY <1>1, <1>2
<1>5. head \in Nat /\ head < cap /\ (count # 0 => head = lg.op_head)
  BY <1>1 DEF GoodLog, Ring
<1>6. lg.ops \in [0 .. cap - 1 -> Op] /\ op.op_id = id
  BY <1>1 DEF Log
<1>7. \A k \in 0 .. count - 1 :
        lg.ops[(head + k) % cap].op_id = oldest + k
  BY <1>1, <1>5 DEF GoodLog, Ring
<1> HIDE DEF count, oldest, head, at, id, op, cap
<1>8. at \in 0 .. cap - 1
  BY <1>1, <1>5 DEF at
<1>9. ASSUME NEW k \in 0 .. count - 1
      PROVE  /\ (head + k) % cap # at
             /\ (head + k) % cap \in 0 .. cap - 1
  <2>1. count < cap
    BY DEF count, cap
  <2>2. k \in Nat /\ k < count
    BY <1>1
  <2> QED
    BY <1>1, <1>5, <2>1, <2>2, ModDistinct, Zenon DEF at
<1>10. ASSUME NEW k \in 0 .. count - 1
       PROVE  new.ops[(head + k) % cap] = lg.ops[(head + k) % cap]
  BY <1>3, <1>6, <1>9
<1>11. new.ops[at] = op /\ op.op_id = id
  <2>1. new.ops = [lg.ops EXCEPT ![at] = op]
    BY <1>3
  <2>2. new.ops[at] = op
    BY <1>6, <1>8, <2>1
  <2> QED
    BY <1>6, <2>2
<1>12. new \in Log
  BY <1>1, AppendTyped DEF TypedLog
<1>13. Ring(new)
  <2>1. /\ new.op_count = count + 1 /\ new.op_head = head
        /\ new.oldest_retained_op_id = oldest /\ new.latest_op_id = id
    BY <1>3, <1>4
  <2>2. count + 1 <= OpCapacity /\ head < OpCapacity
    BY <1>1, <1>5 DEF count, cap
  <2>3. oldest + (count + 1) = id + 1
    BY <1>1, <1>2
  <2>4. ASSUME NEW k \in 0 .. (count + 1) - 1
        PROVE  new.ops[(head + k) % cap].op_id = oldest + k
    <3>1. CASE k = count
      BY <1>2, <1>11, <3>1 DEF at
    <3>2. CASE k # count
      <4>1. k \in 0 .. count - 1
        BY <1>1, <3>2
      <4> QED
        BY <1>7, <1>10, <4>1
    <3> QED
      BY <3>1, <3>2
  <2> QED
    BY <2>1, <2>2, <2>3, <2>4 DEF Ring, cap
<1>14. GoodLog(new)
  BY <1>1, <1>2, <1>3, <1>4, <1>12, <1>13 DEF GoodLog, oldest
<1>15. ASSUME NEW n \in OpIds, Retained(lg, n)
       PROVE  OpAt(new, n) = OpAt(lg, n)
  <2>1. n \in Nat /\ oldest <= n /\ n <= lg.latest_op_id
    BY <1>15, RetainedWindow DEF OpIds, oldest
  <2>2. n - oldest \in 0 .. count - 1 /\ count # 0
    BY <1>1, <2>1
  <2>3. new.ops[(head + (n - oldest)) % cap] = lg.ops[(head + (n - oldest)) % cap]
    BY <1>10, <2>2
  <2>4. new.op_head = head /\ new.oldest_retained_op_id = oldest
    BY <1>3, <1>4
  <2> QED
    BY <1>5, <2>2, <2>3, <2>4 DEF OpAt, cap, oldest
<1>16. ASSUME NEW n \in Nat, Retained(lg, n)
       PROVE  Retained(new, n)
  <2>1. oldest <= n /\ n <= lg.latest_op_id
    BY <1>16, RetainedWindow DEF oldest
  <2>2. new.oldest_retained_op_id = oldest /\ new.latest_op_id = lg.latest_op_id + 1
    BY <1>2, <1>3, <1>4
  <2> QED
    BY <1>1, <1>14, <2>1, <2>2, RetainedWindow
<1>17. \A i \in ActiveSlots(rs) : Needs(rs[i]) \in Nat
  BY NeedsTyped DEF ActiveSlots
<1>18. /\ new.latest_op_id = lg.latest_op_id + 1
       /\ new.oldest_retained_op_id = lg.oldest_retained_op_id
  BY <1>2, <1>3, <1>4 DEF oldest
<1>19. OpAt(new, id) = op
  <2>1. /\ new.op_head = head /\ new.oldest_retained_op_id = oldest
        /\ id - oldest = count
    BY <1>1, <1>2, <1>3, <1>4
  <2> QED
    BY <1>11, <2>1 DEF OpAt, at, cap
<1> HIDE DEF new
<1>20. /\ lg.latest_op_id <= new.latest_op_id
       /\ lg.oldest_retained_op_id <= new.oldest_retained_op_id
  BY <1>1, <1>18 DEF oldest
<1> QED
  BY <1>2, <1>14, <1>15, <1>16, <1>17, <1>18, <1>19, <1>20 DEF Succeeds, new, op

\* enqueue_op does one and then, if there is room, the other.
LEMMA EnqueueSucceeds ==
  ASSUME MaxOpId <= UINT32_MAX,
         NEW lg, GoodLog(lg), NEW rs \in [Slots -> Slot],
         lg.latest_op_id < MaxOpId,
         NEW op_type \in OpTypes, NEW value \in Nat
  PROVE  /\ Succeeds(lg, EnqueueOp(lg, rs, op_type, value), rs)
         /\ EnqueueOp(lg, rs, op_type, value).latest_op_id
              <= lg.latest_op_id + 1
<1> DEFINE r == Reclaim(lg, rs)
           new == AppendOp(r, op_type, value)
<1>1. Succeeds(lg, r, rs) /\ r.latest_op_id = lg.latest_op_id
  BY ReclaimSucceeds
<1>2. GoodLog(r)
  BY <1>1 DEF Succeeds
<1>3. r.op_count \in Nat /\ OpCapacity \in Nat /\ lg.latest_op_id \in Nat
  BY <1>2, GoodLogTyped, SenderAssumption
<1> HIDE DEF r
<1>4. CASE r.op_count >= OpCapacity
  BY <1>1, <1>3, <1>4 DEF EnqueueOp, r
<1>5. CASE r.op_count < OpCapacity
  <2>1. Succeeds(r, new, rs) /\ new.latest_op_id = r.latest_op_id + 1
    BY <1>1, <1>2, <1>5, AppendSucceeds
  <2>2. Succeeds(lg, new, rs)
    BY <1>1, <2>1, SucceedsTransitive
  <2>3. EnqueueOp(lg, rs, op_type, value) = new
    BY <1>3, <1>5 DEF EnqueueOp, r
  <2> HIDE DEF new
  <2> QED
    BY <1>1, <1>3, <2>1, <2>2, <2>3
<1> QED
  BY <1>3, <1>4, <1>5

\* enqueue_op appends to the reclaimed log unless the ring is still full.
LEMMA EnqueueCases ==
  ASSUME NEW lg, TypedLog(lg), NEW rs \in [Slots -> Slot], NEW op_type, NEW value
  PROVE  LET r == Reclaim(lg, rs)
             new == EnqueueOp(lg, rs, op_type, value)
         IN  \/ r.op_count >= OpCapacity /\ new = r
             \/ r.op_count < OpCapacity /\ new = AppendOp(r, op_type, value)
<1> DEFINE r == Reclaim(lg, rs)
<1>1. r.op_count \in Nat /\ OpCapacity \in Nat
  BY ReclaimTyped, SenderAssumption DEF TypedLog, Log
<1> QED
  BY <1>1 DEF EnqueueOp

\* What find_op finds is an operation.
LEMMA OpAtTyped ==
  ASSUME NEW lg, TypedLog(lg), NEW n \in Nat, Retained(lg, n)
  PROVE  OpAt(lg, n) \in Op
<1> DEFINE at == (lg.op_head + (n - lg.oldest_retained_op_id)) % OpCapacity
<1>1. /\ lg.op_head \in Nat /\ lg.op_count \in Nat /\ OpCapacity \in Nat
      /\ lg.oldest_retained_op_id \in Nat
      /\ lg.ops \in [0 .. OpCapacity - 1 -> Op]
  BY SenderAssumption DEF TypedLog, Log, OpIds
<1>2. n - lg.oldest_retained_op_id \in Nat /\ OpCapacity > 0
  BY <1>1 DEF Retained, TypedLog
<1>3. at \in 0 .. OpCapacity - 1
  <2> DEFINE d == n - lg.oldest_retained_op_id
             head == lg.op_head
  <2>1. head \in Nat /\ d \in Nat /\ OpCapacity \in Nat \ {0}
    BY <1>1, <1>2
  <2> HIDE DEF d, head
  <2>2. (head + d) % OpCapacity \in 0 .. OpCapacity - 1
    BY <2>1
  <2> QED
    BY <2>2 DEF d, head
<1> QED
  BY <1>1, <1>3 DEF OpAt

\* The log has what every active receiver needs next, if there is such a thing
Behind(lg, rs) ==
  \A i \in ActiveSlots(rs) :
    lg.oldest_retained_op_id <= rs[i].last_acked_op_id + 1

\* That is what reclaiming is careful about.
LEMMA ReclaimBehind ==
  ASSUME NEW lg \in Log, NEW rs \in [Slots -> Slot], Behind(lg, rs)
  PROVE  Behind(Reclaim(lg, rs), rs)
<1> DEFINE r == Reclaim(lg, rs)
           floor == ActiveFloor(lg, rs)
           drop == Min({floor - lg.oldest_retained_op_id, lg.op_count})
           head == IF lg.op_count - drop = 0 THEN 0
                   ELSE (lg.op_head + drop) % OpCapacity
<1>1. CASE r = lg
  BY <1>1
<1>2. CASE /\ floor > lg.oldest_retained_op_id
           /\ r = [latest_op_id |-> lg.latest_op_id,
                   oldest_retained_op_id |-> floor,
                   op_head |-> head, op_count |-> lg.op_count - drop,
                   ops |-> lg.ops]
  <2>1. SUFFICES ASSUME NEW i \in ActiveSlots(rs)
                 PROVE  r.oldest_retained_op_id <= rs[i].last_acked_op_id + 1
    BY DEF Behind
  <2>2. rs[i] \in Slot /\ floor <= Needs(rs[i]) /\ floor \in Nat
    BY FloorFacts DEF ActiveSlots, OpIds
  <2>3. lg.oldest_retained_op_id \in Nat
    BY DEF Log, OpIds
  <2>4. r.oldest_retained_op_id = floor
    <3> HIDE DEF floor, drop, head
    <3> QED
      BY <1>2
  <2> HIDE DEF floor, r
  <2>5. Needs(rs[i]) # 0 /\ Needs(rs[i]) \in Nat
    BY <1>2, <2>2, <2>3, NeedsTyped
  <2> QED
    BY <2>2, <2>4, <2>5, NeedsTyped
<1> QED
  BY <1>1, <1>2, ReclaimFields

-----------------------------------------------------------------------------
(* The invariant: the log is good and holds what is in flight. *)

SenderInv == TypeInv /\ GoodLog(log) /\ InflightRetained

\* The action under NeededOpsKept
KeepsNeededOps ==
  \A i \in Slots :
    /\ receivers[i].active = 1 /\ receivers'[i].active = 1
    /\ Retained(log, Needs(receivers'[i]))
    => Retained(log', Needs(receivers'[i]))

\* The action under RetainedOpsImmutable
KeepsRetainedOps ==
  \A op_id \in OpIds :
    Retained(log, op_id) /\ Retained(log', op_id)
    => OpAt(log', op_id) = OpAt(log, op_id)

\* What has to be shown of a step besides the types
StepGood ==
  GoodLog(log') /\ InflightRetained' /\ KeepsNeededOps /\ KeepsRetainedOps

LEMMA SenderInit == Init => SenderInv
<1> SUFFICES ASSUME Init PROVE SenderInv
  OBVIOUS
<1>1. TypeInv
  BY TypeInit
<1>2. GoodLog(log)
  BY <1>1, SenderAssumption DEF Init, GoodLog, Ring, TypeInv, TypeOK
<1>3. InflightRetained
  BY DEF Init, InflightRetained, ZeroSlot
<1> QED
  BY <1>1, <1>2, <1>3 DEF SenderInv

\* The log may change as if the slots were rs, when rs agrees with every slot
\* that stays registered on its progress, and a slot waits only for what it
\* waited for before or for what the new log holds.
LEMMA StepIsGood ==
  ASSUME MaxOpId <= UINT32_MAX, SenderInv,
         NEW rs \in [Slots -> Slot], Succeeds(log, log', rs),
         \A i \in Slots :
           receivers[i].active = 1 /\ receivers'[i].active = 1 =>
             /\ rs[i].active = 1
             /\ rs[i].last_acked_op_id = receivers'[i].last_acked_op_id,
         \A i \in Slots : receivers'[i].waiting_ack = 1 =>
           \/ /\ receivers[i].waiting_ack = 1
              /\ receivers'[i].active = receivers[i].active
              /\ receivers'[i].exhausted = receivers[i].exhausted
              /\ receivers'[i].inflight_op_id = receivers[i].inflight_op_id
              /\ receivers'[i].last_acked_op_id = receivers[i].last_acked_op_id
           \/ /\ receivers'[i].active = 1 /\ receivers'[i].exhausted = 0
              /\ receivers'[i].inflight_op_id
                   = receivers'[i].last_acked_op_id + 1
              /\ Retained(log', receivers'[i].inflight_op_id)
  PROVE  StepGood
<1>1. GoodLog(log) /\ GoodLog(log')
  BY DEF SenderInv, Succeeds
<1>2. KeepsNeededOps
  BY DEF KeepsNeededOps, Succeeds, ActiveSlots, Needs
<1>3. KeepsRetainedOps
  BY DEF KeepsRetainedOps, Succeeds
<1>4. ASSUME NEW i \in Slots, receivers'[i].waiting_ack = 1,
             receivers[i].waiting_ack = 1,
             receivers'[i].active = receivers[i].active,
             receivers'[i].last_acked_op_id = receivers[i].last_acked_op_id
      PROVE  Retained(log', receivers[i].inflight_op_id)
  <2>1. /\ receivers[i].active = 1
        /\ receivers[i].inflight_op_id = receivers[i].last_acked_op_id + 1
        /\ Retained(log, receivers[i].inflight_op_id)
    BY <1>4 DEF SenderInv, InflightRetained
  <2>2. i \in ActiveSlots(rs)
        /\ rs[i].last_acked_op_id = receivers[i].last_acked_op_id
    BY <1>4, <2>1 DEF ActiveSlots
  <2>3. receivers[i].last_acked_op_id \in Nat
    BY NeedsTyped DEF SenderInv, TypeInv, TypeOK
  <2>4. receivers[i].inflight_op_id <= UINT32_MAX
    <3>1. receivers[i].inflight_op_id \in Nat
      BY <2>1, <2>3
    <3>2. receivers[i].inflight_op_id <= log.latest_op_id
      BY <1>1, <2>1, <3>1, RetainedWindow
    <3>3. log.latest_op_id <= MaxOpId /\ log.latest_op_id \in Nat
      BY <1>1, GoodLogTyped DEF GoodLog
    <3> QED
      BY <3>1, <3>2, <3>3, SenderAssumption, WidthAssumption
  <2>5. Needs(rs[i]) = receivers[i].inflight_op_id
    BY <2>1, <2>2, <2>3, <2>4, WidthAssumption DEF Needs, Inc32
  <2> QED
    BY <2>1, <2>2, <2>5 DEF Succeeds
<1>5. InflightRetained'
  <2> SUFFICES ASSUME NEW i \in Slots, receivers'[i].waiting_ack = 1
               PROVE  /\ receivers'[i].active = 1 /\ receivers'[i].exhausted = 0
                      /\ receivers'[i].inflight_op_id
                           = receivers'[i].last_acked_op_id + 1
                      /\ Retained(log', receivers'[i].inflight_op_id)
    BY DEF InflightRetained
  <2>1. CASE /\ receivers[i].waiting_ack = 1
             /\ receivers'[i].active = receivers[i].active
             /\ receivers'[i].exhausted = receivers[i].exhausted
             /\ receivers'[i].inflight_op_id = receivers[i].inflight_op_id
             /\ receivers'[i].last_acked_op_id = receivers[i].last_acked_op_id
    <3>1. /\ receivers[i].active = 1 /\ receivers[i].exhausted = 0
          /\ receivers[i].inflight_op_id = receivers[i].last_acked_op_id + 1
      BY <2>1 DEF SenderInv, InflightRetained
    <3>2. Retained(log', receivers[i].inflight_op_id)
      BY <1>4, <2>1
    <3> QED
      BY <2>1, <3>1, <3>2
  <2> QED
    BY <2>1
<1> QED
  BY <1>1, <1>2, <1>3, <1>5 DEF StepGood

\* A slot that no longer waits changes, and the log is reclaimed.
LEMMA GoodSetSlot ==
  ASSUME MaxOpId <= UINT32_MAX, SenderInv, TypeInv',
         NEW i \in Slots, NEW sl \in Slot, sl.waiting_ack = 0,
         SetSlotAndReclaim(i, sl)
  PROVE  StepGood
<1>1. receivers \in [Slots -> Slot] /\ receivers' \in [Slots -> Slot]
  BY DEF SenderInv, TypeInv, TypeOK
<1>2. Succeeds(log, log', receivers')
  BY <1>1, ReclaimSucceeds DEF SetSlotAndReclaim, SenderInv
<1>3. \A j \in Slots : receivers'[j].waiting_ack = 1 => receivers'[j] = receivers[j]
  BY <1>1 DEF SetSlotAndReclaim
<1> QED
  BY <1>1, <1>2, <1>3, StepIsGood

LEMMA GoodRegistry ==
  ASSUME MaxOpId <= UINT32_MAX, SenderInv, TypeInv', NEW rid \in ReceiverIds,
         \/ \E n \in Progress :
              RegisterReceiver(rid, n) \/ SetReceiverProgress(rid, n)
         \/ UnregisterReceiver(rid)
  PROVE  StepGood
<1>1. /\ receivers \in [Slots -> Slot] /\ receivers' \in [Slots -> Slot]
      /\ Progress \subseteq OpIds
  BY SenderAssumption DEF SenderInv, TypeInv, TypeOK
<1>2. ASSUME NEW n \in Progress, RegisterReceiver(rid, n) PROVE StepGood
  <2>1. Succeeds(log, log', receivers)
    BY <1>1, <1>2, ReclaimSucceeds DEF RegisterReceiver, SenderInv
  <2>2. \A i \in Slots :
          \/ receivers'[i] = receivers[i]
          \/ /\ receivers[i].active # 1
             /\ receivers'[i].waiting_ack = receivers[i].waiting_ack
    <3>1. CASE UNCHANGED receivers
      BY <3>1
    <3>2. CASE TakeSlot(rid, n)
      <4>1. PICK j \in FreeSlots : receivers' = [receivers EXCEPT
              ![j] = [@ EXCEPT !.active = 1, !.receiver_id = rid,
                               !.last_acked_op_id = n, !.exhausted = 0]]
        BY <3>2 DEF TakeSlot
      <4>2. j \in Slots /\ receivers[j].active # 1 /\ receivers[j] \in Slot
        BY <1>1 DEF FreeSlots, ActiveSlots
      <4>3. receivers'[j].waiting_ack = receivers[j].waiting_ack
        BY <1>1, <4>1, <4>2 DEF Slot
      <4> QED
        BY <1>1, <4>1, <4>2, <4>3
    <3> QED
      BY <1>2, <3>1, <3>2 DEF RegisterReceiver
  <2>3. \A i \in Slots : receivers[i].waiting_ack = 1 => receivers[i].active = 1
    BY DEF SenderInv, InflightRetained
  <2>4. \A i \in Slots :
          receivers'[i].waiting_ack = 1 => receivers'[i] = receivers[i]
    BY <2>2, <2>3
  <2>5. \A i \in Slots :
          receivers[i].active = 1 => receivers'[i] = receivers[i]
    BY <2>2
  <2> QED
    BY <1>1, <2>1, <2>4, <2>5, StepIsGood
<1>3. ASSUME NEW n \in Progress, SetReceiverProgress(rid, n) PROVE StepGood
  <2>1. PICK i \in Slots :
          SetSlotAndReclaim(i, [Cleared(receivers[i]) EXCEPT !.last_acked_op_id = n])
    BY <1>3 DEF SetReceiverProgress
  <2> DEFINE sl == [Cleared(receivers[i]) EXCEPT !.last_acked_op_id = n]
  <2>2. sl \in Slot /\ sl.waiting_ack = 0
    BY <1>1, ClearedTyped DEF Slot
  <2> QED
    BY <2>1, <2>2, GoodSetSlot
<1>4. CASE UnregisterReceiver(rid)
  <2>1. PICK i \in Slots :
          SetSlotAndReclaim(i, [Cleared(receivers[i]) EXCEPT !.active = 0])
    BY <1>4 DEF UnregisterReceiver
  <2> DEFINE sl == [Cleared(receivers[i]) EXCEPT !.active = 0]
  <2>2. sl \in Slot /\ sl.waiting_ack = 0
    BY <1>1, ClearedTyped DEF Slot, Flag
  <2> QED
    BY <2>1, <2>2, GoodSetSlot
<1> QED
  BY <1>2, <1>3, <1>4

LEMMA GoodEnqueue ==
  ASSUME MaxOpId <= UINT32_MAX, SenderInv,
         \/ \E op_type \in OpTypes, v \in Values : Enqueue(op_type, v)
         \/ \E removes, adds \in Lists : EnqueueLists(removes, adds)
  PROVE  StepGood
<1>1. receivers \in [Slots -> Slot] /\ GoodLog(log) /\ Values \subseteq Nat
  BY SenderAssumption DEF SenderInv, TypeInv, TypeOK
<1>2. ASSUME UNCHANGED receivers, Succeeds(log, log', receivers)
      PROVE  StepGood
  BY <1>1, <1>2, StepIsGood
<1>3. ASSUME NEW op_type \in OpTypes, NEW v \in Values, Enqueue(op_type, v)
      PROVE  StepGood
  BY <1>1, <1>2, <1>3, EnqueueSucceeds DEF Enqueue
<1>4. ASSUME NEW removes \in Lists, NEW adds \in Lists,
             EnqueueLists(removes, adds)
      PROVE  StepGood
  <2> DEFINE batch == [k \in 1 .. Len(removes) |-> <<"REMOVE", removes[k]>>]
                      \o [k \in 1 .. Len(adds) |-> <<"ADD", adds[k]>>]
             first == EnqueueOp(log, receivers, batch[1][1], batch[1][2])
             second == EnqueueOp(first, receivers, batch[2][1], batch[2][2])
  <2>1. \A k \in 1 .. Len(batch) : batch[k][1] \in OpTypes /\ batch[k][2] \in Nat
    BY BatchTyped
  <2>2. /\ Len(batch) \in 1..2
        /\ log.latest_op_id + Len(batch) <= MaxOpId
        /\ log' = IF Len(batch) = 1 THEN first ELSE second
        /\ UNCHANGED receivers
    BY <1>4 DEF EnqueueLists
  <2> HIDE DEF batch
  <2>3. log.latest_op_id \in Nat /\ log.latest_op_id < MaxOpId
    BY <1>1, <2>2, GoodLogTyped, SenderAssumption
  <2>4. /\ Succeeds(log, first, receivers)
        /\ first.latest_op_id <= log.latest_op_id + 1
    BY <1>1, <2>2, <2>1, <2>3, EnqueueSucceeds
  <2>5. GoodLog(first) /\ first.latest_op_id \in Nat
    BY <2>4, GoodLogTyped DEF Succeeds
  <2>6. ASSUME Len(batch) = 2 PROVE Succeeds(log, second, receivers)
    <3>1. first.latest_op_id < MaxOpId
      BY <2>2, <2>3, <2>4, <2>5, <2>6, SenderAssumption
    <3>2. batch[2][1] \in OpTypes /\ batch[2][2] \in Nat
      BY <2>1, <2>6
    <3> HIDE DEF first
    <3>3. Succeeds(first, second, receivers)
      BY <1>1, <2>5, <3>1, <3>2, EnqueueSucceeds
    <3> QED
      BY <1>1, <2>4, <3>3, SucceedsTransitive
  <2> HIDE DEF first, second
  <2>7. Succeeds(log, log', receivers)
    BY <2>2, <2>4, <2>6
  <2> QED
    BY <1>2, <2>2, <2>7
<1> QED
  BY <1>3, <1>4

LEMMA GoodPoll ==
  ASSUME MaxOpId <= UINT32_MAX, SenderInv, Poll
  PROVE  StepGood
<1> DEFINE lg == Reclaim(log, receivers)
<1>1. /\ receivers \in [Slots -> Slot] /\ poll_cursor \in Nat
      /\ GoodLog(log) /\ InflightRetained
  BY DEF SenderInv, TypeInv, TypeOK
<1>2. Succeeds(log, lg, receivers) /\ GoodLog(lg)
  BY <1>1, ReclaimSucceeds DEF Succeeds
<1>3. ASSUME NEW k, NEW i \in Slots
      PROVE  /\ PassedOver(k)[i].active = receivers[i].active
             /\ PassedOver(k)[i].last_acked_op_id = receivers[i].last_acked_op_id
             /\ PassedOver(k)[i].waiting_ack = 1 =>
                  PassedOver(k)[i] = receivers[i]
  <2>1. receivers[i] \in Slot
    BY <1>1
  <2>2. CASE PassedOver(k)[i] = receivers[i]
    BY <2>2
  <2>3. CASE PassedOver(k)[i] = [Cleared(receivers[i]) EXCEPT !.exhausted = 1]
    <3>1. Cleared(receivers[i]) \in Slot
      BY <2>1, ClearedTyped
    <3>2. /\ PassedOver(k)[i].active = Cleared(receivers[i]).active
          /\ PassedOver(k)[i].last_acked_op_id
               = Cleared(receivers[i]).last_acked_op_id
          /\ PassedOver(k)[i].waiting_ack = Cleared(receivers[i]).waiting_ack
      BY <2>3, <3>1 DEF Slot
    <3> QED
      BY <2>1, <3>2, ClearedTyped
  <2> QED
    BY <1>1, <2>2, <2>3, PassedOverTyped
<1>4. CASE PollIdle
  <2>1. log' = lg /\ receivers' = PassedOver(ReceiverCapacity)
    BY <1>4 DEF PollIdle
  <2> HIDE DEF lg
  <2> QED
    BY <1>1, <1>2, <1>3, <2>1, StepIsGood
<1>5. ASSUME NEW k \in Slots, NEW new, new.active = receivers[Turn(k)].active,
             new.last_acked_op_id = receivers[Turn(k)].last_acked_op_id,
             log' = lg, receivers' = [PassedOver(k) EXCEPT ![Turn(k)] = new],
             new.waiting_ack = 1 =>
               \/ /\ receivers[Turn(k)].waiting_ack = 1
                  /\ new.exhausted = receivers[Turn(k)].exhausted
                  /\ new.inflight_op_id = receivers[Turn(k)].inflight_op_id
               \/ /\ new.active = 1 /\ new.exhausted = 0
                  /\ new.inflight_op_id = new.last_acked_op_id + 1
                  /\ Retained(lg, new.inflight_op_id)
      PROVE  StepGood
  <2>1. Turn(k) \in Slots
    BY <1>1, TurnTyped
  <2>2. /\ receivers'[Turn(k)] = new
        /\ \A i \in Slots \ {Turn(k)} : receivers'[i] = PassedOver(k)[i]
    BY <1>1, <1>5, <2>1, PassedOverTyped
  <2> HIDE DEF lg
  <2>3. \A i \in Slots :
          /\ receivers'[i].active = receivers[i].active
          /\ receivers'[i].last_acked_op_id = receivers[i].last_acked_op_id
    BY <1>3, <1>5, <2>2
  <2>4. \A i \in Slots \ {Turn(k)} :
          receivers'[i].waiting_ack = 1 => receivers'[i] = receivers[i]
    BY <1>3, <2>2
  <2> QED
    BY <1>1, <1>2, <1>5, <2>2, <2>3, <2>4, StepIsGood
<1>6. ASSUME NEW k \in Slots, PollSend(k) PROVE StepGood
  <2> DEFINE sl == receivers[Turn(k)]
             retries == IF sl.waiting_ack = 1 THEN sl.retries + 1 ELSE 0
             new == [sl EXCEPT !.inflight_op_id = Target(sl), !.waiting_ack = 1,
                               !.exhausted = 0, !.retries = retries,
                               !.due_at_ms = DeadlineAfter(now)]
  <2>1. Turn(k) \in Slots /\ sl \in Slot
    BY <1>1, TurnTyped
  <2>2. /\ log' = lg /\ receivers' = [PassedOver(k) EXCEPT ![Turn(k)] = new]
        /\ sl.active = 1 /\ sl.exhausted = 0
        /\ sl.waiting_ack # 1 => /\ lg.oldest_retained_op_id <= Needs(sl)
                                 /\ Needs(sl) <= lg.latest_op_id
    BY <1>6 DEF PollSend, FirstToServe, Serves
  <2>3. /\ new.active = sl.active /\ new.last_acked_op_id = sl.last_acked_op_id
        /\ new.exhausted = 0 /\ new.inflight_op_id = Target(sl)
    <3> HIDE DEF sl, retries
    <3> QED
      BY <2>1 DEF Slot
  <2>4. CASE sl.waiting_ack = 1
    <3>1. Target(sl) = sl.inflight_op_id
      BY <2>4 DEF Target
    <3> HIDE DEF new, lg
    <3> QED
      BY <1>5, <2>2, <2>3, <2>4, <3>1
  <2>5. CASE sl.waiting_ack # 1
    <3>1. Target(sl) = Needs(sl) /\ Needs(sl) \in Nat
      BY <2>1, <2>5, NeedsTyped DEF Target
    <3>2. Retained(lg, Needs(sl))
      BY <1>2, <2>2, <2>5, <3>1, RetainedWindow
    <3>3. Needs(sl) = sl.last_acked_op_id + 1
      <4>1. 1 <= lg.oldest_retained_op_id /\ lg.oldest_retained_op_id \in Nat
        BY <1>2, GoodLogTyped DEF GoodLog
      <4> HIDE DEF lg, sl
      <4>2. Needs(sl) # 0
        BY <2>2, <2>5, <3>1, <4>1
      <4> QED
        BY <2>1, <4>2, NeedsTyped
    <3> HIDE DEF new, lg
    <3> QED
      BY <1>5, <2>2, <2>3, <3>1, <3>2, <3>3
  <2> QED
    BY <2>4, <2>5
<1>7. ASSUME NEW k \in Slots, NEW fits \in BOOLEAN, PollFail(k, fits)
      PROVE  StepGood
  <2> DEFINE sl == receivers[Turn(k)]
             retries == IF sl.waiting_ack = 1 THEN sl.retries + 1 ELSE sl.retries
             new == [sl EXCEPT !.retries = retries]
  <2>1. Turn(k) \in Slots /\ sl \in Slot
    BY <1>1, TurnTyped
  <2>2. log' = lg /\ receivers' = [PassedOver(k) EXCEPT ![Turn(k)] = new]
    BY <1>7 DEF PollFail
  <2>3. /\ new.active = sl.active /\ new.last_acked_op_id = sl.last_acked_op_id
        /\ new.exhausted = sl.exhausted /\ new.waiting_ack = sl.waiting_ack
        /\ new.inflight_op_id = sl.inflight_op_id
    <3> HIDE DEF sl, retries
    <3> QED
      BY <2>1 DEF Slot
  <2> HIDE DEF new, lg
  <2> QED
    BY <1>5, <2>2, <2>3
<1> QED
  BY <1>4, <1>6, <1>7 DEF Poll

LEMMA GoodRx ==
  ASSUME MaxOpId <= UINT32_MAX, SenderInv, TypeInv',
         NEW f, f.op_id \in OpIds, HandleRequest(f) \/ HandleRx(f)
  PROVE  StepGood
<1>1. /\ receivers \in [Slots -> Slot] /\ receivers' \in [Slots -> Slot]
      /\ GoodLog(log) /\ now \in 0..UINT64_MAX
  BY DEF SenderInv, TypeInv, TypeOK
<1>2. ASSUME UNCHANGED log,
             \A i \in Slots :
               /\ receivers'[i].active = receivers[i].active
               /\ receivers'[i].waiting_ack = receivers[i].waiting_ack
               /\ receivers'[i].exhausted = receivers[i].exhausted
               /\ receivers'[i].inflight_op_id = receivers[i].inflight_op_id
               /\ receivers'[i].last_acked_op_id = receivers[i].last_acked_op_id
      PROVE  StepGood
  <2>1. Succeeds(log, log', receivers)
    BY <1>1, <1>2, GoodLogTyped DEF Succeeds
  <2> QED
    BY <1>1, <1>2, <2>1, StepIsGood
<1>3. CASE HandleRequest(f)
  BY <1>2, <1>3 DEF HandleRequest
<1>4. CASE HandleRxRequest(f)
  <2>1. PICK i \in Slots : receivers' = [receivers EXCEPT ![i].due_at_ms = now]
    BY <1>4 DEF HandleRxRequest
  <2>2. UNCHANGED log
    BY <1>4 DEF HandleRxRequest
  <2>3. \A j \in Slots :
          /\ receivers'[j].active = receivers[j].active
          /\ receivers'[j].waiting_ack = receivers[j].waiting_ack
          /\ receivers'[j].exhausted = receivers[j].exhausted
          /\ receivers'[j].inflight_op_id = receivers[j].inflight_op_id
          /\ receivers'[j].last_acked_op_id = receivers[j].last_acked_op_id
    BY <1>1, <2>1 DEF Slot
  <2> QED
    BY <1>2, <2>2, <2>3
<1>5. CASE HandleRxAck(f)
  <2>1. PICK i \in Slots : SetSlotAndReclaim(i,
          [Cleared(receivers[i]) EXCEPT !.last_acked_op_id = f.op_id])
    BY <1>5 DEF HandleRxAck
  <2> DEFINE sl == [Cleared(receivers[i]) EXCEPT !.last_acked_op_id = f.op_id]
  <2>2. sl \in Slot /\ sl.waiting_ack = 0
    BY <1>1, ClearedTyped DEF Slot
  <2> QED
    BY <2>1, <2>2, GoodSetSlot
<1>6. CASE HandleRxNack(f)
  <2>1. PICK i \in Slots :
          SetSlotAndReclaim(i, [Cleared(receivers[i]) EXCEPT !.due_at_ms = now])
    BY <1>6 DEF HandleRxNack
  <2> DEFINE sl == [Cleared(receivers[i]) EXCEPT !.due_at_ms = now]
  <2>2. sl \in Slot /\ sl.waiting_ack = 0
    BY <1>1, ClearedTyped DEF Slot
  <2> QED
    BY <2>1, <2>2, GoodSetSlot
<1> QED
  BY <1>3, <1>4, <1>5, <1>6 DEF HandleRx

\* A stutter, or a step that leaves the log and the slots alone
LEMMA GoodStutter ==
  ASSUME SenderInv, UNCHANGED <<log, receivers>>
  PROVE  StepGood
  BY DEF SenderInv, StepGood, InflightRetained, KeepsNeededOps, KeepsRetainedOps

LEMMA SenderStep ==
  ASSUME MaxOpId <= UINT32_MAX, SenderInv, [Next]_vars
  PROVE  SenderInv' /\ KeepsNeededOps /\ KeepsRetainedOps
<1>1. TypeInv'
  BY TypeStep DEF SenderInv
<1>2. StepGood
  <2>1. CASE UNCHANGED vars
    BY <2>1, GoodStutter DEF vars
  <2>2. CASE \E rid \in ReceiverIds, n \in Progress :
               RegisterReceiver(rid, n) \/ SetReceiverProgress(rid, n)
    BY <1>1, <2>2, GoodRegistry
  <2>3. CASE \E rid \in ReceiverIds : UnregisterReceiver(rid)
    BY <1>1, <2>3, GoodRegistry
  <2>4. CASE \/ \E op_type \in OpTypes, v \in Values : Enqueue(op_type, v)
             \/ \E removes, adds \in Lists : EnqueueLists(removes, adds)
    BY <2>4, GoodEnqueue
  <2>5. CASE \E f \in RxFrames : HandleRequest(f) \/ HandleRx(f)
    BY <1>1, <2>5, GoodRx, SenderAssumption
  <2>6. CASE Poll
    BY <2>6, GoodPoll
  <2>7. CASE Tick
    BY <2>7, GoodStutter DEF Tick
  <2> QED
    BY <2>1, <2>2, <2>3, <2>4, <2>5, <2>6, <2>7 DEF Next
<1> QED
  BY <1>1, <1>2 DEF StepGood, SenderInv

\* SenderInv is an invariant.
LEMMA SenderInvariant == ASSUME MaxOpId <= UINT32_MAX PROVE Spec => []SenderInv
<1>1. SenderInv /\ [Next]_vars => SenderInv'
  BY SenderStep
<1> QED
  BY SenderInit, <1>1, PTL DEF Spec

\* As long as the op_ids do not wrap, the ring holds exactly the retained
\* operations in their places, for rings of every size and any calls in any
\* order.
THEOREM RingCorrect ==
  ASSUME MaxOpId <= UINT32_MAX PROVE Spec => []RingConsistent
<1>1. SenderInv => RingConsistent
  BY DEF SenderInv, GoodLog, Ring, RingConsistent
<1> QED
  BY SenderInvariant, <1>1, PTL

\* As long as the op_ids do not wrap, what is in flight to any number of
\* receivers is the operation after the last acknowledged one, and retained.
THEOREM InflightCorrect ==
  ASSUME MaxOpId <= UINT32_MAX PROVE Spec => []InflightRetained
<1>1. SenderInv => InflightRetained
  BY DEF SenderInv
<1> QED
  BY SenderInvariant, <1>1, PTL

\* As long as the op_ids do not wrap, no step drops the operation a receiver
\* that stays registered needs next.
THEOREM NeededOpsNeverDropped ==
  ASSUME MaxOpId <= UINT32_MAX PROVE Spec => NeededOpsKept
<1>1. SenderInv /\ [Next]_vars => [KeepsNeededOps]_vars
  BY SenderStep
<1>2. Spec => [][KeepsNeededOps]_vars
  BY SenderInvariant, <1>1, PTL DEF Spec
<1> QED
  BY <1>2 DEF NeededOpsKept, KeepsNeededOps

\* As long as the op_ids do not wrap, no step changes an operation that stays
\* retained.
THEOREM RetainedOpsNeverChange ==
  ASSUME MaxOpId <= UINT32_MAX PROVE Spec => RetainedOpsImmutable
<1>1. SenderInv /\ [Next]_vars => [KeepsRetainedOps]_vars
  BY SenderStep
<1>2. Spec => [][KeepsRetainedOps]_vars
  BY SenderInvariant, <1>1, PTL DEF Spec
<1> QED
  BY <1>2 DEF RetainedOpsImmutable, KeepsRetainedOps

-----------------------------------------------------------------------------
(* The slots. *)

Clean(sl) ==
  sl.waiting_ack = 0 => sl.inflight_op_id = 0 /\ sl.retries = 0

\* What every call but a registration may do to a slot: a is it before, b after
Keeps(a, b) ==
  /\ b.active = 1 => a.active = 1 /\ b.receiver_id = a.receiver_id
  /\ Clean(a) => Clean(b)

SlotsKept == \A i \in Slots : Keeps(receivers[i], receivers'[i])

RegistryInv == TypeInv /\ IdleSlotsClean /\ UniqueReceivers

-----------------------------------------------------------------------------
\* A slot that is kept on its own keeps the table.
LEMMA SetSlotKeeps ==
  ASSUME TypeInv, NEW i \in Slots, NEW sl, Keeps(receivers[i], sl),
         SetSlotAndReclaim(i, sl)
  PROVE  SlotsKept
BY DEF TypeInv, TypeOK, SetSlotAndReclaim, SlotsKept, Keeps

\* If every slot is kept the invariants are.
LEMMA KeptIsEnough ==
  ASSUME RegistryInv, TypeInv', SlotsKept
  PROVE  RegistryInv'
<1>1. IdleSlotsClean'
  BY DEF RegistryInv, IdleSlotsClean, SlotsKept, Keeps, Clean
<1>2. UniqueReceivers'
  BY DEF RegistryInv, UniqueReceivers, ActiveSlots, SlotsKept, Keeps
<1> QED
  BY <1>1, <1>2 DEF RegistryInv

-----------------------------------------------------------------------------
\* find_slot misses no active slot: if it finds none, none is there.
LEMMA FoundIfThere ==
  ASSUME TypeInv, NEW rid, NEW i \in Slots,
         receivers[i].active = 1, receivers[i].receiver_id = rid
  PROVE  Registered(rid)
<1> DEFINE T == {j \in Slots : /\ receivers[j].active = 1
                               /\ receivers[j].receiver_id = rid}
<1>1. T \subseteq Nat /\ T # {}
  BY SenderAssumption DEF Slots
<1>2. PICK j \in T : \A k \in T : j <= k
  BY <1>1, LeastElement
<1>3. FindSlot(rid, j)
  <2>1. j \in Slots /\ ReceiverCapacity \in Nat
    BY <1>2, SenderAssumption
  <2>2. ASSUME NEW k \in 0 .. j - 1 PROVE k \notin T
    BY <1>2, <2>1 DEF Slots
  <2>3. 0 .. j - 1 \subseteq Slots
    BY <2>1 DEF Slots
  <2> QED
    BY <1>2, <2>2, <2>3 DEF FindSlot
<1> QED
  BY <1>2, <1>3 DEF Registered

\* A registration takes a free slot for a receiver that has none, and the slot
\* is as clean as it was left.
LEMMA TakenSlot ==
  ASSUME RegistryInv, TypeInv', NEW rid, ~Registered(rid), NEW n, TakeSlot(rid, n)
  PROVE  RegistryInv'
<1>1. PICK i \in FreeSlots :
        receivers' = [receivers EXCEPT
          ![i] = [@ EXCEPT !.active = 1, !.receiver_id = rid,
                           !.last_acked_op_id = n, !.exhausted = 0]]
  BY DEF TakeSlot
<1>2. receivers \in [Slots -> Slot] /\ i \in Slots
  BY <1>1 DEF RegistryInv, TypeInv, TypeOK, FreeSlots
<1>3. /\ \A j \in Slots \ {i} : receivers'[j] = receivers[j]
      /\ receivers'[i].receiver_id = rid
      /\ receivers'[i].waiting_ack = receivers[i].waiting_ack
      /\ receivers'[i].inflight_op_id = receivers[i].inflight_op_id
      /\ receivers'[i].retries = receivers[i].retries
  BY <1>1, <1>2 DEF Slot
<1>4. \A j \in Slots \ {i} :
        receivers'[j].active = 1 => receivers'[j].receiver_id # rid
  BY <1>3, FoundIfThere DEF RegistryInv
<1>5. UniqueReceivers'
  BY <1>3, <1>4 DEF RegistryInv, UniqueReceivers, ActiveSlots
<1>6. IdleSlotsClean'
  BY <1>2, <1>3 DEF RegistryInv, IdleSlotsClean
<1> QED
  BY <1>5, <1>6 DEF RegistryInv

LEMMA RegistryKeeps ==
  ASSUME RegistryInv, TypeInv', NEW rid \in ReceiverIds,
         \/ \E n \in Progress :
              RegisterReceiver(rid, n) \/ SetReceiverProgress(rid, n)
         \/ UnregisterReceiver(rid)
  PROVE  RegistryInv'
<1>1. TypeInv /\ receivers \in [Slots -> Slot]
  BY DEF RegistryInv, TypeInv, TypeOK
<1>2. ASSUME NEW n \in Progress, RegisterReceiver(rid, n) PROVE RegistryInv'
  <2>1. CASE UNCHANGED receivers
    BY <2>1, KeptIsEnough DEF SlotsKept, Keeps
  <2>2. CASE ~Registered(rid) /\ TakeSlot(rid, n)
    BY <2>2, TakenSlot
  <2> QED
    BY <1>2, <2>1, <2>2 DEF RegisterReceiver
<1>3. ASSUME NEW n \in Progress, SetReceiverProgress(rid, n) PROVE RegistryInv'
  <2>1. PICK i \in Slots :
          SetSlotAndReclaim(i, [Cleared(receivers[i]) EXCEPT !.last_acked_op_id = n])
    BY <1>3 DEF SetReceiverProgress
  <2>2. Keeps(receivers[i], [Cleared(receivers[i]) EXCEPT !.last_acked_op_id = n])
    BY <1>1, <2>1 DEF Keeps, Clean, Cleared, Slot
  <2> QED
    BY <1>1, <2>1, <2>2, SetSlotKeeps, KeptIsEnough
<1>4. ASSUME UnregisterReceiver(rid) PROVE RegistryInv'
  <2>1. PICK i \in Slots :
          SetSlotAndReclaim(i, [Cleared(receivers[i]) EXCEPT !.active = 0])
    BY <1>4 DEF UnregisterReceiver
  <2>2. Keeps(receivers[i], [Cleared(receivers[i]) EXCEPT !.active = 0])
    BY <1>1, <2>1 DEF Keeps, Clean, Cleared, Slot
  <2> QED
    BY <1>1, <2>1, <2>2, SetSlotKeeps, KeptIsEnough
<1> QED
  BY <1>2, <1>3, <1>4

-----------------------------------------------------------------------------
\* The slots that poll_tx passes over keep or lose their attempt as a whole.
LEMMA PassedOverKeeps ==
  ASSUME TypeInv, NEW k, NEW i \in Slots
  PROVE  Keeps(receivers[i], PassedOver(k)[i])
<1>1. receivers[i] \in Slot
  BY DEF TypeInv, TypeOK
<1>2. \/ PassedOver(k)[i] = receivers[i]
      \/ PassedOver(k)[i] = [Cleared(receivers[i]) EXCEPT !.exhausted = 1]
  BY PassedOverTyped DEF TypeInv, TypeOK
<1> QED
  BY <1>1, <1>2 DEF Keeps, Clean, Cleared, Slot

\* The slot that poll_tx served becomes sl.
LEMMA ServedKeeps ==
  ASSUME TypeInv, NEW k, NEW i \in Slots, NEW sl, Keeps(receivers[i], sl),
         receivers' = [PassedOver(k) EXCEPT ![i] = sl]
  PROVE  SlotsKept
<1>1. PassedOver(k) \in [Slots -> Slot]
  BY PassedOverTyped DEF TypeInv, TypeOK
<1> QED
  BY <1>1, PassedOverKeeps DEF SlotsKept

LEMMA PollKeeps == ASSUME TypeInv, Poll PROVE SlotsKept
<1>1. receivers \in [Slots -> Slot] /\ poll_cursor \in Nat
  BY DEF TypeInv, TypeOK
<1>2. CASE PollIdle
  BY <1>2, PassedOverKeeps DEF PollIdle, SlotsKept
<1>3. ASSUME NEW k \in Slots, PollSend(k) PROVE SlotsKept
  <2> DEFINE sl == receivers[Turn(k)]
             served == [sl EXCEPT !.inflight_op_id = Target(sl), !.waiting_ack = 1,
                          !.exhausted = 0,
                          !.retries = IF sl.waiting_ack = 1 THEN sl.retries + 1 ELSE 0,
                          !.due_at_ms = DeadlineAfter(now)]
  <2>1. Turn(k) \in Slots
    BY <1>1, TurnTyped
  <2>2. receivers' = [PassedOver(k) EXCEPT ![Turn(k)] = served]
    BY <1>3 DEF PollSend
  <2>3. Keeps(sl, served)
    BY <1>1, <2>1 DEF Keeps, Clean, Slot
  <2> QED
    BY <2>1, <2>2, <2>3, ServedKeeps
<1>4. ASSUME NEW k \in Slots, NEW fits \in BOOLEAN, PollFail(k, fits)
      PROVE  SlotsKept
  <2> DEFINE sl == receivers[Turn(k)]
             served == [sl EXCEPT !.retries = IF sl.waiting_ack = 1 THEN @ + 1 ELSE @]
  <2>1. Turn(k) \in Slots
    BY <1>1, TurnTyped
  <2>2. receivers' = [PassedOver(k) EXCEPT ![Turn(k)] = served]
    BY <1>4 DEF PollFail
  <2>3. Keeps(sl, served)
    BY <1>1, <2>1 DEF Keeps, Clean, Slot
  <2> QED
    BY <2>1, <2>2, <2>3, ServedKeeps
<1> QED
  BY <1>2, <1>3, <1>4 DEF Poll

LEMMA RxKeeps ==
  ASSUME TypeInv, NEW f, HandleRequest(f) \/ HandleRx(f)
  PROVE  SlotsKept
<1>1. receivers \in [Slots -> Slot]
  BY DEF TypeInv, TypeOK
<1>2. CASE HandleRequest(f)
  BY <1>2 DEF HandleRequest, SlotsKept, Keeps
<1>3. CASE HandleRxRequest(f)
  <2>1. PICK i \in Slots : receivers' = [receivers EXCEPT ![i].due_at_ms = now]
    BY <1>3 DEF HandleRxRequest
  <2> QED
    BY <1>1, <2>1 DEF SlotsKept, Keeps, Clean, Slot
<1>4. CASE HandleRxAck(f)
  <2>1. PICK i \in Slots :
          SetSlotAndReclaim(i, [Cleared(receivers[i]) EXCEPT
                                  !.last_acked_op_id = f.op_id])
    BY <1>4 DEF HandleRxAck
  <2>2. Keeps(receivers[i], [Cleared(receivers[i]) EXCEPT
                               !.last_acked_op_id = f.op_id])
    BY <1>1, <2>1 DEF Keeps, Clean, Cleared, Slot
  <2> QED
    BY <2>1, <2>2, SetSlotKeeps
<1>5. CASE HandleRxNack(f)
  <2>1. PICK i \in Slots :
          SetSlotAndReclaim(i, [Cleared(receivers[i]) EXCEPT !.due_at_ms = now])
    BY <1>5 DEF HandleRxNack
  <2>2. Keeps(receivers[i], [Cleared(receivers[i]) EXCEPT !.due_at_ms = now])
    BY <1>1, <2>1 DEF Keeps, Clean, Cleared, Slot
  <2> QED
    BY <2>1, <2>2, SetSlotKeeps
<1> QED
  BY <1>2, <1>3, <1>4, <1>5 DEF HandleRx

-----------------------------------------------------------------------------
(* Whose a slot is, and how far its receiver got. *)

\* b serves the receiver a served, and it has acknowledged as much
SameProgress(a, b) ==
  /\ b.active = a.active /\ b.receiver_id = a.receiver_id
  /\ b.last_acked_op_id = a.last_acked_op_id

ProgressSame == \A i \in Slots : SameProgress(receivers[i], receivers'[i])

LEMMA SetSlotSame ==
  ASSUME TypeInv, NEW i \in Slots, NEW sl, SameProgress(receivers[i], sl),
         receivers' = [receivers EXCEPT ![i] = sl]
  PROVE  ProgressSame
BY DEF TypeInv, TypeOK, ProgressSame, SameProgress

\* The scheduler decides when something is sent, and nothing else.
LEMMA PollSame == ASSUME TypeInv, Poll PROVE ProgressSame
<1>1. receivers \in [Slots -> Slot] /\ poll_cursor \in Nat
  BY DEF TypeInv, TypeOK
<1>2. ASSUME NEW k PROVE /\ PassedOver(k) \in [Slots -> Slot]
                         /\ \A i \in Slots :
                              SameProgress(receivers[i], PassedOver(k)[i])
  <2>1. ASSUME NEW i \in Slots PROVE SameProgress(receivers[i], PassedOver(k)[i])
    <3>1. receivers[i] \in Slot
      BY <1>1
    <3>2. \/ PassedOver(k)[i] = receivers[i]
          \/ PassedOver(k)[i] = [Cleared(receivers[i]) EXCEPT !.exhausted = 1]
      BY <1>1, PassedOverTyped
    <3> QED
      BY <3>1, <3>2 DEF SameProgress, Cleared, Slot
  <2> QED
    BY <1>1, <2>1, PassedOverTyped
<1>3. ASSUME NEW k \in Slots, NEW sl, SameProgress(receivers[Turn(k)], sl),
             receivers' = [PassedOver(k) EXCEPT ![Turn(k)] = sl]
      PROVE  ProgressSame
  BY <1>1, <1>2, <1>3, TurnTyped DEF ProgressSame
<1>4. CASE PollIdle
  BY <1>2, <1>4 DEF PollIdle, ProgressSame
<1>5. ASSUME NEW k \in Slots, PollSend(k) PROVE ProgressSame
  <2> DEFINE sl == receivers[Turn(k)]
             served == [sl EXCEPT !.inflight_op_id = Target(sl), !.waiting_ack = 1,
                          !.exhausted = 0,
                          !.retries = IF sl.waiting_ack = 1 THEN sl.retries + 1 ELSE 0,
                          !.due_at_ms = DeadlineAfter(now)]
  <2>1. receivers' = [PassedOver(k) EXCEPT ![Turn(k)] = served]
    BY <1>5 DEF PollSend
  <2>2. SameProgress(sl, served)
    BY <1>1, TurnTyped DEF SameProgress, Slot
  <2> QED
    BY <1>3, <2>1, <2>2
<1>6. ASSUME NEW k \in Slots, NEW fits \in BOOLEAN, PollFail(k, fits)
      PROVE  ProgressSame
  <2> DEFINE sl == receivers[Turn(k)]
             served == [sl EXCEPT !.retries = IF sl.waiting_ack = 1 THEN @ + 1 ELSE @]
  <2>1. receivers' = [PassedOver(k) EXCEPT ![Turn(k)] = served]
    BY <1>6 DEF PollFail
  <2>2. SameProgress(sl, served)
    BY <1>1, TurnTyped DEF SameProgress, Slot
  <2> QED
    BY <1>3, <2>1, <2>2
<1> QED
  BY <1>4, <1>5, <1>6 DEF Poll

\* Of the frames only an ACK counts as progress.
LEMMA RxSame ==
  ASSUME TypeInv, NEW f, HandleRequest(f) \/ HandleRxRequest(f) \/ HandleRxNack(f)
  PROVE  ProgressSame
<1>1. receivers \in [Slots -> Slot]
  BY DEF TypeInv, TypeOK
<1>2. CASE HandleRequest(f)
  BY <1>2 DEF HandleRequest, ProgressSame, SameProgress
<1>3. CASE HandleRxRequest(f)
  <2>1. PICK i \in Slots : receivers' = [receivers EXCEPT ![i].due_at_ms = now]
    BY <1>3 DEF HandleRxRequest
  <2>2. SameProgress(receivers[i], [receivers[i] EXCEPT !.due_at_ms = now])
    BY <1>1, <2>1 DEF SameProgress, Slot
  <2> QED
    BY <2>1, <2>2, SetSlotSame
<1>4. CASE HandleRxNack(f)
  <2>1. PICK i \in Slots :
          SetSlotAndReclaim(i, [Cleared(receivers[i]) EXCEPT !.due_at_ms = now])
    BY <1>4 DEF HandleRxNack
  <2>2. SameProgress(receivers[i], [Cleared(receivers[i]) EXCEPT !.due_at_ms = now])
    BY <1>1, <2>1 DEF SameProgress, Cleared, Slot
  <2> QED
    BY <2>1, <2>2, SetSlotSame DEF SetSlotAndReclaim
<1> QED
  BY <1>2, <1>3, <1>4

\* An ACK that is taken acknowledges the next operation of its receiver.
LEMMA AckAdvances ==
  ASSUME SenderInv, NEW f, HandleRxAck(f)
  PROVE  \E i \in Slots :
           /\ TakesAck(f, i)
           /\ receivers[i].active = 1 /\ receivers[i].receiver_id = f.sender_id
           /\ f.op_id = receivers[i].last_acked_op_id + 1
           /\ receivers'[i].active = 1 /\ receivers'[i].receiver_id = f.sender_id
           /\ receivers'[i].last_acked_op_id = f.op_id
           /\ \A j \in Slots \ {i} : receivers'[j] = receivers[j]
<1>1. PICK i \in Slots :
        /\ TakesAck(f, i)
        /\ SetSlotAndReclaim(i, [Cleared(receivers[i]) EXCEPT
                                    !.last_acked_op_id = f.op_id])
  BY DEF HandleRxAck
<1> DEFINE sl == [Cleared(receivers[i]) EXCEPT !.last_acked_op_id = f.op_id]
<1>2. receivers \in [Slots -> Slot]
  BY DEF SenderInv, TypeInv, TypeOK
<1>3. /\ receivers[i].active = 1 /\ receivers[i].receiver_id = f.sender_id
      /\ receivers[i].waiting_ack = 1 /\ f.op_id = receivers[i].inflight_op_id
  BY <1>1 DEF TakesAck, Accepts, FindSlot, Awaits
<1>4. f.op_id = receivers[i].last_acked_op_id + 1
  BY <1>3 DEF SenderInv, InflightRetained
<1>5. /\ sl.active = 1 /\ sl.receiver_id = f.sender_id
      /\ sl.last_acked_op_id = f.op_id
  BY <1>2, <1>3 DEF Cleared, Slot
<1>6. /\ receivers'[i] = sl
      /\ \A j \in Slots \ {i} : receivers'[j] = receivers[j]
  BY <1>1, <1>2 DEF SetSlotAndReclaim
<1> HIDE DEF sl
<1> QED
  BY <1>1, <1>3, <1>4, <1>5, <1>6

\* A registration leaves every slot as it is, or gives one that is free to a
\* receiver that has none.
LEMMA RegisterTakes ==
  ASSUME TypeInv, NEW rid \in ReceiverIds, NEW n, RegisterReceiver(rid, n)
  PROVE  \/ UNCHANGED receivers
         \/ \E i \in Slots :
              /\ \A j \in Slots :
                   ~(receivers[j].active = 1 /\ receivers[j].receiver_id = rid)
              /\ receivers[i].active # 1
              /\ receivers'[i].active = 1 /\ receivers'[i].receiver_id = rid
              /\ receivers'[i].last_acked_op_id = n
              /\ \A j \in Slots \ {i} : receivers'[j] = receivers[j]
<1>1. CASE UNCHANGED receivers
  BY <1>1
<1>2. CASE ~Registered(rid) /\ TakeSlot(rid, n)
  <2>1. PICK i \in FreeSlots :
          receivers' = [receivers EXCEPT
            ![i] = [@ EXCEPT !.active = 1, !.receiver_id = rid,
                             !.last_acked_op_id = n, !.exhausted = 0]]
    BY <1>2 DEF TakeSlot
  <2>2. /\ receivers \in [Slots -> Slot]
        /\ i \in Slots /\ receivers[i].active # 1
    BY <2>1 DEF TypeInv, TypeOK, FreeSlots, ActiveSlots
  <2>3. /\ receivers'[i].active = 1 /\ receivers'[i].receiver_id = rid
        /\ receivers'[i].last_acked_op_id = n
        /\ \A j \in Slots \ {i} : receivers'[j] = receivers[j]
    BY <2>1, <2>2 DEF Slot
  <2>4. \A j \in Slots :
          ~(receivers[j].active = 1 /\ receivers[j].receiver_id = rid)
    BY <1>2, FoundIfThere
  <2> QED
    BY <2>2, <2>3, <2>4
<1> QED
  BY <1>1, <1>2 DEF RegisterReceiver

-----------------------------------------------------------------------------
LEMMA RegistryInit == Init => RegistryInv
<1> SUFFICES ASSUME Init PROVE RegistryInv
  OBVIOUS
<1>1. TypeInv
  BY TypeInit
<1>2. \A i \in Slots : receivers[i] = ZeroSlot
  BY DEF Init
<1>3. IdleSlotsClean /\ UniqueReceivers
  BY <1>2 DEF IdleSlotsClean, UniqueReceivers, ActiveSlots, ZeroSlot
<1> QED
  BY <1>1, <1>3 DEF RegistryInv

LEMMA RegistryStep == ASSUME RegistryInv, [Next]_vars PROVE RegistryInv'
<1>1. TypeInv /\ TypeInv'
  BY TypeStep DEF RegistryInv
<1>2. CASE UNCHANGED receivers
  BY <1>1, <1>2, KeptIsEnough DEF SlotsKept, Keeps
<1>3. CASE \E rid \in ReceiverIds, n \in Progress :
             RegisterReceiver(rid, n) \/ SetReceiverProgress(rid, n)
  BY <1>1, <1>3, RegistryKeeps
<1>4. CASE \E rid \in ReceiverIds : UnregisterReceiver(rid)
  BY <1>1, <1>4, RegistryKeeps
<1>5. CASE \/ \E op_type \in OpTypes, v \in Values : Enqueue(op_type, v)
           \/ \E removes, adds \in Lists : EnqueueLists(removes, adds)
  BY <1>2, <1>5 DEF Enqueue, EnqueueLists
<1>6. CASE \E f \in RxFrames : HandleRequest(f) \/ HandleRx(f)
  BY <1>1, <1>6, RxKeeps, KeptIsEnough
<1>7. CASE Poll
  BY <1>1, <1>7, PollKeeps, KeptIsEnough
<1>8. CASE Tick \/ UNCHANGED vars
  BY <1>2, <1>8 DEF Tick, vars
<1> QED
  BY <1>3, <1>4, <1>5, <1>6, <1>7, <1>8 DEF Next

LEMMA RegistryInvariant == Spec => []RegistryInv
<1>1. RegistryInv /\ [Next]_vars => RegistryInv'
  BY RegistryStep
<1> QED
  BY RegistryInit, <1>1, PTL DEF Spec

\* register, unregister and register again, with answers, timeouts and
\* retransmissions in between, never give one receiver two slots: find_slot sees
\* every active slot, and nothing else changes whose a slot is.
THEOREM ReceiversAreUnique == Spec => []UniqueReceivers
<1>1. RegistryInv => UniqueReceivers
  BY DEF RegistryInv
<1> QED
  BY RegistryInvariant, <1>1, PTL

\* A slot that waits for nothing has nothing in flight and no retries counted,
\* so its next receiver and its next operation start afresh.
THEOREM IdleSlotsAreClean == Spec => []IdleSlotsClean
<1>1. RegistryInv => IdleSlotsClean
  BY DEF RegistryInv
<1> QED
  BY RegistryInvariant, <1>1, PTL
=============================================================================
