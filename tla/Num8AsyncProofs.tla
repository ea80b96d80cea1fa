-------------------------- MODULE Num8AsyncProofs ---------------------------
(***************************************************************************)
(* Theorems about the asynchronous line: any number of receivers, logs of  *)
(* any size, any stream, and a transport that loses, repeats, delays and   *)
(* reorders as it likes.                                                   *)
(*                                                                         *)
(* The theorems of Num8SenderProofs about the sender and of                *)
(* Num8ReceiverProofs about the receivers are used here through INSTANCE.  *)
(* Types (LineTyped) and each receiver's progress need no assumption.      *)
(* What relates the two ends is the inductive invariant LineInv, as long   *)
(* as the op_ids do not wrap and the application stores before it answers: *)
(* the sender's part says that the log holds the stream from what the      *)
(* slowest receiver needs, the line's part that an ACK, wherever it still  *)
(* is, names an operation its receiver has stored, and a DATA frame one no *)
(* further than its receiver's next.  SenderDoes splits every step by what *)
(* it means to the sender, ReceiversDo by what it means to the receivers.  *)
(***************************************************************************)
EXTENDS Num8Async, TLAPS

SP == INSTANCE Num8SenderProofs WITH
        RxFrames <- {}, Progress <- OpIds, Values <- Nat
RP == INSTANCE Num8ReceiverProofs WITH
        ExpectedSender <- SenderId, DataFrames <- {}

-----------------------------------------------------------------------------
(* Num8Async drives the sender of one instance, the theorems are about that *)
(* of another.  They are the same operator for operator.                    *)

LEMMA SenderState ==
  /\ S!Slots = SP!Slots
  /\ S!Init <=> SP!Init
  /\ S!TypeOK <=> SP!TypeOK
  /\ \A rs : S!ActiveSlots(rs) = SP!ActiveSlots(rs)
  /\ \A lg, rs : S!Reclaim(lg, rs) = SP!Reclaim(lg, rs)
  /\ \A lg, n : S!Retained(lg, n) <=> SP!Retained(lg, n)
  /\ \A r, i : S!FindSlot(r, i) <=> SP!FindSlot(r, i)
<1>1. S!Slots = SP!Slots
  BY DEF S!Slots, SP!Slots
<1>2. S!Init <=> SP!Init
  BY DEF S!Init, SP!Init, S!ZeroOp, SP!ZeroOp, S!Slots, SP!Slots, S!ZeroSlot,
    SP!ZeroSlot
<1>3. S!TypeOK <=> SP!TypeOK
  BY DEF S!TypeOK, SP!TypeOK, S!Log, SP!Log, S!Slots, SP!Slots, S!Slot,
    SP!Slot, S!OpIds, SP!OpIds, S!Op, SP!Op, S!Flag, SP!Flag, S!OpTypes,
    SP!OpTypes
<1>4. \A rs : S!ActiveSlots(rs) = SP!ActiveSlots(rs)
  BY DEF S!ActiveSlots, SP!ActiveSlots, S!Slots, SP!Slots
<1>5. \A lg, rs : S!Reclaim(lg, rs) = SP!Reclaim(lg, rs)
  BY DEF S!Reclaim, SP!Reclaim, S!ActiveFloor, SP!ActiveFloor, S!Min, SP!Min,
    S!Inc32, SP!Inc32, S!Needs, SP!Needs, S!ActiveSlots, SP!ActiveSlots,
    S!Slots, SP!Slots
<1>6. \A lg, n : S!Retained(lg, n) <=> SP!Retained(lg, n)
  BY DEF S!Retained, SP!Retained
<1>7. \A r, i : S!FindSlot(r, i) <=> SP!FindSlot(r, i)
  BY DEF S!FindSlot, SP!FindSlot
<1> QED
  BY <1>1, <1>2, <1>3, <1>4, <1>5, <1>6, <1>7

LEMMA SenderCalls ==
  /\ \A r, n : S!RegisterReceiver(r, n) <=> SP!RegisterReceiver(r, n)
  /\ \A r, n : S!SetReceiverProgress(r, n) <=> SP!SetReceiverProgress(r, n)
  /\ \A t, v : S!Enqueue(t, v) <=> SP!Enqueue(t, v)
  /\ \A k : S!PollSend(k) <=> SP!PollSend(k)
  /\ \A k, fits : S!PollFail(k, fits) <=> SP!PollFail(k, fits)
  /\ S!PollIdle <=> SP!PollIdle
  /\ \A f : S!HandleRequest(f) <=> SP!HandleRequest(f)
  /\ \A f : S!HandleRx(f) <=> SP!HandleRx(f)
  /\ S!Tick <=> SP!Tick
<1>1. \A r, n : S!RegisterReceiver(r, n) <=> SP!RegisterReceiver(r, n)
  BY DEF S!RegisterReceiver, SP!RegisterReceiver, S!Reclaim, SP!Reclaim,
    S!Registered, SP!Registered, S!FreeSlots, SP!FreeSlots, S!TakeSlot,
    SP!TakeSlot, S!ActiveFloor, SP!ActiveFloor, S!Min, SP!Min, S!Slots,
    SP!Slots, S!FindSlot, SP!FindSlot, S!ActiveSlots, SP!ActiveSlots, S!Inc32,
    SP!Inc32, S!Needs, SP!Needs
<1>2. \A r, n : S!SetReceiverProgress(r, n) <=> SP!SetReceiverProgress(r, n)
  BY DEF S!SetReceiverProgress, SP!SetReceiverProgress, S!Slots, SP!Slots,
    S!FindSlot, SP!FindSlot, S!SetSlotAndReclaim, SP!SetSlotAndReclaim,
    S!Cleared, SP!Cleared, S!Reclaim, SP!Reclaim, S!ActiveFloor,
    SP!ActiveFloor, S!Min, SP!Min, S!Inc32, SP!Inc32, S!Needs, SP!Needs,
    S!ActiveSlots, SP!ActiveSlots
<1>3. \A t, v : S!Enqueue(t, v) <=> SP!Enqueue(t, v)
  <2>1. \A lg, t, v : S!AppendOp(lg, t, v) = SP!AppendOp(lg, t, v)
    BY DEF S!AppendOp, SP!AppendOp, S!Inc32, SP!Inc32
  <2> QED
    BY <2>1, SenderState DEF S!Enqueue, SP!Enqueue, S!EnqueueOp, SP!EnqueueOp
<1>4. \A k : S!PollSend(k) <=> SP!PollSend(k)
  BY DEF S!PollSend, SP!PollSend, S!Turn, SP!Turn, S!FirstToServe,
    SP!FirstToServe, S!Reclaim, SP!Reclaim, S!PollFrames, SP!PollFrames,
    S!PassedOver, SP!PassedOver, S!Target, SP!Target, S!DeadlineAfter,
    SP!DeadlineAfter, S!Serves, SP!Serves, S!ActiveFloor, SP!ActiveFloor,
    S!Min, SP!Min, S!CanEncode, SP!CanEncode, S!EncodeData, SP!EncodeData,
    S!OpAt, SP!OpAt, S!Slots, SP!Slots, S!GivesUp, SP!GivesUp, S!Cleared,
    SP!Cleared, S!Needs, SP!Needs, S!Due, SP!Due, S!Inc32, SP!Inc32,
    S!ActiveSlots, SP!ActiveSlots, S!Retained, SP!Retained, S!Written,
    SP!Written, S!Decodable, SP!Decodable, S!ValidHeader, SP!ValidHeader,
    S!OpTypes, SP!OpTypes
<1>5. \A k, fits : S!PollFail(k, fits) <=> SP!PollFail(k, fits)
  BY DEF S!PollFail, SP!PollFail, S!Turn, SP!Turn, S!Reclaim, SP!Reclaim,
    S!FirstToServe, SP!FirstToServe, S!PollFrames, SP!PollFrames,
    S!PassedOver, SP!PassedOver, S!CanEncode, SP!CanEncode, S!ActiveFloor,
    SP!ActiveFloor, S!Min, SP!Min, S!Serves, SP!Serves, S!EncodeData,
    SP!EncodeData, S!OpAt, SP!OpAt, S!Target, SP!Target, S!Slots, SP!Slots,
    S!GivesUp, SP!GivesUp, S!Cleared, SP!Cleared, S!Retained, SP!Retained,
    S!Inc32, SP!Inc32, S!Needs, SP!Needs, S!ActiveSlots, SP!ActiveSlots,
    S!Due, SP!Due, S!Written, SP!Written, S!Decodable, SP!Decodable,
    S!ValidHeader, SP!ValidHeader, S!OpTypes, SP!OpTypes
<1>6. S!PollIdle <=> SP!PollIdle
  BY DEF S!PollIdle, SP!PollIdle, S!Slots, SP!Slots, S!Serves, SP!Serves,
    S!Reclaim, SP!Reclaim, S!PassedOver, SP!PassedOver, S!Due, SP!Due,
    S!Needs, SP!Needs, S!ActiveFloor, SP!ActiveFloor, S!Min, SP!Min,
    S!GivesUp, SP!GivesUp, S!Turn, SP!Turn, S!Cleared, SP!Cleared, S!Inc32,
    SP!Inc32, S!ActiveSlots, SP!ActiveSlots
<1>7. \A f : S!HandleRequest(f) <=> SP!HandleRequest(f)
  BY DEF S!HandleRequest, SP!HandleRequest, S!AsksReclaimed, SP!AsksReclaimed,
    S!Slots, SP!Slots, S!Accepts, SP!Accepts, S!Decodable, SP!Decodable,
    S!FindSlot, SP!FindSlot, S!ValidHeader, SP!ValidHeader, S!OpTypes,
    SP!OpTypes
<1>8. \A f : S!HandleRx(f) <=> SP!HandleRx(f)
  BY DEF S!HandleRx, SP!HandleRx, S!HandleRxRequest, SP!HandleRxRequest,
    S!HandleRxAck, SP!HandleRxAck, S!HandleRxNack, SP!HandleRxNack, S!Slots,
    SP!Slots, S!TakesRequest, SP!TakesRequest, S!TakesAck, SP!TakesAck,
    S!SetSlotAndReclaim, SP!SetSlotAndReclaim, S!Cleared, SP!Cleared,
    S!TakesNack, SP!TakesNack, S!Accepts, SP!Accepts, S!InWindow, SP!InWindow,
    S!Needs, SP!Needs, S!Awaits, SP!Awaits, S!Reclaim, SP!Reclaim,
    S!Decodable, SP!Decodable, S!FindSlot, SP!FindSlot, S!Inc32, SP!Inc32,
    S!ActiveFloor, SP!ActiveFloor, S!Min, SP!Min, S!ValidHeader,
    SP!ValidHeader, S!OpTypes, SP!OpTypes, S!ActiveSlots, SP!ActiveSlots
<1>9. S!Tick <=> SP!Tick
  BY DEF S!Tick, SP!Tick
<1> QED
  BY <1>1, <1>2, <1>3, <1>4, <1>5, <1>6, <1>7, <1>8, <1>9

LEMMA SenderFrames ==
  /\ \A k, fits : S!PollFrames(k, fits) = SP!PollFrames(k, fits)
  /\ \A f, fits : S!RequestNack(f, fits) = SP!RequestNack(f, fits)
  /\ S!BeaconFrames = SP!BeaconFrames
<1>1. \A k, fits : S!PollFrames(k, fits) = SP!PollFrames(k, fits)
  BY DEF S!PollFrames, SP!PollFrames, S!Reclaim, SP!Reclaim, S!Turn, SP!Turn,
    S!CanEncode, SP!CanEncode, S!EncodeData, SP!EncodeData, S!OpAt, SP!OpAt,
    S!Target, SP!Target, S!ActiveFloor, SP!ActiveFloor, S!Min, SP!Min,
    S!Retained, SP!Retained, S!Written, SP!Written, S!Needs, SP!Needs,
    S!Inc32, SP!Inc32, S!ActiveSlots, SP!ActiveSlots, S!Decodable,
    SP!Decodable, S!Slots, SP!Slots, S!ValidHeader, SP!ValidHeader, S!OpTypes,
    SP!OpTypes
<1>2. \A f, fits : S!RequestNack(f, fits) = SP!RequestNack(f, fits)
  BY DEF S!RequestNack, SP!RequestNack, S!EncodeNack, SP!EncodeNack,
    S!Written, SP!Written, S!Decodable, SP!Decodable, S!ValidHeader,
    SP!ValidHeader, S!OpTypes, SP!OpTypes
<1>3. S!BeaconFrames = SP!BeaconFrames
  BY DEF S!BeaconFrames, SP!BeaconFrames, S!EncodeBeacon, SP!EncodeBeacon,
    S!Written, SP!Written, S!Decodable, SP!Decodable, S!ValidHeader,
    SP!ValidHeader, S!OpTypes, SP!OpTypes
<1> QED
  BY <1>1, <1>2, <1>3

\* What the theorems about the sender assume is assumed here, too.
LEMMA SenderAssumed ==
  /\ OpCapacity \in Nat /\ ReceiverCapacity \in Nat
  /\ AckTimeout \in Nat /\ MaxRetries \in Nat
  /\ UINT16_MAX \in Nat \ {0} /\ UINT64_MAX \in Nat /\ MaxOpId \in Nat
  /\ NoId \notin ReceiverIds
  /\ OpIds \subseteq SP!OpIds /\ Nat \subseteq Nat
  /\ \A f \in {} : f.op_id \in SP!OpIds
BY AsyncAssumption DEF OpIds, SP!OpIds

-----------------------------------------------------------------------------
(* Types, of the frames on their way too.  No assumption is needed on the   *)
(* width of the op_ids, nor on the order in which an application stores and *)
(* answers.                                                                 *)

Endpoints == ReceiverIds \cup {SenderId}

\* Frames say who sent them, except a NACK, which both ends send
FrameTyped(f) ==
  /\ Decodable(f) /\ f.op_id \in OpIds
  /\ f.type = "DATA" => f.value \in Nat
  /\ f.type \in {"DATA", "BEACON"} => f.sender_id = SenderId
  /\ f.type \in {"REQUEST", "ACK"} => f.sender_id \in ReceiverIds

AnswerTyped(r, f) ==
  /\ Decodable(f) /\ f.op_id \in OpIds
  /\ f.type \in {"ACK", "NACK"}
  /\ f.sender_id = r /\ f.receiver_id = SenderId

ReceiversTyped ==
  /\ last_applied_op_id \in [ReceiverIds -> OpIds]
  /\ dataset \in [ReceiverIds -> SUBSET (0..MAX_VALUE)]
  /\ stored \in [ReceiverIds -> OpIds]

AnswersTyped ==
  /\ outbox = [r \in ReceiverIds |-> outbox[r]]
  /\ \A r \in ReceiverIds : \A f \in outbox[r] : AnswerTyped(r, f)

NetTyped == \A p \in net : p[1] \in Endpoints /\ FrameTyped(p[2])

LineTyped ==
  /\ SP!RegistryInv /\ ReceiversTyped /\ AnswersTyped /\ NetTyped
  /\ faults \in 0..MaxFaults

LEMMA SenderFields ==
  ASSUME SP!TypeInv
  PROVE  /\ receivers \in [SP!Slots -> SP!Slot] /\ log \in SP!Log
         /\ SP!TypedLog(log) /\ log.latest_op_id \in Nat /\ poll_cursor \in Nat
BY DEF SP!TypeInv, SP!TypeOK, SP!TypedLog, SP!Log, SP!OpIds

LEMMA LineInit == Init => LineTyped
<1> SUFFICES ASSUME Init PROVE LineTyped
  OBVIOUS
<1>1. SP!RegistryInv
  BY SenderState, SP!RegistryInit, SenderAssumed, WidthAssumption DEF Init
<1>2. R!Init /\ stored = [r \in ReceiverIds |-> 0]
      /\ outbox = [r \in ReceiverIds |-> {}] /\ net = {} /\ faults = 0
  BY DEF Init
<1>3. ReceiversTyped
  BY <1>2, WidthAssumption DEF ReceiversTyped, R!Init, OpIds
<1>4. AnswersTyped /\ NetTyped
  BY <1>2 DEF AnswersTyped, NetTyped
<1> QED
  BY <1>1, <1>2, <1>3, <1>4, AsyncAssumption DEF LineTyped

\* Every step of the line is a step of the sender as Num8Sender has them, with
\* a frame from the air if it takes one, or leaves the sender alone.
LEMMA SenderMoves ==
  ASSUME LineTyped, [Next]_vars
  PROVE  \/ [SP!Next]_(SP!vars)
         \/ \E p \in net : SP!HandleRequest(p[2]) \/ SP!HandleRx(p[2])
<1>1. CASE UNCHANGED senderVars
  BY <1>1 DEF senderVars, SP!vars
<1>2. ASSUME NEW r \in ReceiverIds, Register(r) PROVE SP!Next
  <2>1. SP!RegisterReceiver(r, stored[r]) /\ stored[r] \in OpIds
    BY <1>2, SenderCalls DEF Register, LineTyped, ReceiversTyped
  <2> QED
    BY <2>1 DEF SP!Next
<1>3. ASSUME NEW r \in ReceiverIds, Revive(r) PROVE SP!Next
  <2>1. PICK i \in SP!Slots : SP!SetReceiverProgress(r, receivers[i].last_acked_op_id)
    BY <1>3, SenderCalls, SenderState DEF Revive
  <2>2. receivers[i] \in SP!Slot
    BY SenderFields DEF LineTyped, SP!RegistryInv
  <2>3. receivers[i].last_acked_op_id \in OpIds
    BY <2>2 DEF SP!Slot, SP!OpIds, OpIds
  <2> QED
    BY <2>1, <2>3 DEF SP!Next
<1>4. ASSUME Enqueue PROVE SP!Next
  <2> DEFINE op == Content[log.latest_op_id + 1]
  <2>1. log.latest_op_id < MaxOpId /\ SP!Enqueue(op.op_type, op.value)
    BY <1>4, SenderCalls DEF Enqueue
  <2>2. log.latest_op_id + 1 \in 1..MaxOpId
    BY <2>1, SenderFields, AsyncAssumption DEF LineTyped, SP!RegistryInv
  <2>3. op.op_type \in SP!OpTypes /\ op.value \in Nat
    BY <2>2, AsyncAssumption DEF OpTypes, SP!OpTypes
  <2> QED
    BY <2>1, <2>3 DEF SP!Next
<1>5. CASE PollSend \/ PollFail \/ PollIdle
  <2>1. SP!Poll
    BY <1>5, SenderCalls, SenderState DEF PollSend, PollFail, PollIdle, SP!Poll
  <2> QED
    BY <2>1 DEF SP!Next
<1>6. CASE Receives
  BY <1>1, <1>6, SenderCalls DEF Receives, SenderReceives
<1>7. CASE Tick
  BY <1>7, SenderCalls DEF Tick, SP!Next
<1>8. CASE Beacon \/ Lose \/ \E r \in ReceiverIds : ReceiverStep(r)
  BY <1>1, <1>8 DEF Beacon, Lose, ReceiverStep, Hears, ReceiverHears, ReceiverGets,
                    Store, Reply, Crash
<1>9. CASE UNCHANGED vars
  BY <1>1, <1>9 DEF vars
<1> QED
  BY <1>2, <1>3, <1>4, <1>5, <1>6, <1>7, <1>8, <1>9 DEF Next, SenderStep

LEMMA SenderTyped ==
  ASSUME LineTyped, [Next]_vars
  PROVE  SP!RegistryInv'
<1> USE SenderAssumed, WidthAssumption
<1>1. SP!RegistryInv /\ SP!TypeInv
  BY DEF LineTyped, SP!RegistryInv
<1>2. CASE [SP!Next]_(SP!vars)
  BY <1>1, <1>2, SP!RegistryStep
<1>3. ASSUME NEW p \in net, SP!HandleRequest(p[2]) \/ SP!HandleRx(p[2])
      PROVE  SP!RegistryInv'
  <2>1. p[2].op_id \in SP!OpIds
    BY DEF LineTyped, NetTyped, FrameTyped, OpIds, SP!OpIds
  <2>2. SP!TypeInv'
    BY <1>1, <1>3, <2>1, SP!TypeRx
  <2>3. SP!SlotsKept
    BY <1>1, <1>3, SP!RxKeeps
  <2> QED
    BY <1>1, <2>2, <2>3, SP!KeptIsEnough
<1> QED
  BY <1>2, <1>3, SenderMoves

-----------------------------------------------------------------------------
(* What the calls leave in the buffer. *)

\* poll_tx writes the operation that the slot's receiver needs, or waits for.
LEMMA DataWritten ==
  ASSUME SP!TypeInv, NEW k \in S!Slots, NEW f \in S!PollFrames(k, TRUE)
  PROVE  LET lg == SP!Reclaim(log, receivers)
             sl == receivers[SP!Turn(k)]
             op == SP!OpAt(lg, SP!Target(sl))
         IN  /\ SP!Turn(k) \in SP!Slots /\ SP!Target(sl) \in Nat
             /\ SP!Retained(lg, SP!Target(sl)) /\ op \in SP!Op
             /\ f = [type |-> "DATA", sender_id |-> SenderId,
                     receiver_id |-> sl.receiver_id, stream_id |-> StreamId,
                     op_id |-> op.op_id, op_type |-> op.op_type, value |-> op.value]
             /\ Decodable(f)
<1> USE SenderAssumed, WidthAssumption
<1> DEFINE lg == SP!Reclaim(log, receivers)
           sl == receivers[SP!Turn(k)]
           op == SP!OpAt(lg, SP!Target(sl))
           frame == [type |-> "DATA", sender_id |-> SenderId,
                     receiver_id |-> sl.receiver_id, stream_id |-> StreamId,
                     op_id |-> op.op_id, op_type |-> op.op_type, value |-> op.value]
<1>1. f \in SP!PollFrames(k, TRUE)
  BY SenderFrames
<1>2. SP!CanEncode(lg, sl) /\ f \in SP!EncodeData(TRUE, SenderId, sl.receiver_id, StreamId, op)
  BY <1>1 DEF SP!PollFrames
<1>3. f = frame /\ SP!Decodable(f)
  BY <1>2 DEF SP!EncodeData, SP!Written
<1>4. Decodable(f)
  BY <1>3 DEF Decodable, SP!Decodable, ValidHeader, SP!ValidHeader, OpTypes, SP!OpTypes
<1>5. k \in SP!Slots /\ SP!Turn(k) \in SP!Slots
  BY SenderState, SenderFields, SP!TurnTyped
<1>6. sl \in SP!Slot
  BY <1>5, SenderFields
<1>7. SP!Target(sl) \in Nat
  BY <1>6, SP!NeedsTyped DEF SP!Target, SP!Slot, SP!OpIds
<1>8. SP!Retained(lg, SP!Target(sl))
  BY <1>2 DEF SP!CanEncode
<1>9. SP!TypedLog(lg)
  BY SenderFields, SP!ReclaimTyped
<1>10. op \in SP!Op
  <2> HIDE DEF lg, sl
  <2> QED
    BY <1>7, <1>8, <1>9, SP!OpAtTyped
<1> QED
  BY <1>3, <1>4, <1>5, <1>7, <1>8, <1>10

\* A receiver applies the operation after its last, and only what was sent to it.
LEMMA AppliedFrame ==
  ASSUME ReceiversTyped, NEW r \in ReceiverIds, NEW f, FrameTyped(f), NEW ok, NEW room,
         R!Verdict(r, f, ok, room) = "APPLIED"
  PROVE  /\ f.type = "DATA" /\ f.receiver_id = r
         /\ f.op_id = last_applied_op_id[r] + 1
         /\ f.op_type \in OpTypes /\ f.value \in 0..MAX_VALUE
<1>1. /\ f.type = "DATA" /\ f.receiver_id = r /\ f.op_id = R!Expected(r)
  BY DEF R!Verdict, R!ForReceiver
<1>2. /\ last_applied_op_id[r] \in Nat /\ f.op_id # 0 /\ f.op_type \in OpTypes
      /\ f.value \in Nat /\ f.value <= MAX_VALUE
  BY <1>1 DEF ReceiversTyped, FrameTyped, Decodable, OpIds
<1> QED
  BY <1>1, <1>2, WidthAssumption DEF R!Expected, R!Inc32

\* A receiver answers the sender, and acknowledges what it has applied.
LEMMA AnswerWritten ==
  ASSUME ReceiversTyped, NEW r \in ReceiverIds, NEW f, FrameTyped(f), NEW ok, NEW room,
         NEW g \in R!Replies(r, f, ok, room)
  PROVE  /\ AnswerTyped(r, g)
         /\ g.type = "ACK" =>
              \/ g.op_id = last_applied_op_id[r]
              \/ R!Verdict(r, f, ok, room) = "APPLIED" /\ g.op_id = f.op_id
<1> DEFINE verdict == R!Verdict(r, f, ok, room)
<1>1. last_applied_op_id[r] \in OpIds /\ f.op_id \in OpIds /\ R!Expected(r) \in OpIds
  BY WidthAssumption DEF ReceiversTyped, FrameTyped, R!Expected, R!Inc32, OpIds
<1>2. \/ verdict = "DUPLICATE" /\ g \in R!Ack(r, f, room, last_applied_op_id[r])
      \/ verdict = "APPLIED" /\ g \in R!Ack(r, f, room, f.op_id)
      \/ verdict # "IGNORED" /\ g \in R!Nack(r, f, room, verdict)
  <2> HIDE DEF verdict
  <2>1. g \in CASE verdict \in {"IGNORED", "NO_ROOM"} -> {}
        [] verdict = "DUPLICATE" -> R!Ack(r, f, room, last_applied_op_id[r])
        [] verdict = "APPLIED" -> R!Ack(r, f, room, f.op_id)
        [] OTHER -> R!Nack(r, f, room, verdict)
    BY DEF R!Replies, verdict
  <2> QED
    BY <2>1
<1>3. verdict # "IGNORED" => f.sender_id = SenderId
  BY DEF R!Verdict, R!ForReceiver, FrameTyped
<1>4. ASSUME NEW n \in OpIds, g \in R!Ack(r, f, room, n), f.sender_id = SenderId
      PROVE  AnswerTyped(r, g) /\ g.type = "ACK" /\ g.op_id = n
  <2>1. /\ g = [type |-> "ACK", sender_id |-> r, receiver_id |-> SenderId,
                stream_id |-> StreamId, op_id |-> n]
        /\ R!Decodable(g)
    BY <1>4 DEF R!Ack, R!EncodeAck, R!Written
  <2> QED
    BY <2>1 DEF AnswerTyped, Decodable, R!Decodable, ValidHeader, R!ValidHeader,
                OpTypes, R!OpTypes
<1>5. ASSUME g \in R!Nack(r, f, room, verdict), f.sender_id = SenderId
      PROVE  AnswerTyped(r, g) /\ g.type = "NACK"
  <2> HIDE DEF verdict
  <2>1. /\ g = [type |-> "NACK", sender_id |-> r, receiver_id |-> SenderId,
                stream_id |-> StreamId, error_code |-> verdict,
                op_id |-> R!Expected(r)]
        /\ R!Decodable(g)
    BY <1>5 DEF R!Nack, R!EncodeNack, R!Written
  <2> QED
    BY <1>1, <2>1 DEF AnswerTyped, Decodable, R!Decodable, ValidHeader, R!ValidHeader,
                OpTypes, R!OpTypes
<1> HIDE DEF verdict
<1> QED
  BY <1>1, <1>2, <1>3, <1>4, <1>5 DEF verdict

-----------------------------------------------------------------------------
(* Type correctness, by what changes. *)

LEMMA FaultsTyped ==
  ASSUME faults \in 0..MaxFaults, Fault \/ NoFault
  PROVE  faults' \in 0..MaxFaults
BY AsyncAssumption DEF Fault, NoFault

\* What is on its way is one of the frames sent.
LEMMA Sent ==
  /\ \A r, frames : \A p \in To(r, frames) : p[1] = r /\ p[2] \in frames
  /\ \A frames : \A p \in UNION {To(f.receiver_id, {f}) : f \in frames} :
       p[1] = p[2].receiver_id /\ p[2] \in frames
  /\ \A frames : \A p \in Broadcast(frames) : p[1] \in ReceiverIds /\ p[2] \in frames
<1>1. ASSUME NEW r, NEW frames, NEW p \in To(r, frames)
      PROVE  p[1] = r /\ p[2] \in frames
  BY DEF To
<1>2. ASSUME NEW frames, NEW p \in UNION {To(f.receiver_id, {f}) : f \in frames}
      PROVE  p[1] = p[2].receiver_id /\ p[2] \in frames
  <2>1. PICK f \in frames : p \in To(f.receiver_id, {f})
    OBVIOUS
  <2> QED
    BY <2>1, <1>1
<1>3. ASSUME NEW frames, NEW p \in Broadcast(frames)
      PROVE  p[1] \in ReceiverIds /\ p[2] \in frames
  BY DEF Broadcast
<1> QED
  BY <1>1, <1>2, <1>3

\* Frames that are delivered or lost do no harm to the others.
LEMMA NetGrows ==
  ASSUME NetTyped, NEW new, net' \subseteq net \cup new,
         \A p \in new : p[1] \in Endpoints /\ FrameTyped(p[2])
  PROVE  NetTyped'
BY DEF NetTyped

LEMMA NetStep ==
  ASSUME LineTyped, [Next]_vars
  PROVE  NetTyped'
<1>1. /\ NetTyped /\ SP!TypeInv /\ ReceiversTyped /\ AnswersTyped
  BY DEF LineTyped, SP!RegistryInv
<1>2. ASSUME net' \subseteq net PROVE NetTyped'
  BY <1>1, <1>2 DEF NetTyped
<1>3. ASSUME PollSend PROVE NetTyped'
  <2>1. PICK k \in S!Slots :
          net' = net \cup UNION {To(f.receiver_id, {f}) : f \in S!PollFrames(k, TRUE)}
    BY <1>3 DEF PollSend
  <2>2. ASSUME NEW f \in S!PollFrames(k, TRUE)
        PROVE  f.receiver_id \in Endpoints /\ FrameTyped(f)
    <3> DEFINE sl == receivers[SP!Turn(k)]
               op == SP!OpAt(SP!Reclaim(log, receivers), SP!Target(sl))
    <3>1. /\ sl \in SP!Slot /\ op \in SP!Op
          /\ f = [type |-> "DATA", sender_id |-> SenderId,
                  receiver_id |-> sl.receiver_id, stream_id |-> StreamId,
                  op_id |-> op.op_id, op_type |-> op.op_type, value |-> op.value]
          /\ Decodable(f)
      BY <1>1, SenderFields, DataWritten
    <3> HIDE DEF sl, op
    <3>2. f.receiver_id # NoId /\ f.receiver_id \in ReceiverIds \cup {NoId}
      BY <3>1 DEF Decodable, ValidHeader, SP!Slot
    <3> QED
      BY <3>1, <3>2 DEF FrameTyped, Endpoints, SP!Op, SP!OpIds, OpIds
  <2> DEFINE new == UNION {To(f.receiver_id, {f}) : f \in S!PollFrames(k, TRUE)}
  <2>3. \A p \in new : p[1] \in Endpoints /\ FrameTyped(p[2])
    BY <2>2, Sent
  <2>4. net' \subseteq net \cup new
    BY <2>1
  <2> HIDE DEF new
  <2> QED
    BY <1>1, <2>3, <2>4, NetGrows
<1>4. ASSUME Beacon PROVE NetTyped'
  <2>1. ASSUME NEW f \in S!BeaconFrames PROVE FrameTyped(f)
    <3>1. /\ f = [type |-> "BEACON", sender_id |-> SenderId, receiver_id |-> NoId,
                  stream_id |-> StreamId, op_id |-> log.latest_op_id]
          /\ S!Decodable(f)
      BY DEF S!BeaconFrames, S!EncodeBeacon, S!Written
    <3>2. log.latest_op_id \in OpIds
      BY <1>1, SenderFields DEF SP!Log, SP!OpIds, OpIds
    <3> QED
      BY <3>1, <3>2 DEF FrameTyped, Decodable, S!Decodable, ValidHeader, S!ValidHeader,
                        OpTypes, S!OpTypes
  <2> DEFINE new == Broadcast(S!BeaconFrames)
  <2>2. \A p \in new : p[1] \in Endpoints /\ FrameTyped(p[2])
    BY <2>1, Sent DEF Endpoints
  <2>3. net' \subseteq net \cup new
    BY <1>4 DEF Beacon
  <2> HIDE DEF new
  <2> QED
    BY <1>1, <2>2, <2>3, NetGrows
<1>5. ASSUME NEW p \in net, SenderReceives(p) PROVE NetTyped'
  <2>1. CASE Exchange(p, {})
    BY <1>2, <2>1 DEF Exchange
  <2>2. CASE /\ S!HandleRequest(p[2])
             /\ Exchange(p, To(p[2].sender_id, S!RequestNack(p[2], TRUE)))
    <3>1. p[2].sender_id \in ReceiverIds
      BY <1>1, <2>2 DEF S!HandleRequest, S!AsksReclaimed, S!Accepts, NetTyped, FrameTyped
    <3>2. ASSUME NEW f \in S!RequestNack(p[2], TRUE) PROVE FrameTyped(f)
      <4>1. /\ f = [type |-> "NACK", sender_id |-> SenderId,
                    receiver_id |-> p[2].sender_id, stream_id |-> StreamId,
                    error_code |-> "HISTORY_UNAVAILABLE",
                    op_id |-> log.oldest_retained_op_id]
            /\ S!Decodable(f)
        BY DEF S!RequestNack, S!EncodeNack, S!Written
      <4>2. log.oldest_retained_op_id \in OpIds
        BY <1>1, SenderFields DEF SP!Log, SP!OpIds, OpIds
      <4> QED
        BY <4>1, <4>2 DEF FrameTyped, Decodable, S!Decodable, ValidHeader, S!ValidHeader,
                          OpTypes, S!OpTypes
    <3> DEFINE new == To(p[2].sender_id, S!RequestNack(p[2], TRUE))
    <3>3. \A q \in new : q[1] \in Endpoints /\ FrameTyped(q[2])
      <4>1. ASSUME NEW q \in new
            PROVE  q[1] = p[2].sender_id /\ q[2] \in S!RequestNack(p[2], TRUE)
        BY Sent
      <4> QED
        BY <3>1, <3>2, <4>1 DEF Endpoints
    <3>4. net' \subseteq net \cup new
      BY <2>2 DEF Exchange
    <3> HIDE DEF new
    <3> QED
      BY <1>1, <3>3, <3>4, NetGrows
  <2> QED
    BY <1>5, <2>1, <2>2 DEF SenderReceives
<1>6. ASSUME NEW r \in ReceiverIds, NEW p \in net, ReceiverHears(r, p) PROVE NetTyped'
  <2>1. p[2].sender_id = SenderId
    BY <1>1, <1>6 DEF ReceiverHears, NetTyped, FrameTyped
  <2>2. ASSUME NEW f \in R!RequestFrames(r, p[2]) PROVE FrameTyped(f)
    <3>1. /\ f = [type |-> "REQUEST", sender_id |-> r, receiver_id |-> p[2].sender_id,
                  stream_id |-> StreamId, op_id |-> R!Expected(r)]
          /\ R!Decodable(f)
      BY DEF R!RequestFrames, R!EncodeRequest, R!Written
    <3>2. R!Expected(r) \in OpIds
      BY <1>1, WidthAssumption DEF ReceiversTyped, R!Expected, R!Inc32, OpIds
    <3> QED
      BY <3>1, <3>2 DEF FrameTyped, Decodable, R!Decodable, ValidHeader, R!ValidHeader,
                        OpTypes, R!OpTypes
  <2> DEFINE new == To(p[2].sender_id, R!RequestFrames(r, p[2]))
  <2>3. \A q \in new : q[1] \in Endpoints /\ FrameTyped(q[2])
    BY <2>1, <2>2, Sent DEF Endpoints
  <2>4. net' \subseteq net \cup new
    BY <1>6 DEF ReceiverHears, Exchange
  <2> HIDE DEF new
  <2> QED
    BY <1>1, <2>3, <2>4, NetGrows
<1>7. ASSUME NEW r \in ReceiverIds, Reply(r) PROVE NetTyped'
  <2>1. \A f \in outbox[r] : f.receiver_id \in Endpoints /\ FrameTyped(f)
    BY <1>1 DEF AnswersTyped, AnswerTyped, FrameTyped, Endpoints
  <2> DEFINE new == UNION {To(f.receiver_id, {f}) : f \in outbox[r]}
  <2>2. \A p \in new : p[1] \in Endpoints /\ FrameTyped(p[2])
    BY <2>1, Sent
  <2>3. net' \subseteq net \cup new
    BY <1>7 DEF Reply
  <2> HIDE DEF new
  <2> QED
    BY <1>1, <2>2, <2>3, NetGrows
<1>8. ASSUME NEW r \in ReceiverIds, NEW p \in net, NEW ok, NEW room,
             ReceiverGets(r, p, ok, room)
      PROVE  NetTyped'
  BY <1>2, <1>8 DEF ReceiverGets, Exchange
<1>9. CASE Lose \/ UNCHANGED net
  BY <1>2, <1>9 DEF Lose
<1> QED
  BY <1>3, <1>4, <1>5, <1>6, <1>7, <1>8, <1>9
  DEF Next, SenderStep, ReceiverStep, Receives, Hears, Register, Revive, Enqueue,
      PollFail, PollIdle, Tick, Store, Crash, vars

\* A receiver changes only by what it gets, when its application stores, and
\* when it restarts.
LEMMA ReceiversStep ==
  ASSUME LineTyped, [Next]_vars
  PROVE  ReceiversTyped' /\ AnswersTyped'
<1>1. NetTyped /\ ReceiversTyped /\ AnswersTyped
  BY DEF LineTyped
<1>2. ASSUME NEW r \in ReceiverIds, NEW p \in net, NEW ok, NEW room,
             ReceiverGets(r, p, ok, room)
      PROVE  ReceiversTyped' /\ AnswersTyped'
  <2> DEFINE f == p[2]
  <2>1. FrameTyped(f)
    BY <1>1 DEF NetTyped
  <2>2. /\ R!HandleData(r, f, ok, room)
        /\ outbox' = [outbox EXCEPT ![r] = R!Replies(r, f, ok, room)]
        /\ UNCHANGED stored
    BY <1>2 DEF ReceiverGets
  <2>3. ReceiversTyped'
    <3>1. CASE R!Verdict(r, f, ok, room) = "APPLIED"
      <4>1. f.op_id \in OpIds /\ f.value \in 0..MAX_VALUE
        BY <1>1, <2>1, <3>1, AppliedFrame DEF FrameTyped
      <4>2. /\ last_applied_op_id' = [last_applied_op_id EXCEPT ![r] = f.op_id]
            /\ dataset' = [dataset EXCEPT ![r] = R!ApplyNum8(f, @)]
        BY <2>2, <3>1 DEF R!HandleData
      <4>3. R!ApplyNum8(f, dataset[r]) \in SUBSET (0..MAX_VALUE)
        BY <1>1, <4>1 DEF R!ApplyNum8, ReceiversTyped
      <4> QED
        BY <1>1, <2>2, <4>1, <4>2, <4>3 DEF ReceiversTyped
    <3>2. CASE R!Verdict(r, f, ok, room) # "APPLIED"
      BY <1>1, <2>2, <3>2 DEF R!HandleData, R!vars, ReceiversTyped
    <3> QED
      BY <3>1, <3>2
  <2>4. \A g \in R!Replies(r, f, ok, room) : AnswerTyped(r, g)
    BY <1>1, <2>1, AnswerWritten
  <2>5. AnswersTyped'
    BY <1>1, <2>2, <2>4 DEF AnswersTyped
  <2> QED
    BY <2>3, <2>5
<1>3. ASSUME NEW r \in ReceiverIds, Store(r) \/ Crash(r) \/ Reply(r)
      PROVE  ReceiversTyped' /\ AnswersTyped'
  BY <1>1, <1>3 DEF Store, Crash, Reply, receiverVars, ReceiversTyped, AnswersTyped
<1>4. CASE UNCHANGED <<receiverVars, stored, outbox>>
  BY <1>1, <1>4 DEF receiverVars, ReceiversTyped, AnswersTyped
<1> QED
  BY <1>2, <1>3, <1>4
  DEF Next, SenderStep, ReceiverStep, Receives, SenderReceives, Hears, ReceiverHears,
      Register, Revive, Enqueue, PollSend, PollFail, PollIdle, Beacon, Tick, Lose, vars

LEMMA LineStep == ASSUME LineTyped, [Next]_vars PROVE LineTyped'
<1>1. faults' \in 0..MaxFaults
  <2>1. CASE UNCHANGED vars
    BY <2>1 DEF vars, LineTyped
  <2>2. CASE Next
    BY <2>2, FaultsTyped
    DEF Next, SenderStep, ReceiverStep, Receives, SenderReceives, Hears, ReceiverHears,
        ReceiverGets, Register, Revive, Enqueue, PollSend, PollFail, PollIdle, Beacon,
        Tick, Lose, Store, Reply, Crash, LineTyped
  <2> QED
    BY <2>1, <2>2
<1> QED
  BY <1>1, SenderTyped, NetStep, ReceiversStep DEF LineTyped

LEMMA LineInvariant == Spec => []LineTyped
<1>1. LineTyped /\ [Next]_vars => LineTyped'
  BY LineStep
<1> QED
  BY LineInit, <1>1, PTL DEF Spec

\* Whatever is lost, repeated or late, and whoever crashes: every variable of the
\* line stays in its type, and whatever is on its way can be decoded.
THEOREM LineTypeCorrect == Spec => []TypeOK
<1>1. LineTyped => TypeOK
  <2> SUFFICES ASSUME LineTyped PROVE TypeOK
    OBVIOUS
  <2>1. S!TypeOK
    BY SenderState DEF LineTyped, SP!RegistryInv, SP!TypeInv
  <2>2. R!TypeOK
    BY DEF LineTyped, ReceiversTyped, R!TypeOK, OpIds, R!OpIds
  <2> QED
    BY <2>1, <2>2
    DEF LineTyped, ReceiversTyped, AnswersTyped, AnswerTyped, NetTyped, FrameTyped,
        Endpoints, TypeOK
<1> QED
  BY LineInvariant, <1>1, PTL

-----------------------------------------------------------------------------
(* Each receiver's progress. *)

\* The action under ProgressKept
ProgressStep == \A r \in ReceiverIds : P(r)!Next \/ UNCHANGED P(r)!vars

LEMMA ProgressMoves == ASSUME LineTyped, [Next]_vars PROVE ProgressStep
<1>1. NetTyped /\ ReceiversTyped
  BY DEF LineTyped
<1>2. SUFFICES ASSUME NEW r \in ReceiverIds PROVE P(r)!Next \/ UNCHANGED P(r)!vars
  BY DEF ProgressStep
<1>3. CASE UNCHANGED <<receiverVars, stored>>
  BY <1>3 DEF receiverVars, P!vars
<1>4. ASSUME NEW q \in ReceiverIds, NEW p \in net, NEW ok, NEW room,
             ReceiverGets(q, p, ok, room)
      PROVE  P(r)!Next \/ UNCHANGED P(r)!vars
  <2>1. R!HandleData(q, p[2], ok, room) /\ UNCHANGED stored
    BY <1>4 DEF ReceiverGets
  <2>2. CASE R!Verdict(q, p[2], ok, room) = "APPLIED"
    <3>1. p[2].op_id = last_applied_op_id[q] + 1
      BY <1>1, <2>2, AppliedFrame DEF NetTyped
    <3>2. last_applied_op_id' = [last_applied_op_id EXCEPT ![q] = last_applied_op_id[q] + 1]
      BY <2>1, <2>2, <3>1 DEF R!HandleData
    <3> QED
      BY <1>1, <2>1, <3>2 DEF ReceiversTyped, P!Next, P!Apply, P!vars
  <2>3. CASE R!Verdict(q, p[2], ok, room) # "APPLIED"
    BY <2>1, <2>3 DEF R!HandleData, R!vars, P!vars
  <2> QED
    BY <2>2, <2>3
<1>5. ASSUME NEW q \in ReceiverIds, Store(q)
      PROVE  P(r)!Next \/ UNCHANGED P(r)!vars
  BY <1>1, <1>5 DEF Store, receiverVars, ReceiversTyped, P!Next, P!Store, P!vars
<1>6. ASSUME NEW q \in ReceiverIds, Crash(q)
      PROVE  P(r)!Next \/ UNCHANGED P(r)!vars
  BY <1>1, <1>6 DEF Crash, ReceiversTyped, P!Next, P!Crash, P!vars
<1> QED
  BY <1>3, <1>4, <1>5, <1>6
  DEF Next, SenderStep, ReceiverStep, Receives, SenderReceives, Hears, ReceiverHears,
      Register, Revive, Enqueue, PollSend, PollFail, PollIdle, Beacon, Tick, Lose,
      Reply, vars

\* Every receiver keeps the promise of Num8Progress, whatever the transport and
\* the other receivers do: it advances by one operation at a time, and falls back
\* by a restart only, to what was stored.
THEOREM ProgressImplemented == Spec => ProgressKept
<1>1. Init => \A r \in ReceiverIds : P(r)!Init
  BY DEF Init, R!Init, P!Init
<1>2. LineTyped /\ [Next]_vars => [ProgressStep]_vars
  BY ProgressMoves
<1> QED
  BY <1>1, <1>2, LineInvariant, PTL DEF Spec, ProgressKept, ProgressStep

-----------------------------------------------------------------------------
(* Who takes part, and how much of the stream each has acknowledged, read   *)
(* off the sender's slots.                                                  *)

ServedBy(rs, r, i) == rs[i].active = 1 /\ rs[i].receiver_id = r

Table(rs) ==
  /\ rs \in [SP!Slots -> SP!Slot]
  /\ \A i, j \in SP!ActiveSlots(rs) : rs[i].receiver_id = rs[j].receiver_id => i = j

JoinedIn(rs) == {rs[i].receiver_id : i \in SP!ActiveSlots(rs)}

AckedIn(rs) ==
  [r \in ReceiverIds |->
     IF \E i \in SP!Slots : ServedBy(rs, r, i)
     THEN rs[CHOOSE i \in SP!Slots : ServedBy(rs, r, i)].last_acked_op_id
     ELSE 0]

Joined == JoinedIn(receivers)
Acked == AckedIn(receivers)

LEMMA TableFacts ==
  ASSUME NEW rs, Table(rs)
  PROVE  /\ AckedIn(rs) \in [ReceiverIds -> Nat]
         /\ \A r : r \in JoinedIn(rs) <=> \E i \in SP!Slots : ServedBy(rs, r, i)
         /\ \A r \in ReceiverIds, i \in SP!Slots :
              ServedBy(rs, r, i) => AckedIn(rs)[r] = rs[i].last_acked_op_id
         /\ \A r \in ReceiverIds : r \notin JoinedIn(rs) => AckedIn(rs)[r] = 0
<1>1. \A r : r \in JoinedIn(rs) <=> \E i \in SP!Slots : ServedBy(rs, r, i)
  BY DEF JoinedIn, SP!ActiveSlots, ServedBy
<1>2. ASSUME NEW r \in ReceiverIds, NEW i \in SP!Slots, ServedBy(rs, r, i)
      PROVE  AckedIn(rs)[r] = rs[i].last_acked_op_id /\ AckedIn(rs)[r] \in Nat
  <2> DEFINE c == CHOOSE j \in SP!Slots : ServedBy(rs, r, j)
  <2>1. c \in SP!Slots /\ ServedBy(rs, r, c)
    BY <1>2
  <2>2. c = i
    <3> HIDE DEF c
    <3> QED
      BY <1>2, <2>1 DEF Table, SP!ActiveSlots, ServedBy
  <2>3. AckedIn(rs)[r] = rs[c].last_acked_op_id
    BY <1>2 DEF AckedIn
  <2>4. rs[i] \in SP!Slot
    BY DEF Table
  <2> HIDE DEF c
  <2> QED
    BY <2>2, <2>3, <2>4 DEF SP!Slot, SP!OpIds
<1>3. ASSUME NEW r \in ReceiverIds, r \notin JoinedIn(rs)
      PROVE  AckedIn(rs)[r] = 0
  BY <1>1, <1>3 DEF AckedIn
<1>4. \A r \in ReceiverIds : AckedIn(rs)[r] \in Nat
  BY <1>1, <1>2, <1>3
<1>5. AckedIn(rs) = [r \in ReceiverIds |-> AckedIn(rs)[r]]
  BY DEF AckedIn
<1> HIDE DEF AckedIn
<1>6. AckedIn(rs) \in [ReceiverIds -> Nat]
  BY <1>4, <1>5
<1> QED
  BY <1>1, <1>2, <1>3, <1>6

\* Two functions on the receivers that agree everywhere are one.
LEMMA SameFunction ==
  ASSUME NEW f \in [ReceiverIds -> Nat], NEW g \in [ReceiverIds -> Nat],
         \A r \in ReceiverIds : f[r] = g[r]
  PROVE  f = g
OBVIOUS

\* The scheduler changes neither.
LEMMA TableSame ==
  ASSUME NEW a, NEW b, Table(a), Table(b),
         \A i \in SP!Slots : SP!SameProgress(a[i], b[i])
  PROVE  JoinedIn(b) = JoinedIn(a) /\ AckedIn(b) = AckedIn(a)
<1>1. \A r : \A i \in SP!Slots : ServedBy(a, r, i) <=> ServedBy(b, r, i)
  BY DEF ServedBy, SP!SameProgress
<1>2. JoinedIn(b) = JoinedIn(a)
  BY <1>1, TableFacts
<1>3. \A r \in ReceiverIds : AckedIn(b)[r] = AckedIn(a)[r]
  <2>1. ASSUME NEW r \in ReceiverIds, r \in JoinedIn(a)
        PROVE  AckedIn(b)[r] = AckedIn(a)[r]
    <3>1. PICK i \in SP!Slots : ServedBy(a, r, i)
      BY <2>1, TableFacts
    <3>2. AckedIn(a)[r] = a[i].last_acked_op_id /\ AckedIn(b)[r] = b[i].last_acked_op_id
      BY <1>1, <3>1, TableFacts
    <3> QED
      BY <3>2 DEF SP!SameProgress
  <2> QED
    BY <1>2, <2>1, TableFacts
<1> QED
  BY <1>2, <1>3, TableFacts, SameFunction

\* One slot serves r afterwards, and no other changed.
LEMMA TableSet ==
  ASSUME NEW a, NEW b, Table(a), Table(b), NEW r \in ReceiverIds,
         NEW i \in SP!Slots, ServedBy(b, r, i),
         ServedBy(a, r, i) \/ a[i].active # 1,
         \A j \in SP!Slots \ {i} : b[j] = a[j]
  PROVE  /\ JoinedIn(b) = JoinedIn(a) \cup {r}
         /\ AckedIn(b) = [AckedIn(a) EXCEPT ![r] = b[i].last_acked_op_id]
<1>1. ASSUME NEW q, q # r
      PROVE  \A j \in SP!Slots : ServedBy(b, q, j) <=> ServedBy(a, q, j)
  BY <1>1 DEF ServedBy
<1>2. JoinedIn(b) = JoinedIn(a) \cup {r}
  <2>1. ASSUME NEW q PROVE q \in JoinedIn(b) <=> q \in JoinedIn(a) \/ q = r
    BY <1>1, TableFacts
  <2> QED
    BY <2>1
<1>3. AckedIn(b)[r] = b[i].last_acked_op_id
  BY TableFacts
<1>4. ASSUME NEW q \in ReceiverIds, q # r PROVE AckedIn(b)[q] = AckedIn(a)[q]
  <2>1. CASE q \in JoinedIn(a)
    <3>1. PICK j \in SP!Slots : ServedBy(a, q, j)
      BY <2>1, TableFacts
    <3>2. ServedBy(b, q, j) /\ j # i
      BY <1>1, <1>4, <3>1 DEF ServedBy
    <3> QED
      BY <3>1, <3>2, TableFacts
  <2>2. CASE q \notin JoinedIn(a)
    BY <1>2, <1>4, <2>2, TableFacts
  <2> QED
    BY <2>1, <2>2
<1>5. /\ AckedIn(a) \in [ReceiverIds -> Nat] /\ AckedIn(b) \in [ReceiverIds -> Nat]
  BY TableFacts
<1>6. [AckedIn(a) EXCEPT ![r] = b[i].last_acked_op_id] \in [ReceiverIds -> Nat]
  BY <1>3, <1>5
<1>7. \A q \in ReceiverIds :
        AckedIn(b)[q] = [AckedIn(a) EXCEPT ![r] = b[i].last_acked_op_id][q]
  BY <1>3, <1>4, <1>5
<1> QED
  BY <1>2, <1>5, <1>6, <1>7, SameFunction

-----------------------------------------------------------------------------
(* The stream in the log. *)

StreamOp(n) ==
  [op_id |-> n, op_type |-> Content[n].op_type, value |-> Content[n].value]

\* What the log retains is the stream
Streams(lg) ==
  \A n \in OpIds : SP!Retained(lg, n) => SP!OpAt(lg, n) = StreamOp(n)

LEMMA ReclaimKeeps ==
  ASSUME MaxOpId <= UINT32_MAX, NEW lg, SP!GoodLog(lg),
         NEW rs \in [SP!Slots -> SP!Slot], Streams(lg), SP!Behind(lg, rs)
  PROVE  LET new == SP!Reclaim(lg, rs)
         IN  /\ SP!GoodLog(new) /\ Streams(new) /\ SP!Behind(new, rs)
             /\ new.latest_op_id = lg.latest_op_id
<1> USE SenderAssumed, WidthAssumption
<1> DEFINE new == SP!Reclaim(lg, rs)
<1>1. SP!Succeeds(lg, new, rs) /\ new.latest_op_id = lg.latest_op_id
  BY SP!ReclaimSucceeds
<1>2. SP!Behind(new, rs)
  BY SP!ReclaimBehind DEF SP!GoodLog
<1> HIDE DEF new
<1>3. ASSUME NEW n \in OpIds, SP!Retained(new, n) PROVE SP!OpAt(new, n) = StreamOp(n)
  <2>1. /\ SP!GoodLog(new) /\ n \in Nat /\ n \in SP!OpIds
        /\ lg.oldest_retained_op_id <= new.oldest_retained_op_id
    BY <1>1 DEF SP!Succeeds, OpIds, SP!OpIds
  <2>2. new.oldest_retained_op_id <= n /\ n <= lg.latest_op_id
    BY <1>1, <1>3, <2>1, SP!RetainedWindow
  <2>3. lg.oldest_retained_op_id \in Nat /\ new.oldest_retained_op_id \in Nat
    BY <2>1, SP!GoodLogTyped
  <2>4. SP!Retained(lg, n)
    BY <2>1, <2>2, <2>3, SP!RetainedWindow
  <2> QED
    BY <1>1, <1>3, <2>1, <2>4 DEF Streams, SP!Succeeds
<1> QED
  BY <1>1, <1>2, <1>3 DEF Streams, SP!Succeeds, new

LEMMA AppendKeeps ==
  ASSUME MaxOpId <= UINT32_MAX, NEW lg, SP!GoodLog(lg),
         NEW rs \in [SP!Slots -> SP!Slot], Streams(lg), SP!Behind(lg, rs),
         lg.op_count < OpCapacity, lg.latest_op_id < MaxOpId
  PROVE  LET id == lg.latest_op_id + 1
             new == SP!AppendOp(lg, Content[id].op_type, Content[id].value)
         IN  /\ SP!GoodLog(new) /\ Streams(new) /\ SP!Behind(new, rs)
             /\ new.latest_op_id = id
<1> USE SenderAssumed, WidthAssumption
<1> DEFINE id == lg.latest_op_id + 1
           new == SP!AppendOp(lg, Content[id].op_type, Content[id].value)
<1>1. lg.latest_op_id \in Nat /\ id \in 1..MaxOpId /\ id \in Nat
  BY SP!GoodLogTyped
<1>2. Content[id].op_type \in SP!OpTypes /\ Content[id].value \in Nat
  BY <1>1, AsyncAssumption DEF OpTypes, SP!OpTypes
<1>3. /\ SP!Succeeds(lg, new, rs) /\ new.latest_op_id = id
      /\ new.oldest_retained_op_id = lg.oldest_retained_op_id
      /\ SP!OpAt(new, id) = StreamOp(id)
  BY <1>2, SP!AppendSucceeds DEF StreamOp
<1> HIDE DEF new
<1>4. ASSUME NEW n \in OpIds, SP!Retained(new, n) PROVE SP!OpAt(new, n) = StreamOp(n)
  <2>1. SP!GoodLog(new) /\ n \in Nat /\ n \in SP!OpIds
    BY <1>3 DEF SP!Succeeds, OpIds, SP!OpIds
  <2>2. lg.oldest_retained_op_id <= n /\ n <= id
    BY <1>3, <1>4, <2>1, SP!RetainedWindow
  <2>3. CASE n = id
    BY <1>3, <2>3
  <2>4. CASE n # id
    <3>1. n <= lg.latest_op_id
      BY <1>1, <2>1, <2>2, <2>4
    <3>2. SP!Retained(lg, n)
      BY <2>1, <2>2, <3>1, SP!RetainedWindow
    <3> QED
      BY <1>3, <1>4, <2>1, <3>2 DEF Streams, SP!Succeeds
  <2> QED
    BY <2>3, <2>4
<1>5. SP!Behind(new, rs)
  BY <1>3 DEF SP!Behind
<1> QED
  BY <1>3, <1>4, <1>5 DEF Streams, SP!Succeeds, new

-----------------------------------------------------------------------------
(* The sender's part: as long as the op_ids do not wrap, the log holds the  *)
(* stream from what the slowest receiver needs.                             *)

SenderKept ==
  /\ SP!SenderInv
  /\ Joined \subseteq ReceiverIds
  /\ SP!Behind(log, receivers)
  /\ Streams(log)

\* The log is left alone or reclaimed, before or after slots changed
LogKept ==
  \/ UNCHANGED log
  \/ log' = SP!Reclaim(log, receivers)
  \/ log' = SP!Reclaim(log, receivers')

\* Who takes part and what is acknowledged does not change
Quietly == SP!ProgressSame /\ LogKept

LEMMA SenderInvKept ==
  ASSUME MaxOpId <= UINT32_MAX, LineTyped, SP!SenderInv, [Next]_vars
  PROVE  SP!SenderInv'
<1> USE SenderAssumed, WidthAssumption
<1>1. CASE [SP!Next]_(SP!vars)
  BY <1>1, SP!SenderStep
<1>2. ASSUME NEW p \in net, SP!HandleRequest(p[2]) \/ SP!HandleRx(p[2])
      PROVE  SP!SenderInv'
  <2>1. p[2].op_id \in SP!OpIds
    BY DEF LineTyped, NetTyped, FrameTyped, OpIds, SP!OpIds
  <2>2. SP!TypeInv'
    BY SenderTyped DEF SP!RegistryInv
  <2>3. SP!StepGood
    BY <1>2, <2>1, <2>2, SP!GoodRx
  <2> QED
    BY <2>2, <2>3 DEF SP!StepGood, SP!SenderInv
<1> QED
  BY <1>1, <1>2, SenderMoves

\* What a step can mean to the sender.
LEMMA SenderDoes ==
  ASSUME LineTyped, [Next]_vars
  PROVE  \/ Quietly
         \/ \E r \in ReceiverIds : Register(r)
         \/ Enqueue
         \/ \E p \in net : SenderReceives(p) /\ SP!HandleRxAck(p[2])
<1> USE SenderAssumed, WidthAssumption
<1>1. SP!TypeInv /\ SP!UniqueReceivers
  BY DEF LineTyped, SP!RegistryInv
<1>2. ASSUME UNCHANGED <<receivers, log>> PROVE Quietly
  BY <1>2 DEF Quietly, LogKept, SP!ProgressSame, SP!SameProgress
<1>3. CASE PollSend \/ PollFail \/ PollIdle
  <2>1. SP!Poll
    BY <1>3, SenderCalls, SenderState DEF PollSend, PollFail, PollIdle, SP!Poll
  <2>2. log' = SP!Reclaim(log, receivers)
    BY <2>1 DEF SP!Poll, SP!PollSend, SP!PollFail, SP!PollIdle
  <2> QED
    BY <1>1, <2>1, <2>2, SP!PollSame DEF Quietly, LogKept
<1>4. ASSUME NEW r \in ReceiverIds, Revive(r) PROVE Quietly
  <2>1. PICK i \in SP!Slots :
          /\ SP!FindSlot(r, i)
          /\ SP!SetReceiverProgress(r, receivers[i].last_acked_op_id)
    BY <1>4, SenderCalls, SenderState DEF Revive
  <2> DEFINE n == receivers[i].last_acked_op_id
             sl(j) == [SP!Cleared(receivers[j]) EXCEPT !.last_acked_op_id = n]
  <2>2. PICK j \in SP!Slots : SP!FindSlot(r, j) /\ SP!SetSlotAndReclaim(j, sl(j))
    BY <2>1 DEF SP!SetReceiverProgress
  <2>3. j = i
    BY <1>1, <2>1, <2>2 DEF SP!FindSlot, SP!UniqueReceivers, SP!ActiveSlots
  <2>4. receivers[i] \in SP!Slot
    BY <1>1, SenderFields
  <2>5. SP!SameProgress(receivers[i], sl(i))
    BY <2>4 DEF SP!SameProgress, SP!Cleared, SP!Slot
  <2>6. receivers' = [receivers EXCEPT ![i] = sl(i)]
        /\ log' = SP!Reclaim(log, receivers')
    BY <2>2, <2>3 DEF SP!SetSlotAndReclaim
  <2> HIDE DEF sl
  <2> QED
    BY <1>1, <2>5, <2>6, SP!SetSlotSame DEF Quietly, LogKept
<1>5. ASSUME NEW p \in net, SenderReceives(p)
      PROVE  Quietly \/ (SenderReceives(p) /\ SP!HandleRxAck(p[2]))
  <2>1. CASE UNCHANGED senderVars
    BY <1>2, <2>1 DEF senderVars
  <2>2. CASE SP!HandleRequest(p[2]) \/ SP!HandleRx(p[2])
    <3>1. CASE SP!HandleRxAck(p[2])
      BY <1>5, <3>1
    <3>2. CASE SP!HandleRequest(p[2]) \/ SP!HandleRxRequest(p[2]) \/ SP!HandleRxNack(p[2])
      <4>1. LogKept
        BY <3>2 DEF LogKept, SP!HandleRequest, SP!HandleRxRequest, SP!HandleRxNack,
                    SP!SetSlotAndReclaim
      <4> QED
        BY <1>1, <3>2, <4>1, SP!RxSame DEF Quietly
    <3> QED
      BY <2>2, <3>1, <3>2 DEF SP!HandleRx
  <2> QED
    BY <1>5, <2>1, <2>2, SenderCalls DEF SenderReceives
<1>6. CASE Tick \/ Beacon \/ Lose \/ \E r \in ReceiverIds : ReceiverStep(r)
  BY <1>2, <1>6 DEF Tick, S!Tick, Beacon, Lose, ReceiverStep, Hears, ReceiverHears,
                    ReceiverGets, Store, Reply, Crash, senderVars
<1>7. CASE UNCHANGED vars
  BY <1>2, <1>7 DEF vars, senderVars
<1> QED
  BY <1>3, <1>4, <1>5, <1>6, <1>7 DEF Next, SenderStep, Receives

-----------------------------------------------------------------------------
(* What each of them leaves behind. *)

LEMMA SenderTable ==
  /\ SP!RegistryInv => Table(receivers)
  /\ SP!RegistryInv' => Table(receivers')
BY DEF SP!RegistryInv, SP!TypeInv, SP!TypeOK, SP!UniqueReceivers, Table

\* Nothing that reclaims harms the sender's part.
LEMMA SenderQuiet ==
  ASSUME MaxOpId <= UINT32_MAX, LineTyped, SenderKept, [Next]_vars, Quietly
  PROVE  /\ SenderKept' /\ Joined' = Joined /\ Acked' = Acked
         /\ log'.latest_op_id = log.latest_op_id
<1>1. Table(receivers) /\ Table(receivers')
  BY SenderTable, SenderTyped DEF LineTyped
<1>2. Joined' = Joined /\ Acked' = Acked
  BY <1>1, TableSame DEF Quietly, SP!ProgressSame, Joined, Acked
<1>3. SP!Behind(log, receivers')
  BY DEF SenderKept, SP!Behind, SP!ActiveSlots, Quietly, SP!ProgressSame,
         SP!SameProgress
<1>4. SP!SenderInv'
  BY SenderInvKept DEF SenderKept
<1>5. SP!GoodLog(log) /\ receivers \in [SP!Slots -> SP!Slot]
      /\ receivers' \in [SP!Slots -> SP!Slot]
  BY <1>1 DEF SenderKept, SP!SenderInv, Table
<1>6. /\ Streams(log') /\ SP!Behind(log', receivers')
      /\ log'.latest_op_id = log.latest_op_id
  <2>1. CASE UNCHANGED log
    BY <1>3, <2>1 DEF SenderKept
  <2>2. CASE log' = SP!Reclaim(log, receivers')
    BY <1>3, <1>5, <2>2, ReclaimKeeps DEF SenderKept
  <2>3. CASE log' = SP!Reclaim(log, receivers)
    <3>1. /\ Streams(log') /\ SP!Behind(log', receivers)
          /\ log'.latest_op_id = log.latest_op_id
      BY <1>5, <2>3, ReclaimKeeps DEF SenderKept
    <3>2. SP!Behind(log', receivers')
      BY <3>1 DEF SP!Behind, SP!ActiveSlots, Quietly, SP!ProgressSame, SP!SameProgress
    <3> QED
      BY <3>1, <3>2
  <2> QED
    BY <2>1, <2>2, <2>3 DEF Quietly, LogKept
<1> QED
  BY <1>2, <1>4, <1>6 DEF SenderKept

\* A registration adds one receiver, or changes nothing.
LEMMA SenderRegisters ==
  ASSUME MaxOpId <= UINT32_MAX, LineTyped, SenderKept, [Next]_vars,
         NEW r \in ReceiverIds, Register(r)
  PROVE  /\ SenderKept' /\ log'.latest_op_id = log.latest_op_id
         /\ \/ Joined' = Joined /\ Acked' = Acked
            \/ /\ r \notin Joined /\ Joined' = Joined \cup {r}
               /\ Acked' = [Acked EXCEPT ![r] = stored[r]]
               /\ log'.oldest_retained_op_id <= stored[r] + 1
               /\ log' = SP!Reclaim(log, receivers)
<1> USE SenderAssumed, WidthAssumption
<1>1. /\ Table(receivers) /\ Table(receivers') /\ SP!TypeInv
      /\ receivers \in [SP!Slots -> SP!Slot] /\ SP!GoodLog(log)
      /\ stored[r] \in Nat
  BY SenderTable, SenderTyped
  DEF LineTyped, SP!RegistryInv, Table, SenderKept, SP!SenderInv, ReceiversTyped, OpIds
<1>2. /\ SP!RegisterReceiver(r, stored[r]) /\ log' = SP!Reclaim(log, receivers)
      /\ log'.oldest_retained_op_id <= stored[r] + 1
  <2>1. /\ SP!RegisterReceiver(r, stored[r])
        /\ stored[r] + 1 >= SP!Reclaim(log, receivers).oldest_retained_op_id
    BY SenderCalls, SenderState DEF Register
  <2>2. log' = SP!Reclaim(log, receivers)
    BY <2>1 DEF SP!RegisterReceiver
  <2>3. log'.oldest_retained_op_id \in Nat
    BY <1>1, <2>2, ReclaimKeeps, SP!GoodLogTyped DEF SenderKept
  <2> QED
    BY <1>1, <2>1, <2>2, <2>3
<1>3. CASE UNCHANGED receivers
  <2>1. Quietly
    BY <1>2, <1>3 DEF Quietly, LogKept, SP!ProgressSame, SP!SameProgress
  <2> QED
    BY <2>1, SenderQuiet
<1>4. ASSUME NEW i \in SP!Slots,
             \A j \in SP!Slots :
               ~(receivers[j].active = 1 /\ receivers[j].receiver_id = r),
             receivers[i].active # 1,
             receivers'[i].active = 1, receivers'[i].receiver_id = r,
             receivers'[i].last_acked_op_id = stored[r],
             \A j \in SP!Slots \ {i} : receivers'[j] = receivers[j]
      PROVE  /\ SenderKept' /\ log'.latest_op_id = log.latest_op_id
             /\ r \notin Joined /\ Joined' = Joined \cup {r}
             /\ Acked' = [Acked EXCEPT ![r] = stored[r]]
  <2>1. r \notin Joined
    BY <1>1, <1>4, TableFacts DEF Joined, ServedBy
  <2>2. ServedBy(receivers', r, i)
    BY <1>4 DEF ServedBy
  <2>3. Joined' = Joined \cup {r} /\ Acked' = [Acked EXCEPT ![r] = stored[r]]
    BY <1>1, <1>4, <2>2, TableSet DEF Joined, Acked
  <2>4. /\ Streams(log') /\ SP!Behind(log', receivers)
        /\ log'.latest_op_id = log.latest_op_id
    BY <1>1, <1>2, ReclaimKeeps DEF SenderKept
  <2>5. SP!Behind(log', receivers')
    BY <1>2, <1>4, <2>4 DEF SP!Behind, SP!ActiveSlots
  <2>6. SP!SenderInv'
    BY SenderInvKept DEF SenderKept
  <2> QED
    BY <2>1, <2>3, <2>4, <2>5, <2>6 DEF SenderKept
<1> QED
  BY <1>1, <1>2, <1>3, <1>4, SP!RegisterTakes

\* An operation is appended when the slowest receiver leaves room for it.
LEMMA SenderEnqueues ==
  ASSUME MaxOpId <= UINT32_MAX, LineTyped, SenderKept, [Next]_vars, Enqueue
  PROVE  /\ SenderKept' /\ Joined' = Joined /\ Acked' = Acked
         /\ \/ log'.latest_op_id = log.latest_op_id
            \/ /\ log'.latest_op_id = log.latest_op_id + 1
               /\ \A r \in Joined : log.latest_op_id - Acked[r] < OpCapacity
<1> USE SenderAssumed, WidthAssumption
<1> DEFINE lg == SP!Reclaim(log, receivers)
           op == Content[log.latest_op_id + 1]
<1>1. /\ Table(receivers) /\ receivers \in [SP!Slots -> SP!Slot] /\ SP!GoodLog(log)
      /\ SP!TypedLog(log)
  BY SenderTable, SenderFields
  DEF LineTyped, SP!RegistryInv, Table, SenderKept, SP!SenderInv
<1>2. /\ log.latest_op_id < MaxOpId /\ UNCHANGED receivers
      /\ log' = SP!EnqueueOp(log, receivers, op.op_type, op.value)
  BY SenderCalls DEF Enqueue, SP!Enqueue
<1>3. Joined' = Joined /\ Acked' = Acked
  BY <1>2 DEF Joined, Acked
<1>4. SP!SenderInv'
  BY SenderInvKept DEF SenderKept
<1>5. /\ SP!GoodLog(lg) /\ Streams(lg) /\ SP!Behind(lg, receivers)
      /\ lg.latest_op_id = log.latest_op_id
  BY <1>1, ReclaimKeeps DEF SenderKept
<1>6. \/ log' = lg
      \/ lg.op_count < OpCapacity /\ log' = SP!AppendOp(lg, op.op_type, op.value)
  BY <1>1, <1>2, SP!EnqueueCases
<1> HIDE DEF lg
<1>7. CASE log' = lg
  BY <1>2, <1>3, <1>4, <1>5, <1>7 DEF SenderKept
<1>8. CASE lg.op_count < OpCapacity /\ log' = SP!AppendOp(lg, op.op_type, op.value)
  <2>1. /\ Streams(log') /\ SP!Behind(log', receivers)
        /\ log'.latest_op_id = log.latest_op_id + 1
    BY <1>1, <1>2, <1>5, <1>8, AppendKeeps
  <2>2. ASSUME NEW r \in Joined PROVE log.latest_op_id - Acked[r] < OpCapacity
    <3>1. r \in ReceiverIds
      BY DEF SenderKept
    <3>2. PICK i \in SP!Slots : ServedBy(receivers, r, i)
      BY <1>1, TableFacts DEF Joined
    <3>3. Acked[r] = receivers[i].last_acked_op_id /\ Acked[r] \in Nat
      BY <1>1, <3>1, <3>2, TableFacts DEF Acked
    <3>4. lg.oldest_retained_op_id <= Acked[r] + 1
      BY <1>5, <3>2, <3>3 DEF SP!Behind, SP!ActiveSlots, ServedBy
    <3>5. /\ lg.oldest_retained_op_id + lg.op_count = log.latest_op_id + 1
          /\ lg.oldest_retained_op_id \in Nat /\ lg.op_count \in Nat
          /\ log.latest_op_id \in Nat
      BY <1>1, <1>5, SP!GoodLogTyped
    <3> QED
      BY <1>8, <3>3, <3>4, <3>5, AsyncAssumption
  <2> QED
    BY <1>2, <1>3, <1>4, <2>1, <2>2 DEF SenderKept
<1> QED
  BY <1>6, <1>7, <1>8

\* An ACK that is taken names the operation after the last acknowledged one.
LEMMA SenderAcked ==
  ASSUME MaxOpId <= UINT32_MAX, LineTyped, SenderKept, [Next]_vars,
         NEW f, FrameTyped(f), SP!HandleRxAck(f)
  PROVE  /\ f.type = "ACK" /\ f.sender_id \in Joined
         /\ f.op_id = Acked[f.sender_id] + 1
         /\ SenderKept' /\ Joined' = Joined
         /\ Acked' = [Acked EXCEPT ![f.sender_id] = @ + 1]
         /\ log'.latest_op_id = log.latest_op_id
<1> USE SenderAssumed, WidthAssumption
<1>1. /\ Table(receivers) /\ Table(receivers') /\ SP!GoodLog(log)
      /\ receivers \in [SP!Slots -> SP!Slot] /\ receivers' \in [SP!Slots -> SP!Slot]
  BY SenderTable, SenderTyped DEF LineTyped, Table, SenderKept, SP!SenderInv
<1>2. PICK i \in SP!Slots :
        /\ SP!TakesAck(f, i)
        /\ receivers[i].active = 1 /\ receivers[i].receiver_id = f.sender_id
        /\ f.op_id = receivers[i].last_acked_op_id + 1
        /\ receivers'[i].active = 1 /\ receivers'[i].receiver_id = f.sender_id
        /\ receivers'[i].last_acked_op_id = f.op_id
        /\ \A j \in SP!Slots \ {i} : receivers'[j] = receivers[j]
  BY SP!AckAdvances DEF SenderKept
<1>3. f.type = "ACK" /\ f.sender_id \in ReceiverIds
  BY <1>2 DEF SP!TakesAck, SP!Accepts, FrameTyped
<1>4. ServedBy(receivers, f.sender_id, i) /\ ServedBy(receivers', f.sender_id, i)
  BY <1>2 DEF ServedBy
<1>5. f.sender_id \in Joined /\ Acked[f.sender_id] = receivers[i].last_acked_op_id
  BY <1>1, <1>3, <1>4, TableFacts DEF Joined, Acked
<1>6. /\ Joined' = Joined \cup {f.sender_id}
      /\ Acked' = [Acked EXCEPT ![f.sender_id] = f.op_id]
  BY <1>1, <1>2, <1>3, <1>4, TableSet DEF Joined, Acked
<1>7. log' = SP!Reclaim(log, receivers')
  BY DEF SP!HandleRxAck, SP!SetSlotAndReclaim
<1>8. SP!Behind(log, receivers')
  <2>1. ASSUME NEW j \in SP!Slots, receivers'[j].active = 1
        PROVE  log.oldest_retained_op_id <= receivers'[j].last_acked_op_id + 1
    <3>1. CASE j = i
      <4>1. log.oldest_retained_op_id <= receivers[i].last_acked_op_id + 1
        BY <1>2 DEF SenderKept, SP!Behind, SP!ActiveSlots
      <4>2. log.oldest_retained_op_id \in Nat /\ receivers[i].last_acked_op_id \in Nat
        BY <1>1, SP!GoodLogTyped DEF SP!Slot, SP!OpIds
      <4> QED
        BY <1>2, <3>1, <4>1, <4>2
    <3>2. CASE j # i
      BY <1>2, <2>1, <3>2 DEF SenderKept, SP!Behind, SP!ActiveSlots
    <3> QED
      BY <3>1, <3>2
  <2> QED
    BY <2>1 DEF SP!Behind, SP!ActiveSlots
<1>9. /\ Streams(log') /\ SP!Behind(log', receivers')
      /\ log'.latest_op_id = log.latest_op_id
  BY <1>1, <1>7, <1>8, ReclaimKeeps DEF SenderKept
<1>10. SP!SenderInv'
  BY SenderInvKept DEF SenderKept
<1>11. SenderKept'
  BY <1>5, <1>6, <1>9, <1>10 DEF SenderKept
<1> QED
  BY <1>2, <1>3, <1>5, <1>6, <1>9, <1>11

-----------------------------------------------------------------------------
(* The line's part: what is applied, stored, answered and on its way agrees *)
(* with what the sender counts.                                             *)

Agreed ==
  \A r \in ReceiverIds :
    /\ Acked[r] <= stored[r] /\ stored[r] <= last_applied_op_id[r]
    /\ last_applied_op_id[r] <= Acked[r] + 1
    /\ r \notin Joined => last_applied_op_id[r] = 0

AnswersKept ==
  \A r \in ReceiverIds : \A f \in outbox[r] :
    f.type = "ACK" => f.op_id <= last_applied_op_id[r]

\* A DATA frame is of the stream, and no further than its receiver's next
\* operation; an ACK is of what its receiver has stored
FrameKept(f) ==
  /\ f.type = "DATA" =>
       /\ f.receiver_id \in Joined
       /\ f.op_id <= Acked[f.receiver_id] + 1 /\ f.op_id <= log.latest_op_id
       /\ f.op_type = Content[f.op_id].op_type
       /\ f.value = Content[f.op_id].value
  /\ f.type = "ACK" => f.op_id <= stored[f.sender_id]

NetKept == \A p \in net : FrameKept(p[2])

\* Ahead of what it reports a receiver can be only after a crash, until it
\* applies that operation again
DataKept ==
  \A r \in ReceiverIds :
    \/ dataset[r] = R!StreamDataset[last_applied_op_id[r]]
    \/ /\ faults > 0 /\ stored[r] = last_applied_op_id[r]
       /\ dataset[r] = R!StreamDataset[last_applied_op_id[r] + 1]

LineInv ==
  LineTyped /\ SenderKept /\ Agreed /\ AnswersKept /\ NetKept /\ DataKept

LEMMA LineNumbers ==
  ASSUME LineTyped
  PROVE  /\ Acked \in [ReceiverIds -> Nat]
         /\ stored \in [ReceiverIds -> Nat]
         /\ last_applied_op_id \in [ReceiverIds -> Nat]
         /\ log.latest_op_id \in Nat
<1>1. Acked \in [ReceiverIds -> Nat]
  BY SenderTable, TableFacts DEF LineTyped, Acked
<1> QED
  BY <1>1, SenderFields DEF LineTyped, SP!RegistryInv, ReceiversTyped, OpIds

\* What the line can count only grows.
Advances ==
  /\ Joined \subseteq Joined'
  /\ \A r \in ReceiverIds : Acked[r] <= Acked'[r] /\ stored[r] <= stored'[r]
  /\ log.latest_op_id <= log'.latest_op_id

\* An operation that is applied is the stream's next, and the one before it was
\* stored and acknowledged.
LEMMA AppliesNext ==
  ASSUME LineInv, NEW r \in ReceiverIds, NEW p \in net, NEW ok, NEW room,
         R!Verdict(r, p[2], ok, room) = "APPLIED"
  PROVE  LET f == p[2]
         IN  /\ r \in Joined
             /\ f.op_id = last_applied_op_id[r] + 1 /\ f.op_id <= log.latest_op_id
             /\ f.op_type = Content[f.op_id].op_type
             /\ f.value = Content[f.op_id].value
             /\ last_applied_op_id[r] = Acked[r] /\ last_applied_op_id[r] = stored[r]
<1> DEFINE f == p[2]
<1>1. /\ FrameTyped(f) /\ FrameKept(f) /\ ReceiversTyped
  BY DEF LineInv, LineTyped, NetTyped, NetKept
<1> HIDE DEF f
<1>2. /\ f.type = "DATA" /\ f.receiver_id = r
      /\ f.op_id = last_applied_op_id[r] + 1
  BY <1>1, AppliedFrame DEF f
<1>3. /\ Acked[r] \in Nat /\ stored[r] \in Nat /\ last_applied_op_id[r] \in Nat
  BY LineNumbers DEF LineInv
<1>4. /\ r \in Joined /\ f.op_id <= Acked[r] + 1 /\ f.op_id <= log.latest_op_id
      /\ f.op_type = Content[f.op_id].op_type /\ f.value = Content[f.op_id].value
  BY <1>1, <1>2 DEF FrameKept
<1> QED
  BY <1>2, <1>3, <1>4 DEF LineInv, Agreed, f

\* An ACK that is taken is of an operation that is stored.
LEMMA AckIsStored ==
  ASSUME MaxOpId <= UINT32_MAX, LineInv, [Next]_vars, NEW p \in net,
         SenderReceives(p), SP!HandleRxAck(p[2])
  PROVE  \E r \in ReceiverIds :
           /\ Acked[r] < stored[r]
           /\ SenderKept' /\ Joined' = Joined
           /\ Acked' = [Acked EXCEPT ![r] = @ + 1]
           /\ log'.latest_op_id = log.latest_op_id
           /\ UNCHANGED <<receiverVars, stored, outbox>>
<1> DEFINE f == p[2]
<1>1. FrameTyped(f) /\ FrameKept(f)
  BY DEF LineInv, LineTyped, NetTyped, NetKept
<1>2. /\ f.type = "ACK" /\ f.sender_id \in Joined
      /\ f.op_id = Acked[f.sender_id] + 1
      /\ SenderKept' /\ Joined' = Joined
      /\ Acked' = [Acked EXCEPT ![f.sender_id] = @ + 1]
      /\ log'.latest_op_id = log.latest_op_id
  BY <1>1, SenderAcked DEF LineInv
<1>3. f.sender_id \in ReceiverIds
  BY <1>2 DEF LineInv, SenderKept
<1>4. f.op_id <= stored[f.sender_id]
  BY <1>1, <1>2 DEF FrameKept
<1>5. UNCHANGED <<receiverVars, stored, outbox>>
  BY DEF SenderReceives
<1>6. Acked[f.sender_id] \in Nat /\ stored[f.sender_id] \in Nat
  BY <1>3, LineNumbers DEF LineInv
<1>7. Acked[f.sender_id] < stored[f.sender_id]
  BY <1>2, <1>4, <1>6
<1> HIDE DEF f
<1> QED
  BY <1>2, <1>3, <1>5, <1>7

\* A receiver that registers for the first time has applied nothing.
LEMMA RegistersAtZero ==
  ASSUME LineInv, NEW r \in ReceiverIds, r \notin Joined
  PROVE  /\ stored[r] = 0 /\ Acked[r] = 0 /\ last_applied_op_id[r] = 0
         /\ [Acked EXCEPT ![r] = stored[r]] = Acked
<1>1. /\ Acked \in [ReceiverIds -> Nat]
      /\ Acked[r] \in Nat /\ stored[r] \in Nat
  BY LineNumbers DEF LineInv
<1>2. stored[r] = 0 /\ Acked[r] = 0 /\ last_applied_op_id[r] = 0
  BY <1>1 DEF LineInv, Agreed
<1> QED
  BY <1>1, <1>2

\* What becomes of the sender's part in a step.
LEMMA SenderStepKept ==
  ASSUME MaxOpId <= UINT32_MAX, LineInv, [Next]_vars
  PROVE  /\ SenderKept'
         /\ \/ /\ Joined' = Joined /\ Acked' = Acked
               /\ log'.latest_op_id = log.latest_op_id
            \/ /\ UNCHANGED <<receiverVars, stored, outbox>>
               /\ net' \subseteq net /\ UNCHANGED faults
               /\ \/ Joined' = Joined /\ Acked' = Acked
                  \/ \E r \in ReceiverIds :
                       r \notin Joined /\ Joined' = Joined \cup {r} /\ Acked' = Acked
                  \/ \E r \in ReceiverIds :
                       /\ Acked[r] < stored[r] /\ Joined' = Joined
                       /\ Acked' = [Acked EXCEPT ![r] = @ + 1]
               /\ log.latest_op_id <= log'.latest_op_id
<1>1. LineTyped /\ SenderKept /\ log.latest_op_id \in Nat
  BY LineNumbers DEF LineInv
<1>2. CASE Quietly
  BY <1>1, <1>2, SenderQuiet
<1>3. ASSUME NEW r \in ReceiverIds, Register(r)
      PROVE  /\ SenderKept' /\ log'.latest_op_id = log.latest_op_id
             /\ UNCHANGED <<receiverVars, stored, outbox>>
             /\ net' \subseteq net /\ UNCHANGED faults
             /\ \/ Joined' = Joined /\ Acked' = Acked
                \/ r \notin Joined /\ Joined' = Joined \cup {r} /\ Acked' = Acked
  <2>1. UNCHANGED <<receiverVars, stored, outbox, net, faults>>
    BY <1>3 DEF Register, NoFault
  <2> QED
    BY <1>1, <1>3, <2>1, SenderRegisters, RegistersAtZero
<1>4. CASE Enqueue
  <2>1. UNCHANGED <<receiverVars, stored, outbox, net, faults>>
    BY <1>4 DEF Enqueue, NoFault
  <2>2. /\ SenderKept' /\ Joined' = Joined /\ Acked' = Acked
        /\ log.latest_op_id <= log'.latest_op_id
    BY <1>1, <1>4, SenderEnqueues
  <2> QED
    BY <2>1, <2>2
<1>5. ASSUME NEW p \in net, SenderReceives(p), SP!HandleRxAck(p[2])
      PROVE  /\ SenderKept' /\ log'.latest_op_id = log.latest_op_id
             /\ UNCHANGED <<receiverVars, stored, outbox>>
             /\ net' \subseteq net /\ UNCHANGED faults
             /\ \E r \in ReceiverIds :
                  /\ Acked[r] < stored[r] /\ Joined' = Joined
                  /\ Acked' = [Acked EXCEPT ![r] = @ + 1]
  <2>1. UNCHANGED <<receiverVars, stored, outbox, faults>>
    BY <1>5 DEF SenderReceives, NoFault
  <2>2. net' \subseteq net
    <3>1. p[2].type = "ACK"
      BY <1>5 DEF SP!HandleRxAck, SP!TakesAck, SP!Accepts
    <3>2. ~S!HandleRequest(p[2])
      BY <3>1 DEF S!HandleRequest, S!AsksReclaimed, S!Accepts
    <3> QED
      BY <1>5, <3>2 DEF SenderReceives, Exchange
  <2> QED
    BY <1>5, <2>1, <2>2, AckIsStored
<1> QED
  BY <1>1, <1>2, <1>3, <1>4, <1>5, SenderDoes

\* What the line's receivers can do in a step.
LEMMA ReceiversDo ==
  ASSUME [Next]_vars
  PROVE  \/ UNCHANGED <<receiverVars, stored, outbox>>
         \/ \E r \in ReceiverIds, p \in net, ok \in BOOLEAN, room \in R!Rooms :
              ReceiverGets(r, p, ok, room)
         \/ \E r \in ReceiverIds : Store(r) \/ Reply(r) \/ Crash(r)
BY DEF Next, SenderStep, ReceiverStep, Receives, SenderReceives, Hears, ReceiverHears,
       Register, Revive, Enqueue, PollSend, PollFail, PollIdle, Beacon, Tick, Lose, vars

LEMMA AgreedStep ==
  ASSUME MaxOpId <= UINT32_MAX, LineInv, [Next]_vars
  PROVE  Agreed' /\ Advances
<1>1. /\ Acked \in [ReceiverIds -> Nat] /\ stored \in [ReceiverIds -> Nat]
      /\ last_applied_op_id \in [ReceiverIds -> Nat] /\ log.latest_op_id \in Nat
      /\ Agreed
  BY LineNumbers DEF LineInv
<1>2. /\ log'.latest_op_id \in Nat /\ Acked' \in [ReceiverIds -> Nat]
  <2>1. LineTyped'
    BY LineStep DEF LineInv
  <2>2. SP!TypeInv' /\ Table(receivers')
    BY <2>1, SenderTable DEF LineTyped, SP!RegistryInv
  <2>3. Acked' \in [ReceiverIds -> Nat]
    BY <2>2, TableFacts DEF Acked
  <2> QED
    BY <2>2, <2>3 DEF SP!TypeInv, SP!TypeOK, SP!Log, SP!OpIds
<1>3. CASE /\ UNCHANGED <<receiverVars, stored, outbox>>
           /\ log.latest_op_id <= log'.latest_op_id
           /\ \/ Joined' = Joined /\ Acked' = Acked
              \/ \E r \in ReceiverIds :
                   r \notin Joined /\ Joined' = Joined \cup {r} /\ Acked' = Acked
              \/ \E r \in ReceiverIds :
                   /\ Acked[r] < stored[r] /\ Joined' = Joined
                   /\ Acked' = [Acked EXCEPT ![r] = @ + 1]
  <2>1. CASE Joined \subseteq Joined' /\ Acked' = Acked
    BY <1>1, <1>3, <2>1 DEF Agreed, Advances, receiverVars
  <2>2. ASSUME NEW r \in ReceiverIds, Acked[r] < stored[r], Joined' = Joined,
               Acked' = [Acked EXCEPT ![r] = @ + 1]
        PROVE  Agreed' /\ Advances
    <3>1. ASSUME NEW q \in ReceiverIds
          PROVE  /\ Acked[q] <= Acked'[q] /\ Acked'[q] <= stored[q]
                 /\ stored[q] <= last_applied_op_id[q]
                 /\ last_applied_op_id[q] <= Acked'[q] + 1
                 /\ q \notin Joined => last_applied_op_id[q] = 0
      <4>1. /\ Acked[q] \in Nat /\ stored[q] \in Nat /\ last_applied_op_id[q] \in Nat
            /\ Acked[q] <= stored[q] /\ stored[q] <= last_applied_op_id[q]
            /\ last_applied_op_id[q] <= Acked[q] + 1
            /\ q \notin Joined => last_applied_op_id[q] = 0
        BY <1>1 DEF Agreed
      <4>2. CASE q = r
        <5>1. Acked'[q] = Acked[q] + 1
          BY <1>1, <2>2, <4>2
        <5> QED
          BY <2>2, <4>1, <4>2, <5>1
      <4>3. CASE q # r
        <5>1. Acked'[q] = Acked[q]
          BY <1>1, <2>2, <4>3
        <5> QED
          BY <4>1, <5>1
      <4> QED
        BY <4>2, <4>3
    <3> QED
      BY <1>1, <1>3, <2>2, <3>1 DEF Agreed, Advances, receiverVars
  <2> QED
    BY <1>3, <2>1, <2>2
<1>4. CASE /\ Joined' = Joined /\ Acked' = Acked
           /\ log'.latest_op_id = log.latest_op_id
  <2>1. CASE UNCHANGED <<receiverVars, stored, outbox>>
    BY <1>1, <1>4, <2>1 DEF Agreed, Advances, receiverVars
  <2>2. ASSUME NEW r \in ReceiverIds, NEW p \in net, NEW ok, NEW room,
               ReceiverGets(r, p, ok, room)
        PROVE  Agreed' /\ Advances
    <3>1. R!HandleData(r, p[2], ok, room) /\ UNCHANGED stored
      BY <2>2 DEF ReceiverGets
    <3>2. CASE R!Verdict(r, p[2], ok, room) = "APPLIED"
      <4>1. /\ r \in Joined /\ p[2].op_id = last_applied_op_id[r] + 1
            /\ last_applied_op_id[r] = Acked[r] /\ last_applied_op_id[r] = stored[r]
        BY <3>2, AppliesNext
      <4>2. last_applied_op_id'
              = [last_applied_op_id EXCEPT ![r] = last_applied_op_id[r] + 1]
        BY <3>1, <3>2, <4>1 DEF R!HandleData
      <4>3. /\ last_applied_op_id'[r] = Acked[r] + 1
            /\ \A q \in ReceiverIds \ {r} :
                 last_applied_op_id'[q] = last_applied_op_id[q]
        BY <1>1, <4>1, <4>2
      <4>4. ASSUME NEW q \in ReceiverIds
            PROVE  /\ Acked[q] <= stored[q] /\ stored[q] <= last_applied_op_id'[q]
                   /\ last_applied_op_id'[q] <= Acked[q] + 1
                   /\ q \notin Joined => last_applied_op_id'[q] = 0
        <5>1. /\ Acked[q] \in Nat /\ stored[q] \in Nat /\ last_applied_op_id[q] \in Nat
              /\ Acked[q] <= stored[q] /\ stored[q] <= last_applied_op_id[q]
              /\ last_applied_op_id[q] <= Acked[q] + 1
              /\ q \notin Joined => last_applied_op_id[q] = 0
          BY <1>1 DEF Agreed
        <5>2. CASE q = r
          <6>1. /\ q \in Joined /\ last_applied_op_id'[q] = Acked[q] + 1
                /\ stored[q] = Acked[q]
            BY <4>1, <4>3, <5>2
          <6> QED
            BY <5>1, <6>1
        <5>3. CASE q # r
          BY <4>3, <5>1, <5>3
        <5> QED
          BY <5>2, <5>3
      <4>5. Agreed'
        BY <1>4, <3>1, <4>4 DEF Agreed
      <4>6. Advances
        BY <1>1, <1>4, <3>1 DEF Advances
      <4> QED
        BY <4>5, <4>6
    <3>3. CASE R!Verdict(r, p[2], ok, room) # "APPLIED"
      BY <1>1, <1>4, <3>1, <3>3 DEF R!HandleData, R!vars, Agreed, Advances
    <3> QED
      BY <3>2, <3>3
  <2>3. ASSUME NEW r \in ReceiverIds, Store(r) \/ Reply(r) \/ Crash(r)
        PROVE  Agreed' /\ Advances
    BY <1>1, <1>4, <2>3 DEF Store, Reply, Crash, receiverVars, Agreed, Advances
  <2> QED
    BY <2>1, <2>2, <2>3, ReceiversDo
<1> QED
  BY <1>3, <1>4, SenderStepKept

LEMMA AnswersStep ==
  ASSUME LineInv, [Next]_vars
  PROVE  AnswersKept'
<1>1. /\ ReceiversTyped /\ AnswersTyped /\ AnswersKept
      /\ last_applied_op_id \in [ReceiverIds -> Nat]
  BY LineNumbers DEF LineInv, LineTyped
<1>2. ASSUME NEW r \in ReceiverIds, NEW p \in net, NEW ok, NEW room,
             ReceiverGets(r, p, ok, room)
      PROVE  AnswersKept'
  <2> DEFINE f == p[2]
  <2>1. /\ R!HandleData(r, f, ok, room) /\ outbox[r] = {}
        /\ outbox' = [outbox EXCEPT ![r] = R!Replies(r, f, ok, room)]
    BY <1>2 DEF ReceiverGets
  <2>2. FrameTyped(f)
    BY DEF LineInv, LineTyped, NetTyped
  <2>3. \A g \in R!Replies(r, f, ok, room) : g.type = "ACK" =>
          \/ g.op_id = last_applied_op_id[r]
          \/ R!Verdict(r, f, ok, room) = "APPLIED" /\ g.op_id = f.op_id
    BY <1>1, <2>2, AnswerWritten
  <2> HIDE DEF f
  <2>4. CASE R!Verdict(r, f, ok, room) = "APPLIED"
    <3>1. f.op_id = last_applied_op_id[r] + 1
      BY <2>4, AppliesNext DEF f
    <3>2. last_applied_op_id' = [last_applied_op_id EXCEPT ![r] = f.op_id]
      BY <2>1, <2>4 DEF R!HandleData
    <3>3. \A g \in outbox'[r] : g.type = "ACK" => g.op_id <= last_applied_op_id'[r]
      BY <1>1, <2>1, <2>3, <3>1, <3>2 DEF AnswersTyped
    <3>4. \A q \in ReceiverIds \ {r} :
            outbox'[q] = outbox[q] /\ last_applied_op_id'[q] = last_applied_op_id[q]
      BY <1>1, <2>1, <3>2 DEF AnswersTyped
    <3> QED
      BY <1>1, <3>3, <3>4 DEF AnswersKept
  <2>5. CASE R!Verdict(r, f, ok, room) # "APPLIED"
    <3>1. UNCHANGED last_applied_op_id
      BY <2>1, <2>5 DEF R!HandleData, R!vars
    <3>2. \A g \in outbox'[r] : g.type = "ACK" => g.op_id <= last_applied_op_id[r]
      BY <1>1, <2>1, <2>3, <2>5 DEF AnswersTyped
    <3>3. \A q \in ReceiverIds \ {r} : outbox'[q] = outbox[q]
      BY <1>1, <2>1 DEF AnswersTyped
    <3> QED
      BY <1>1, <3>1, <3>2, <3>3 DEF AnswersKept
  <2> QED
    BY <2>4, <2>5
<1>3. ASSUME NEW r \in ReceiverIds, Store(r) \/ Reply(r) \/ Crash(r)
      PROVE  AnswersKept'
  <2>1. CASE Store(r)
    BY <1>1, <2>1 DEF Store, receiverVars, AnswersKept
  <2>2. CASE Reply(r) \/ Crash(r)
    <3>1. /\ outbox'[r] = {}
          /\ \A q \in ReceiverIds \ {r} :
               outbox'[q] = outbox[q] /\ last_applied_op_id'[q] = last_applied_op_id[q]
      BY <1>1, <2>2 DEF Reply, Crash, receiverVars, AnswersTyped
    <3> QED
      BY <1>1, <3>1 DEF AnswersKept
  <2> QED
    BY <1>3, <2>1, <2>2
<1>4. CASE UNCHANGED <<receiverVars, stored, outbox>>
  BY <1>1, <1>4 DEF receiverVars, AnswersKept
<1> QED
  BY <1>2, <1>3, <1>4, ReceiversDo

-----------------------------------------------------------------------------
(* What is on its way. *)

\* A frame that was true stays true, however late it arrives.
LEMMA FrameStays ==
  ASSUME LineInv, LineTyped', Advances, NEW f, FrameTyped(f), FrameKept(f)
  PROVE  FrameKept(f)'
<1>1. /\ Acked \in [ReceiverIds -> Nat] /\ stored \in [ReceiverIds -> Nat]
      /\ log.latest_op_id \in Nat /\ Joined \subseteq ReceiverIds
  BY LineNumbers DEF LineInv, SenderKept
<1>2. /\ Table(receivers') /\ SP!TypeInv' /\ ReceiversTyped'
  BY SenderTable DEF LineTyped, SP!RegistryInv
<1>3. /\ Acked' \in [ReceiverIds -> Nat] /\ stored' \in [ReceiverIds -> Nat]
      /\ log'.latest_op_id \in Nat
  BY <1>2, TableFacts DEF Acked, SP!TypeInv, SP!TypeOK, SP!Log, SP!OpIds,
                          ReceiversTyped, OpIds
<1>4. f.op_id \in Nat /\ (f.type = "ACK" => f.sender_id \in ReceiverIds)
  BY DEF FrameTyped, OpIds
<1>5. CASE f.type = "DATA"
  <2>1. /\ f.receiver_id \in Joined /\ f.op_id <= Acked[f.receiver_id] + 1
        /\ f.op_id <= log.latest_op_id
        /\ f.op_type = Content[f.op_id].op_type /\ f.value = Content[f.op_id].value
    BY <1>5 DEF FrameKept
  <2>2. f.receiver_id \in Joined' /\ f.op_id <= log'.latest_op_id
    BY <1>1, <1>3, <1>4, <2>1 DEF Advances
  <2>3. f.op_id <= Acked'[f.receiver_id] + 1
    <3>1. /\ Acked[f.receiver_id] \in Nat /\ Acked'[f.receiver_id] \in Nat
          /\ Acked[f.receiver_id] <= Acked'[f.receiver_id]
      BY <1>1, <1>3, <2>1 DEF Advances
    <3> QED
      BY <1>4, <2>1, <3>1
  <2> QED
    BY <1>5, <2>1, <2>2, <2>3 DEF FrameKept
<1>6. CASE f.type = "ACK"
  <2>1. /\ f.op_id <= stored[f.sender_id]
        /\ stored[f.sender_id] \in Nat /\ stored'[f.sender_id] \in Nat
        /\ stored[f.sender_id] <= stored'[f.sender_id]
    BY <1>1, <1>3, <1>4, <1>6 DEF FrameKept, Advances
  <2> QED
    BY <1>4, <1>6, <2>1 DEF FrameKept
<1>7. CASE f.type \notin {"DATA", "ACK"}
  BY <1>7 DEF FrameKept
<1> QED
  BY <1>5, <1>6, <1>7

\* poll_tx sends the stream, and to no receiver more than its next operation.
LEMMA SendsNext ==
  ASSUME MaxOpId <= UINT32_MAX, LineInv, NEW k \in S!Slots, S!PollSend(k),
         NEW f \in S!PollFrames(k, TRUE)
  PROVE  FrameKept(f)
<1> USE SenderAssumed, WidthAssumption
<1> DEFINE lg == SP!Reclaim(log, receivers)
           sl == receivers[SP!Turn(k)]
           n == SP!Target(sl)
           op == SP!OpAt(lg, n)
<1>1. /\ SP!TypeInv /\ Table(receivers) /\ SP!GoodLog(log) /\ SP!InflightRetained
      /\ receivers \in [SP!Slots -> SP!Slot]
  BY SenderTable
  DEF LineInv, LineTyped, SP!RegistryInv, SenderKept, SP!SenderInv, Table
<1>2. /\ SP!Turn(k) \in SP!Slots /\ n \in Nat /\ SP!Retained(lg, n)
      /\ f = [type |-> "DATA", sender_id |-> SenderId,
              receiver_id |-> sl.receiver_id, stream_id |-> StreamId,
              op_id |-> op.op_id, op_type |-> op.op_type, value |-> op.value]
  BY <1>1, DataWritten
<1>3. /\ SP!GoodLog(lg) /\ Streams(lg) /\ lg.latest_op_id = log.latest_op_id
  BY <1>1, ReclaimKeeps DEF LineInv, SenderKept
<1>4. sl.active = 1
  <2>1. SP!PollSend(k)
    BY SenderCalls
  <2> QED
    BY <2>1 DEF SP!PollSend, SP!FirstToServe, SP!Serves
<1>5. sl \in SP!Slot
  BY <1>1, <1>2
<1>6. /\ sl.receiver_id \in Joined /\ sl.receiver_id \in ReceiverIds
      /\ Acked[sl.receiver_id] = sl.last_acked_op_id
  <2>1. ServedBy(receivers, sl.receiver_id, SP!Turn(k))
    BY <1>4 DEF ServedBy
  <2>2. sl.receiver_id \in Joined
    BY <1>1, <1>2, <2>1, TableFacts DEF Joined
  <2>3. sl.receiver_id \in ReceiverIds
    BY <2>2 DEF LineInv, SenderKept
  <2> QED
    BY <1>1, <1>2, <2>1, <2>2, <2>3, TableFacts DEF Acked
<1> HIDE DEF lg
<1>7. /\ lg.oldest_retained_op_id <= n /\ n <= log.latest_op_id /\ n # 0 /\ n \in OpIds
  <2>1. /\ lg.oldest_retained_op_id <= n /\ n <= lg.latest_op_id
    BY <1>2, <1>3, SP!RetainedWindow
  <2>2. /\ lg.oldest_retained_op_id \in Nat /\ lg.oldest_retained_op_id >= 1
        /\ lg.latest_op_id \in Nat /\ lg.latest_op_id <= MaxOpId
    BY <1>3, SP!GoodLogTyped DEF SP!GoodLog
  <2> QED
    BY <1>2, <1>3, <2>1, <2>2, AsyncAssumption DEF OpIds
<1>8. n = sl.last_acked_op_id + 1
  <2>1. CASE sl.waiting_ack = 1
    BY <1>1, <1>2, <2>1 DEF SP!InflightRetained, SP!Target
  <2>2. CASE sl.waiting_ack # 1
    <3>1. n = SP!Needs(sl)
      BY <2>2 DEF SP!Target
    <3> QED
      BY <1>5, <1>7, <3>1, SP!NeedsTyped
  <2> QED
    BY <2>1, <2>2
<1>9. op = StreamOp(n)
  BY <1>2, <1>3, <1>7 DEF Streams
<1> HIDE DEF n, op, sl
<1>10. /\ f.type = "DATA" /\ f.receiver_id = sl.receiver_id /\ f.op_id = n
       /\ f.op_type = Content[n].op_type /\ f.value = Content[n].value
  BY <1>2, <1>9 DEF StreamOp
<1> QED
  BY <1>6, <1>7, <1>8, <1>10 DEF FrameKept

\* No step puts a frame into the air that is not true when it is sent.
LEMMA SentIsKept ==
  ASSUME MaxOpId <= UINT32_MAX, StoreFirst, LineInv, [Next]_vars, NEW p \in net'
  PROVE  p \in net \/ FrameKept(p[2])
<1>1. ASSUME net' \subseteq net PROVE p \in net
  BY <1>1
<1>2. CASE PollSend
  <2>1. PICK k \in S!Slots :
          /\ S!PollSend(k)
          /\ net' = net \cup UNION {To(f.receiver_id, {f}) : f \in S!PollFrames(k, TRUE)}
    BY <1>2 DEF PollSend
  <2>2. p \in net \/ p[2] \in S!PollFrames(k, TRUE)
    BY <2>1, Sent
  <2> QED
    BY <2>1, <2>2, SendsNext
<1>3. ASSUME NEW r \in ReceiverIds, Reply(r) PROVE p \in net \/ FrameKept(p[2])
  <2>1. /\ net' = net \cup UNION {To(f.receiver_id, {f}) : f \in outbox[r]}
        /\ stored[r] = last_applied_op_id[r]
    BY <1>3 DEF Reply
  <2>2. p \in net \/ p[2] \in outbox[r]
    BY <2>1, Sent
  <2>3. ASSUME NEW f \in outbox[r] PROVE FrameKept(f)
    <3>1. /\ f.type \in {"ACK", "NACK"} /\ f.sender_id = r
      BY DEF LineInv, LineTyped, AnswersTyped, AnswerTyped
    <3>2. f.type = "ACK" => f.op_id <= stored[r]
      BY <2>1 DEF LineInv, AnswersKept
    <3> QED
      BY <3>1, <3>2 DEF FrameKept
  <2> QED
    BY <2>2, <2>3
<1>4. CASE Beacon
  <2>1. net' = net \cup Broadcast(S!BeaconFrames)
    BY <1>4 DEF Beacon
  <2>2. p \in net \/ p[2] \in S!BeaconFrames
    BY <2>1, Sent
  <2>3. \A f \in S!BeaconFrames : f.type = "BEACON"
    BY DEF S!BeaconFrames, S!EncodeBeacon, S!Written
  <2> QED
    BY <2>2, <2>3 DEF FrameKept
<1>5. ASSUME NEW q \in net, SenderReceives(q) PROVE p \in net \/ FrameKept(p[2])
  <2>1. \/ net' \subseteq net
        \/ net' \subseteq net \cup To(q[2].sender_id, S!RequestNack(q[2], TRUE))
    BY <1>5 DEF SenderReceives, Exchange
  <2>2. p \in net \/ p[2] \in S!RequestNack(q[2], TRUE)
    BY <2>1, Sent
  <2>3. \A f \in S!RequestNack(q[2], TRUE) : f.type = "NACK"
    BY DEF S!RequestNack, S!EncodeNack, S!Written
  <2> QED
    BY <2>2, <2>3 DEF FrameKept
<1>6. ASSUME NEW r \in ReceiverIds, NEW q \in net, ReceiverHears(r, q)
      PROVE  p \in net \/ FrameKept(p[2])
  <2>1. net' \subseteq net \cup To(q[2].sender_id, R!RequestFrames(r, q[2]))
    BY <1>6 DEF ReceiverHears, Exchange
  <2>2. p \in net \/ p[2] \in R!RequestFrames(r, q[2])
    BY <2>1, Sent
  <2>3. \A f \in R!RequestFrames(r, q[2]) : f.type = "REQUEST"
    BY DEF R!RequestFrames, R!EncodeRequest, R!Written
  <2> QED
    BY <2>2, <2>3 DEF FrameKept
<1>7. ASSUME NEW r \in ReceiverIds, NEW q \in net, NEW ok, NEW room,
             ReceiverGets(r, q, ok, room)
      PROVE  p \in net
  BY <1>1, <1>7 DEF ReceiverGets, Exchange
<1>8. CASE Lose \/ UNCHANGED net
  BY <1>1, <1>8 DEF Lose
<1> QED
  BY <1>2, <1>3, <1>4, <1>5, <1>6, <1>7, <1>8
  DEF Next, SenderStep, ReceiverStep, Receives, Hears, Register, Revive, Enqueue,
      PollFail, PollIdle, Tick, Store, Crash, vars

LEMMA NetKeptStep ==
  ASSUME MaxOpId <= UINT32_MAX, StoreFirst, LineInv, [Next]_vars
  PROVE  NetKept'
<1>1. LineTyped' /\ Advances
  BY LineStep, AgreedStep DEF LineInv
<1>2. ASSUME NEW p \in net' PROVE FrameKept(p[2])'
  <2>1. FrameTyped(p[2])
    BY <1>1 DEF LineTyped, NetTyped, FrameTyped
  <2>2. FrameKept(p[2])
    BY SentIsKept DEF LineInv, NetKept
  <2> QED
    BY <1>1, <2>1, <2>2, FrameStays
<1> QED
  BY <1>2 DEF NetKept

-----------------------------------------------------------------------------
(* The datasets. *)

\* What the theorems about the receivers assume of the frames of a fixed set
\* holds of the empty one.
LEMMA NoDataFrames ==
  \A f \in {} :
    /\ f.op_id \in RP!OpIds /\ f.value \in Nat
    /\ RP!Trusts(f) /\ f.stream_id = StreamId /\ RP!Decodable(f) =>
         f.op_type = Content[f.op_id].op_type /\ f.value = Content[f.op_id].value
OBVIOUS

LEMMA StreamFacts ==
  /\ R!StreamDataset[0] = {}
  /\ \A n \in Nat :
       R!StreamDataset[n + 1] = R!ApplyNum8(Content[n + 1], R!StreamDataset[n])
<1>1. /\ RP!StreamDataset[0] = {}
      /\ \A n \in Nat :
           RP!StreamDataset[n + 1] = RP!ApplyNum8(Content[n + 1], RP!StreamDataset[n])
  BY RP!StreamDatasetDef, NoDataFrames, WidthAssumption
<1>2. R!StreamDataset = RP!StreamDataset
  BY DEF R!StreamDataset, RP!StreamDataset, R!ApplyNum8, RP!ApplyNum8
<1>3. \A op, values : R!ApplyNum8(op, values) = RP!ApplyNum8(op, values)
  BY DEF R!ApplyNum8, RP!ApplyNum8
<1> QED
  BY <1>1, <1>2, <1>3

\* Once or twice makes no difference: a repeated operation is harmless.
LEMMA AppliedTwice ==
  ASSUME NEW op, NEW values
  PROVE  R!ApplyNum8(op, R!ApplyNum8(op, values)) = R!ApplyNum8(op, values)
BY DEF R!ApplyNum8

LEMMA DataStep ==
  ASSUME LineInv, [Next]_vars
  PROVE  DataKept'
<1>1. /\ Acked \in [ReceiverIds -> Nat] /\ stored \in [ReceiverIds -> Nat]
      /\ last_applied_op_id \in [ReceiverIds -> Nat]
      /\ dataset \in [ReceiverIds -> SUBSET (0..MAX_VALUE)]
      /\ faults \in Nat /\ DataKept /\ Agreed
  BY LineNumbers DEF LineInv, LineTyped, ReceiversTyped
<1>2. faults' \in Nat /\ (faults > 0 => faults' > 0)
  <2>1. CASE Next
    <3>1. Fault \/ NoFault
      BY <2>1
      DEF Next, SenderStep, ReceiverStep, Receives, SenderReceives, Hears, ReceiverHears,
          ReceiverGets, Register, Revive, Enqueue, PollSend, PollFail, PollIdle, Beacon,
          Tick, Lose, Store, Reply, Crash
    <3> QED
      BY <1>1, <3>1 DEF Fault, NoFault
  <2>2. CASE UNCHANGED vars
    BY <1>1, <2>2 DEF vars
  <2> QED
    BY <2>1, <2>2
<1>3. ASSUME NEW q \in ReceiverIds, stored'[q] = stored[q], dataset'[q] = dataset[q],
             last_applied_op_id'[q] = last_applied_op_id[q]
      PROVE  \/ dataset'[q] = R!StreamDataset[last_applied_op_id'[q]]
             \/ /\ faults' > 0 /\ stored'[q] = last_applied_op_id'[q]
                /\ dataset'[q] = R!StreamDataset[last_applied_op_id'[q] + 1]
  BY <1>1, <1>2, <1>3 DEF DataKept
<1>4. CASE UNCHANGED <<receiverVars, stored, outbox>>
  BY <1>3, <1>4 DEF receiverVars, DataKept
<1>5. ASSUME NEW r \in ReceiverIds, NEW p \in net, NEW ok, NEW room,
             ReceiverGets(r, p, ok, room)
      PROVE  DataKept'
  <2> DEFINE f == p[2]
             n == last_applied_op_id[r]
  <2>1. R!HandleData(r, f, ok, room) /\ UNCHANGED stored
    BY <1>5 DEF ReceiverGets
  <2>2. CASE R!Verdict(r, f, ok, room) = "APPLIED"
    <3>1. /\ f.op_id = n + 1 /\ f.op_type = Content[f.op_id].op_type
          /\ f.value = Content[f.op_id].value
      BY <2>2, AppliesNext
    <3>2. /\ last_applied_op_id' = [last_applied_op_id EXCEPT ![r] = f.op_id]
          /\ dataset' = [dataset EXCEPT ![r] = R!ApplyNum8(f, @)]
      BY <2>1, <2>2 DEF R!HandleData
    <3> HIDE DEF f
    <3>3. /\ last_applied_op_id'[r] = n + 1 /\ n \in Nat
          /\ dataset'[r] = R!ApplyNum8(Content[n + 1], dataset[r])
      <4>1. /\ last_applied_op_id'[r] = n + 1 /\ n \in Nat
            /\ dataset'[r] = R!ApplyNum8(f, dataset[r])
        BY <1>1, <3>1, <3>2
      <4>2. R!ApplyNum8(f, dataset[r]) = R!ApplyNum8(Content[n + 1], dataset[r])
        BY <3>1 DEF R!ApplyNum8
      <4> QED
        BY <4>1, <4>2
    <3>4. R!StreamDataset[n + 1] = R!ApplyNum8(Content[n + 1], R!StreamDataset[n])
      BY <3>3, StreamFacts
    <3>5. dataset[r] = R!StreamDataset[n] \/ dataset[r] = R!StreamDataset[n + 1]
      BY <1>1 DEF DataKept
    <3> HIDE DEF n
    <3>6. dataset'[r] = R!StreamDataset[last_applied_op_id'[r]]
      BY <3>3, <3>4, <3>5, AppliedTwice
    <3>7. \A q \in ReceiverIds \ {r} :
            /\ dataset'[q] = dataset[q]
            /\ last_applied_op_id'[q] = last_applied_op_id[q]
      BY <1>1, <3>2
    <3> QED
      BY <1>3, <2>1, <3>6, <3>7 DEF DataKept
  <2>3. CASE R!Verdict(r, f, ok, room) # "APPLIED"
    BY <1>3, <2>1, <2>3 DEF R!HandleData, R!vars, DataKept
  <2> QED
    BY <2>2, <2>3
<1>6. ASSUME NEW r \in ReceiverIds, Store(r)
      PROVE  DataKept'
  <2>1. /\ stored[r] # last_applied_op_id[r] /\ UNCHANGED receiverVars
        /\ \A q \in ReceiverIds \ {r} : stored'[q] = stored[q]
    BY <1>1, <1>6 DEF Store
  <2>2. dataset'[r] = R!StreamDataset[last_applied_op_id'[r]]
    BY <1>1, <2>1 DEF DataKept, receiverVars
  <2> QED
    BY <1>3, <2>1, <2>2 DEF DataKept, receiverVars
<1>7. ASSUME NEW r \in ReceiverIds, Crash(r)
      PROVE  DataKept'
  <2>1. /\ UNCHANGED <<stored, dataset>> /\ faults' = faults + 1
        /\ last_applied_op_id'[r] = stored[r]
        /\ \A q \in ReceiverIds \ {r} : last_applied_op_id'[q] = last_applied_op_id[q]
    BY <1>1, <1>7 DEF Crash, Fault
  <2>2. CASE stored[r] = last_applied_op_id[r]
    BY <1>3, <2>1, <2>2 DEF DataKept
  <2>3. CASE stored[r] # last_applied_op_id[r]
    <3>1. dataset[r] = R!StreamDataset[last_applied_op_id[r]]
      BY <1>1, <2>3 DEF DataKept
    <3>2. last_applied_op_id[r] = stored[r] + 1
      <4>1. /\ Acked[r] \in Nat /\ stored[r] \in Nat /\ last_applied_op_id[r] \in Nat
            /\ Acked[r] <= stored[r] /\ stored[r] <= last_applied_op_id[r]
            /\ last_applied_op_id[r] <= Acked[r] + 1
        BY <1>1 DEF Agreed
      <4> QED
        BY <2>3, <4>1
    <3>3. /\ faults' > 0 /\ stored'[r] = last_applied_op_id'[r]
          /\ dataset'[r] = R!StreamDataset[last_applied_op_id'[r] + 1]
      BY <1>1, <2>1, <3>1, <3>2
    <3> QED
      BY <1>3, <2>1, <3>3 DEF DataKept
  <2> QED
    BY <2>2, <2>3
<1>8. ASSUME NEW r \in ReceiverIds, Reply(r)
      PROVE  DataKept'
  BY <1>3, <1>8 DEF Reply, receiverVars, DataKept
<1> QED
  BY <1>4, <1>5, <1>6, <1>7, <1>8, ReceiversDo

-----------------------------------------------------------------------------
(* The invariant. *)

LEMMA LineInvInit == ASSUME Init PROVE LineInv
<1> USE SenderAssumed, WidthAssumption
<1>1. LineTyped
  BY LineInit
<1>2. SP!Init /\ SP!SenderInv
  BY SenderState, SP!SenderInit DEF Init
<1>3. /\ \A r \in ReceiverIds :
            last_applied_op_id[r] = 0 /\ stored[r] = 0 /\ dataset[r] = {}
            /\ outbox[r] = {}
      /\ net = {}
  BY DEF Init, R!Init
<1>4. \A i \in SP!Slots : receivers[i].active = 0
  BY <1>2 DEF SP!Init, SP!ZeroSlot
<1>5. Joined = {} /\ \A r \in ReceiverIds : Acked[r] = 0
  BY <1>4 DEF Joined, JoinedIn, Acked, AckedIn, SP!ActiveSlots, ServedBy
<1>6. SP!Behind(log, receivers)
  BY <1>4 DEF SP!Behind, SP!ActiveSlots
<1>7. Streams(log)
  <2>1. ASSUME NEW n \in OpIds PROVE ~SP!Retained(log, n)
    BY <1>2 DEF SP!Init, SP!Retained, OpIds
  <2> QED
    BY <2>1 DEF Streams
<1>8. DataKept
  BY <1>3, StreamFacts DEF DataKept
<1> QED
  BY <1>1, <1>2, <1>3, <1>5, <1>6, <1>7, <1>8
  DEF LineInv, SenderKept, Agreed, AnswersKept, NetKept

LEMMA LineInvStep ==
  ASSUME MaxOpId <= UINT32_MAX, StoreFirst, LineInv, [Next]_vars
  PROVE  LineInv'
BY LineStep, SenderStepKept, AgreedStep, AnswersStep, NetKeptStep, DataStep DEF LineInv

LEMMA LineInvHolds ==
  ASSUME MaxOpId <= UINT32_MAX, StoreFirst PROVE Spec => []LineInv
<1>1. Init => LineInv
  BY LineInvInit
<1>2. LineInv /\ [Next]_vars => LineInv'
  BY LineInvStep
<1> QED
  BY <1>1, <1>2, PTL DEF Spec

LEMMA ServedSlot ==
  ASSUME LineInv, NEW r \in ReceiverIds, NEW i \in S!Slots, Serving(r, i)
  PROVE  /\ r \in Joined /\ Acked[r] = receivers[i].last_acked_op_id
         /\ i \in SP!ActiveSlots(receivers)
<1>1. Table(receivers) /\ i \in SP!Slots
  BY SenderTable, SenderState DEF LineInv, LineTyped
<1>2. ServedBy(receivers, r, i)
  BY DEF Serving, ServedBy
<1> QED
  BY <1>1, <1>2, TableFacts DEF Joined, Acked, ServedBy, SP!ActiveSlots

\* As long as the op_ids do not wrap and the application stores before it
\* answers: whatever is lost, repeated or late and whoever crashes, what the
\* sender counts as acknowledged is stored at that receiver, which is at most the
\* one operation in flight ahead.
THEOREM AcknowledgedIsStored ==
  ASSUME MaxOpId <= UINT32_MAX, StoreFirst PROVE Spec => []AckedIsStored
<1>1. LineInv => AckedIsStored
  <2> SUFFICES ASSUME LineInv, NEW r \in ReceiverIds, NEW i \in S!Slots, Serving(r, i)
               PROVE  /\ receivers[i].last_acked_op_id <= stored[r]
                      /\ stored[r] <= last_applied_op_id[r]
                      /\ last_applied_op_id[r] <= receivers[i].last_acked_op_id + 1
    BY DEF AckedIsStored
  <2> QED
    BY ServedSlot DEF LineInv, Agreed
<1> QED
  BY LineInvHolds, <1>1, PTL

\* Under the same assumptions the log always has the next operation of every
\* registered receiver that is behind.
THEOREM NextOpIsAvailable ==
  ASSUME MaxOpId <= UINT32_MAX, StoreFirst PROVE Spec => []NextOpAvailable
<1>1. LineInv => NextOpAvailable
  <2> SUFFICES ASSUME LineInv, NEW r \in ReceiverIds, NEW i \in S!Slots, Serving(r, i),
                      last_applied_op_id[r] < log.latest_op_id
               PROVE  S!Retained(log, last_applied_op_id[r] + 1)
    BY DEF NextOpAvailable
  <2> USE SenderAssumed, WidthAssumption
  <2>1. /\ Acked[r] \in Nat /\ last_applied_op_id[r] \in Nat
        /\ log.latest_op_id \in Nat /\ SP!GoodLog(log)
    BY LineNumbers DEF LineInv, SenderKept, SP!SenderInv
  <2>2. log.oldest_retained_op_id \in Nat
    BY <2>1, SP!GoodLogTyped
  <2>3. /\ log.oldest_retained_op_id <= Acked[r] + 1
        /\ Acked[r] <= last_applied_op_id[r]
    <3>1. log.oldest_retained_op_id <= Acked[r] + 1
      BY ServedSlot DEF LineInv, SenderKept, SP!Behind
    <3>2. Acked[r] <= stored[r] /\ stored[r] <= last_applied_op_id[r]
          /\ stored[r] \in Nat
      BY LineNumbers DEF LineInv, Agreed
    <3> QED
      BY <2>1, <3>1, <3>2
  <2>4. SP!Retained(log, last_applied_op_id[r] + 1)
    BY <2>1, <2>2, <2>3, SP!RetainedWindow
  <2> QED
    BY <2>4, SenderState
<1> QED
  BY LineInvHolds, <1>1, PTL

\* Under the same assumptions every receiver holds the dataset of the stream after
\* what it reports, or one operation more after a crash, never a gap.
THEOREM DatasetsAreStreams ==
  ASSUME MaxOpId <= UINT32_MAX, StoreFirst PROVE Spec => []DatasetIsPrefix
<1>1. LineInv => DatasetIsPrefix
  BY DEF LineInv, DataKept, DatasetIsPrefix
<1> QED
  BY LineInvHolds, <1>1, PTL

-----------------------------------------------------------------------------
(* The line implements Num8Delivery. *)

\* The actions of Num8Delivery, in the terms used here
LEMMA DeliveryActions ==
  /\ Delivery!Init <=>
       /\ log.latest_op_id = 0 /\ Joined = {}
       /\ last_applied_op_id = [r \in ReceiverIds |-> 0]
       /\ Acked = last_applied_op_id
  /\ Delivery!Publish <=>
       /\ \A r \in Joined : log.latest_op_id - Acked[r] < OpCapacity
       /\ log'.latest_op_id = log.latest_op_id + 1
       /\ Joined' = Joined /\ UNCHANGED last_applied_op_id /\ Acked' = Acked
  /\ \A r : Delivery!Join(r) <=>
       /\ log.latest_op_id - Acked[r] <= OpCapacity
       /\ Joined' = Joined \cup {r}
       /\ log'.latest_op_id = log.latest_op_id
       /\ UNCHANGED last_applied_op_id /\ Acked' = Acked
  /\ \A r : Delivery!Apply(r) <=>
       /\ r \in Joined
       /\ last_applied_op_id[r] = Acked[r] /\ last_applied_op_id[r] < log.latest_op_id
       /\ last_applied_op_id' = [last_applied_op_id EXCEPT ![r] = @ + 1]
       /\ log'.latest_op_id = log.latest_op_id
       /\ Joined' = Joined /\ Acked' = Acked
  /\ \A r : Delivery!Acknowledge(r) <=>
       /\ Acked[r] < last_applied_op_id[r]
       /\ Acked' = [Acked EXCEPT ![r] = @ + 1]
       /\ log'.latest_op_id = log.latest_op_id
       /\ Joined' = Joined /\ UNCHANGED last_applied_op_id
  /\ \A r : Delivery!Crash(r) <=>
       /\ last_applied_op_id' = [last_applied_op_id EXCEPT ![r] = Acked[r]]
       /\ log'.latest_op_id = log.latest_op_id
       /\ Joined' = Joined /\ Acked' = Acked
  /\ UNCHANGED Delivery!vars <=>
       /\ log'.latest_op_id = log.latest_op_id
       /\ Joined' = Joined /\ UNCHANGED last_applied_op_id /\ Acked' = Acked
<1> USE DEF Joined, JoinedIn, Acked, AckedIn, ServedBy, Serving, S!Slots, SP!Slots,
            S!ActiveSlots, SP!ActiveSlots
<1>1. Delivery!Init <=>
       /\ log.latest_op_id = 0 /\ Joined = {}
       /\ last_applied_op_id = [r \in ReceiverIds |-> 0]
       /\ Acked = last_applied_op_id
  BY DEF Delivery!Init
<1>2. Delivery!Publish <=>
       /\ \A r \in Joined : log.latest_op_id - Acked[r] < OpCapacity
       /\ log'.latest_op_id = log.latest_op_id + 1
       /\ Joined' = Joined /\ UNCHANGED last_applied_op_id /\ Acked' = Acked
  BY DEF Delivery!Publish
<1>3. \A r : Delivery!Join(r) <=>
       /\ log.latest_op_id - Acked[r] <= OpCapacity
       /\ Joined' = Joined \cup {r}
       /\ log'.latest_op_id = log.latest_op_id
       /\ UNCHANGED last_applied_op_id /\ Acked' = Acked
  BY DEF Delivery!Join
<1>4. \A r : Delivery!Apply(r) <=>
       /\ r \in Joined
       /\ last_applied_op_id[r] = Acked[r] /\ last_applied_op_id[r] < log.latest_op_id
       /\ last_applied_op_id' = [last_applied_op_id EXCEPT ![r] = @ + 1]
       /\ log'.latest_op_id = log.latest_op_id
       /\ Joined' = Joined /\ Acked' = Acked
  BY DEF Delivery!Apply
<1>5. \A r : Delivery!Acknowledge(r) <=>
       /\ Acked[r] < last_applied_op_id[r]
       /\ Acked' = [Acked EXCEPT ![r] = @ + 1]
       /\ log'.latest_op_id = log.latest_op_id
       /\ Joined' = Joined /\ UNCHANGED last_applied_op_id
  BY DEF Delivery!Acknowledge
<1>6. \A r : Delivery!Crash(r) <=>
       /\ last_applied_op_id' = [last_applied_op_id EXCEPT ![r] = Acked[r]]
       /\ log'.latest_op_id = log.latest_op_id
       /\ Joined' = Joined /\ Acked' = Acked
  BY DEF Delivery!Crash
<1>7. UNCHANGED Delivery!vars <=>
       /\ log'.latest_op_id = log.latest_op_id
       /\ Joined' = Joined /\ UNCHANGED last_applied_op_id /\ Acked' = Acked
  BY DEF Delivery!vars
<1> QED
  BY <1>1, <1>2, <1>3, <1>4, <1>5, <1>6, <1>7

\* A receiver's steps are those of an abstract reader, or none of its business.
LEMMA ReaderStep ==
  ASSUME LineInv, [Next]_vars, Joined' = Joined, Acked' = Acked,
         log'.latest_op_id = log.latest_op_id
  PROVE  [Delivery!Next]_(Delivery!vars)
<1>1. /\ Acked \in [ReceiverIds -> Nat] /\ stored \in [ReceiverIds -> Nat]
      /\ last_applied_op_id \in [ReceiverIds -> Nat] /\ log.latest_op_id \in Nat
  BY LineNumbers DEF LineInv
<1>2. CASE UNCHANGED last_applied_op_id
  BY <1>2, DeliveryActions
<1>3. ASSUME NEW r \in ReceiverIds, NEW p \in net, NEW ok, NEW room,
             ReceiverGets(r, p, ok, room)
      PROVE  UNCHANGED last_applied_op_id \/ Delivery!Apply(r)
  <2>1. R!HandleData(r, p[2], ok, room)
    BY <1>3 DEF ReceiverGets
  <2>2. CASE R!Verdict(r, p[2], ok, room) = "APPLIED"
    <3>1. /\ r \in Joined /\ p[2].op_id = last_applied_op_id[r] + 1
          /\ p[2].op_id <= log.latest_op_id /\ last_applied_op_id[r] = Acked[r]
      BY <2>2, AppliesNext
    <3>2. last_applied_op_id' = [last_applied_op_id EXCEPT ![r] = @ + 1]
      BY <2>1, <2>2, <3>1 DEF R!HandleData
    <3>3. last_applied_op_id[r] < log.latest_op_id
      BY <1>1, <3>1
    <3> QED
      BY <3>1, <3>2, <3>3, DeliveryActions
  <2>3. CASE R!Verdict(r, p[2], ok, room) # "APPLIED"
    BY <2>1, <2>3 DEF R!HandleData, R!vars
  <2> QED
    BY <2>2, <2>3
<1>4. ASSUME NEW r \in ReceiverIds, Crash(r)
      PROVE  UNCHANGED last_applied_op_id \/ Delivery!Crash(r)
  <2>1. last_applied_op_id' = [last_applied_op_id EXCEPT ![r] = stored[r]]
    BY <1>4 DEF Crash
  <2>2. /\ Acked[r] \in Nat /\ stored[r] \in Nat /\ last_applied_op_id[r] \in Nat
        /\ Acked[r] <= stored[r] /\ stored[r] <= last_applied_op_id[r]
        /\ last_applied_op_id[r] <= Acked[r] + 1
    BY <1>1 DEF LineInv, Agreed
  <2>3. CASE stored[r] = last_applied_op_id[r]
    BY <1>1, <2>1, <2>3
  <2>4. CASE stored[r] = Acked[r]
    BY <2>1, <2>4, DeliveryActions
  <2> QED
    BY <2>2, <2>3, <2>4
<1>5. ASSUME NEW r \in ReceiverIds, Store(r) \/ Reply(r)
      PROVE  UNCHANGED last_applied_op_id
  BY <1>5 DEF Store, Reply, receiverVars
<1>6. CASE UNCHANGED <<receiverVars, stored, outbox>>
  BY <1>2, <1>6 DEF receiverVars
<1> QED
  BY <1>2, <1>3, <1>4, <1>5, <1>6, ReceiversDo DEF Delivery!Next

LEMMA DeliveryStep ==
  ASSUME MaxOpId <= UINT32_MAX, StoreFirst, LineInv, [Next]_vars
  PROVE  [Delivery!Next]_(Delivery!vars)
<1> USE SenderAssumed, WidthAssumption
<1>1. LineTyped /\ SenderKept
  BY DEF LineInv
<1>2. CASE Quietly
  BY <1>1, <1>2, SenderQuiet, ReaderStep
<1>3. ASSUME NEW r \in ReceiverIds, Register(r)
      PROVE  [Delivery!Next]_(Delivery!vars)
  <2>1. /\ SenderKept' /\ log'.latest_op_id = log.latest_op_id
        /\ \/ Joined' = Joined /\ Acked' = Acked
           \/ /\ r \notin Joined /\ Joined' = Joined \cup {r}
              /\ Acked' = [Acked EXCEPT ![r] = stored[r]]
              /\ log'.oldest_retained_op_id <= stored[r] + 1
    BY <1>1, <1>3, SenderRegisters
  <2>2. CASE Joined' = Joined /\ Acked' = Acked
    BY <2>1, <2>2, ReaderStep
  <2>3. CASE /\ r \notin Joined /\ Joined' = Joined \cup {r}
             /\ Acked' = [Acked EXCEPT ![r] = stored[r]]
             /\ log'.oldest_retained_op_id <= stored[r] + 1
    <3>1. stored[r] = 0 /\ Acked[r] = 0 /\ Acked' = Acked
      BY <2>3, RegistersAtZero
    <3>2. SP!GoodLog(log')
      BY <2>1 DEF SenderKept, SP!SenderInv
    <3>3. /\ log'.oldest_retained_op_id \in Nat /\ log'.op_count \in Nat
          /\ log'.oldest_retained_op_id + log'.op_count = log'.latest_op_id + 1
          /\ log'.op_count <= OpCapacity /\ log'.latest_op_id \in Nat
      BY <3>2, SP!GoodLogTyped DEF SP!GoodLog, SP!Ring
    <3>4. log.latest_op_id - Acked[r] <= OpCapacity
      BY <2>1, <2>3, <3>1, <3>3, AsyncAssumption
    <3>5. UNCHANGED last_applied_op_id
      BY <1>3 DEF Register, receiverVars
    <3>6. Delivery!Join(r)
      BY <2>1, <2>3, <3>1, <3>4, <3>5, DeliveryActions
    <3> QED
      BY <3>6 DEF Delivery!Next
  <2> QED
    BY <2>1, <2>2, <2>3
<1>4. CASE Enqueue
  <2>1. /\ Joined' = Joined /\ Acked' = Acked
        /\ \/ log'.latest_op_id = log.latest_op_id
           \/ /\ log'.latest_op_id = log.latest_op_id + 1
              /\ \A r \in Joined : log.latest_op_id - Acked[r] < OpCapacity
    BY <1>1, <1>4, SenderEnqueues
  <2>2. UNCHANGED last_applied_op_id
    BY <1>4 DEF Enqueue, receiverVars
  <2>3. UNCHANGED Delivery!vars \/ Delivery!Publish
    BY <2>1, <2>2, DeliveryActions
  <2> QED
    BY <2>3 DEF Delivery!Next
<1>5. ASSUME NEW p \in net, SenderReceives(p), SP!HandleRxAck(p[2])
      PROVE  [Delivery!Next]_(Delivery!vars)
  <2>1. PICK r \in ReceiverIds :
          /\ Acked[r] < stored[r] /\ Joined' = Joined
          /\ Acked' = [Acked EXCEPT ![r] = @ + 1]
          /\ log'.latest_op_id = log.latest_op_id
          /\ UNCHANGED <<receiverVars, stored, outbox>>
    BY <1>5, AckIsStored
  <2>2. Acked[r] < last_applied_op_id[r]
    <3>1. /\ Acked[r] \in Nat /\ stored[r] \in Nat /\ last_applied_op_id[r] \in Nat
          /\ stored[r] <= last_applied_op_id[r]
      BY LineNumbers DEF LineInv, Agreed
    <3> QED
      BY <2>1, <3>1
  <2>3. Delivery!Acknowledge(r)
    BY <2>1, <2>2, DeliveryActions DEF receiverVars
  <2> QED
    BY <2>3 DEF Delivery!Next
<1> QED
  BY <1>1, <1>2, <1>3, <1>4, <1>5, SenderDoes

\* Under the same assumptions the line is a bounded buffer with many readers:
\* every step of the whole line is one of Num8Delivery or invisible to it.
THEOREM DeliveryImplemented ==
  ASSUME MaxOpId <= UINT32_MAX, StoreFirst PROVE Spec => DeliveryKept
<1>1. Init => Delivery!Init
  <2> SUFFICES ASSUME Init PROVE Delivery!Init
    OBVIOUS
  <2>1. SP!Init /\ R!Init
    BY SenderState DEF Init
  <2>2. log.latest_op_id = 0 /\ \A i \in SP!Slots : receivers[i].active = 0
    BY <2>1 DEF SP!Init, SP!ZeroSlot
  <2>3. Joined = {} /\ Acked = [r \in ReceiverIds |-> 0]
    BY <2>2 DEF Joined, JoinedIn, Acked, AckedIn, SP!ActiveSlots, ServedBy
  <2> QED
    BY <2>1, <2>2, <2>3, DeliveryActions DEF R!Init
<1>2. LineInv /\ [Next]_vars => [Delivery!Next]_(Delivery!vars)
  BY DeliveryStep
<1> QED
  BY <1>1, <1>2, LineInvHolds, PTL DEF Spec, DeliveryKept, Delivery!Spec
=============================================================================
