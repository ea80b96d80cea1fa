----------------------------- MODULE Num8Sender -----------------------------
(***************************************************************************)
(* The asynchronous sender (src/src/num8lora_sender.c): a bounded log of   *)
(* operations in a ring buffer, one slot of delivery state per receiver,   *)
(* and a round-robin scheduler that keeps one operation in flight per      *)
(* receiver.  Every public call is one action; calls that are refused      *)
(* before they change anything are stuttering and have no disjunct.        *)
(* uint8_t flags are 0 or 1 as in the code.                                *)
(*                                                                         *)
(* A definition whose comment begins "Slip:" is not the code.  It is the   *)
(* following definition with a mistake in it that the code could have had, *)
(* kept to show that a property notices.                                   *)
(***************************************************************************)
EXTENDS Num8Op, Sequences, FiniteSets, FiniteSetsExt

CONSTANTS
  SenderId, StreamId,       \* identity given to num8lora_sender_init
  OpCapacity,               \* ops_capacity
  ReceiverCapacity,         \* receiver_capacity
  AckTimeout, MaxRetries,   \* ack_timeout_ms, max_retries
  UINT16_MAX, UINT64_MAX,   \* widths of seq and of a time in ms
  ReceiverIds,              \* ids the application registers
  Progress,                 \* values of last_acked_op_id it passes
  Values,                   \* values it enqueues, invalid ones included
  RxFrames,                 \* frames the transport may hand to the sender
  MaxOpId                   \* bound: no operation is enqueued past this id

ASSUME SenderAssumption ==
  /\ OpCapacity \in Nat /\ ReceiverCapacity \in Nat
  /\ AckTimeout \in Nat /\ MaxRetries \in Nat
  /\ UINT16_MAX \in Nat \ {0} /\ UINT64_MAX \in Nat /\ MaxOpId \in Nat
  /\ NoId \notin ReceiverIds
  /\ Progress \subseteq OpIds /\ Values \subseteq Nat
  /\ \A f \in RxFrames : f.op_id \in OpIds

VARIABLES
  seq,          \* next frame sequence number
  log,          \* the retained operations: the op_* fields of the sender
  receivers,    \* the receiver slots
  poll_cursor,  \* slot poll_tx looks at first
  now           \* the now_ms the application passes next

vars == <<seq, log, receivers, poll_cursor, now>>

Slots == 0 .. ReceiverCapacity - 1
Flag == {0, 1}

Op == [op_id : OpIds, op_type : OpTypes \cup {"NONE"}, value : Nat]
Log == [latest_op_id : OpIds, oldest_retained_op_id : OpIds,
        op_head : Nat, op_count : Nat, ops : [0 .. OpCapacity - 1 -> Op]]
Slot == [active : Flag, receiver_id : ReceiverIds \cup {NoId},
         last_acked_op_id : OpIds, inflight_op_id : OpIds,
         due_at_ms : 0..UINT64_MAX, waiting_ack : Flag,
         retries : 0..MaxRetries, exhausted : Flag]

ZeroOp == [op_id |-> 0, op_type |-> "NONE", value |-> 0]
ZeroSlot == [active |-> 0, receiver_id |-> NoId, last_acked_op_id |-> 0,
             inflight_op_id |-> 0, due_at_ms |-> 0, waiting_ack |-> 0,
             retries |-> 0, exhausted |-> 0]

Init ==
  /\ seq = 1
  /\ log = [latest_op_id |-> 0, oldest_retained_op_id |-> 1, op_head |-> 0,
            op_count |-> 0, ops |-> [i \in 0 .. OpCapacity - 1 |-> ZeroOp]]
  /\ receivers = [i \in Slots |-> ZeroSlot]
  /\ poll_cursor = 0
  /\ now = 0

-----------------------------------------------------------------------------
(* The log.  lg is a log and rs a slot table, old or new. *)

ActiveSlots(rs) == {i \in Slots : rs[i].active = 1}
Needs(sl) == Inc32(sl.last_acked_op_id)

\* Slip: exhausted receivers no longer hold the log back
ActiveFloorSkippingExhausted(lg, rs) ==
  Min({Inc32(lg.latest_op_id)}
      \cup {Needs(rs[i]) : i \in {j \in ActiveSlots(rs) : rs[j].exhausted = 0}})

\* Slip: an operation in flight counts as acknowledged
ActiveFloorPastInflight(lg, rs) ==
  Min({Inc32(lg.latest_op_id)}
      \cup {IF rs[i].waiting_ack = 1 THEN Inc32(rs[i].inflight_op_id)
            ELSE Needs(rs[i]) : i \in ActiveSlots(rs)})

ActiveFloor(lg, rs) ==
  Min({Inc32(lg.latest_op_id)} \cup {Needs(rs[i]) : i \in ActiveSlots(rs)})

\* Slip: the head stays where it was
ReclaimKeepingHead(lg, rs) ==
  LET floor == ActiveFloor(lg, rs)
      drop == Min({floor - lg.oldest_retained_op_id, lg.op_count})
  IN  IF floor <= lg.oldest_retained_op_id THEN lg
      ELSE [lg EXCEPT !.oldest_retained_op_id = floor,
                      !.op_count = lg.op_count - drop]

\* Forget what every active receiver has acknowledged.  (The cap of the floor
\* at latest_op_id + 1 is not repeated: ActiveFloor starts from that value.)
Reclaim(lg, rs) ==
  LET floor == ActiveFloor(lg, rs)
      drop == Min({floor - lg.oldest_retained_op_id, lg.op_count})
      count == lg.op_count - drop
  IN  IF floor <= lg.oldest_retained_op_id THEN lg
      ELSE [lg EXCEPT !.oldest_retained_op_id = floor,
                      !.op_count = count,
                      !.op_head = IF count = 0 THEN 0
                                  ELSE (lg.op_head + drop) % OpCapacity]

\* find_op finds the operation ...
Retained(lg, op_id) ==
  /\ lg.oldest_retained_op_id <= op_id /\ op_id <= lg.latest_op_id
  /\ op_id - lg.oldest_retained_op_id < lg.op_count

\* ... here
OpAt(lg, op_id) ==
  lg.ops[(lg.op_head + (op_id - lg.oldest_retained_op_id)) % OpCapacity]

\* One more operation after the newest
AppendOp(lg, op_type, value) ==
  LET empty == lg.op_count = 0
      id == Inc32(lg.latest_op_id)
      head == IF empty THEN 0 ELSE lg.op_head
      at == (head + lg.op_count) % OpCapacity
  IN  [latest_op_id |-> id,
       oldest_retained_op_id |-> IF empty THEN id ELSE lg.oldest_retained_op_id,
       op_head |-> head,
       op_count |-> lg.op_count + 1,
       ops |-> [lg.ops EXCEPT ![at] = [op_id |-> id, op_type |-> op_type,
                                       value |-> value]]]

\* Slip: the ring is allowed one operation too many
EnqueueOpOverfull(lg, rs, op_type, value) ==
  LET r == Reclaim(lg, rs)
  IN  IF r.op_count > OpCapacity THEN r ELSE AppendOp(r, op_type, value)

\* enqueue_op: reclaim, then append unless the ring is still full
EnqueueOp(lg, rs, op_type, value) ==
  LET r == Reclaim(lg, rs)
  IN  IF r.op_count >= OpCapacity THEN r ELSE AppendOp(r, op_type, value)
-----------------------------------------------------------------------------
(* Calls of the application: the registry and the log. *)

\* find_slot: the first active slot of rid
FindSlot(rid, i) ==
  /\ receivers[i].active = 1 /\ receivers[i].receiver_id = rid
  /\ \A j \in 0 .. i - 1 :
       ~(receivers[j].active = 1 /\ receivers[j].receiver_id = rid)

Registered(rid) == \E i \in Slots : FindSlot(rid, i)
FreeSlots == Slots \ ActiveSlots(receivers)

\* Slip: the retries of the last attempt are left behind
ClearedButRetries(sl) == [sl EXCEPT !.waiting_ack = 0, !.inflight_op_id = 0,
                                    !.exhausted = 0]

\* Neither waiting nor exhausted: the reset shared by the registry and handle_rx
Cleared(sl) == [sl EXCEPT !.waiting_ack = 0, !.inflight_op_id = 0,
                          !.retries = 0, !.exhausted = 0]

\* Slot i becomes sl, and the history is reclaimed against the new table
SetSlotAndReclaim(i, sl) ==
  /\ receivers' = [receivers EXCEPT ![i] = sl]
  /\ log' = Reclaim(log, receivers')

\* The first free slot goes to rid; its other fields stay as they were left
TakeSlot(rid, last_acked_op_id) ==
  \E i \in FreeSlots :
    /\ \A j \in FreeSlots : i <= j
    /\ receivers' = [receivers EXCEPT
         ![i] = [@ EXCEPT !.active = 1, !.receiver_id = rid,
                          !.last_acked_op_id = last_acked_op_id,
                          !.exhausted = 0]]

\* Slip: a second registration is not recognised
RegisterReceiverAgain(rid, last_acked_op_id) ==
  /\ log' = Reclaim(log, receivers)
  /\ TakeSlot(rid, last_acked_op_id)
  /\ UNCHANGED <<seq, poll_cursor, now>>

RegisterReceiver(rid, last_acked_op_id) ==
  /\ rid # NoId
  /\ log' = Reclaim(log, receivers)
  /\ \/ /\ Registered(rid) \/ FreeSlots = {}
        /\ UNCHANGED receivers
     \/ ~Registered(rid) /\ TakeSlot(rid, last_acked_op_id)
  /\ UNCHANGED <<seq, poll_cursor, now>>

SetReceiverProgress(rid, last_acked_op_id) ==
  /\ \E i \in Slots :
       /\ FindSlot(rid, i)
       /\ SetSlotAndReclaim(i, [Cleared(receivers[i]) EXCEPT
                                  !.last_acked_op_id = last_acked_op_id])
  /\ UNCHANGED <<seq, poll_cursor, now>>

UnregisterReceiver(rid) ==
  /\ \E i \in Slots :
       /\ FindSlot(rid, i)
       /\ SetSlotAndReclaim(i, [Cleared(receivers[i]) EXCEPT !.active = 0])
  /\ UNCHANGED <<seq, poll_cursor, now>>

Enqueue(op_type, value) ==
  /\ value <= MAX_VALUE
  /\ log.latest_op_id < MaxOpId
  /\ log' = EnqueueOp(log, receivers, op_type, value)
  /\ UNCHANGED <<seq, receivers, poll_cursor, now>>

(***************************************************************************)
(* enqueue_lists with one or two values in all (the bound on its input):   *)
(* removes come before adds.  The capacity test looks at the log before    *)
(* anything is reclaimed.                                                  *)
(***************************************************************************)
EnqueueLists(removes, adds) ==
  LET batch == [k \in 1 .. Len(removes) |-> <<"REMOVE", removes[k]>>]
               \o [k \in 1 .. Len(adds) |-> <<"ADD", adds[k]>>]
      first == EnqueueOp(log, receivers, batch[1][1], batch[1][2])
  IN  /\ Len(batch) \in 1..2
      /\ Len(batch) <= OpCapacity - log.op_count
      /\ log.latest_op_id + Len(batch) <= UINT32_MAX
      /\ log.latest_op_id + Len(batch) <= MaxOpId
      /\ \A k \in 1 .. Len(batch) : batch[k][2] <= MAX_VALUE
      /\ log' = IF Len(batch) = 1 THEN first
                ELSE EnqueueOp(first, receivers, batch[2][1], batch[2][2])
      /\ UNCHANGED <<seq, receivers, poll_cursor, now>>
-----------------------------------------------------------------------------
(* num8lora_sender_poll_tx *)

DeadlineAfter(t) == Min({t + AckTimeout, UINT64_MAX})

Target(sl) == IF sl.waiting_ack = 1 THEN sl.inflight_op_id ELSE Needs(sl)

Due(sl) == sl.waiting_ack = 1 /\ sl.due_at_ms <= now

\* The slot's last attempt timed out
GivesUp(sl) == /\ sl.active = 1 /\ sl.exhausted = 0
               /\ Due(sl) /\ sl.retries >= MaxRetries

\* Slip: max_retries is not consulted
ServesForever(lg, sl) ==
  /\ sl.active = 1 /\ sl.exhausted = 0
  /\ IF sl.waiting_ack = 1 THEN Due(sl)
     ELSE lg.oldest_retained_op_id <= Needs(sl) /\ Needs(sl) <= lg.latest_op_id

\* The slot has an operation to send, or to send again
Serves(lg, sl) ==
  /\ sl.active = 1 /\ sl.exhausted = 0
  /\ IF sl.waiting_ack = 1 THEN Due(sl) /\ sl.retries < MaxRetries
     ELSE lg.oldest_retained_op_id <= Needs(sl) /\ Needs(sl) <= lg.latest_op_id

\* Slip: the scan always starts at the first slot
TurnFromZero(k) == k

\* The k-th slot of the scan
Turn(k) == (poll_cursor + k) % ReceiverCapacity

FirstToServe(lg, k) ==
  /\ Serves(lg, receivers[Turn(k)])
  /\ \A j \in 0 .. k - 1 : ~Serves(lg, receivers[Turn(j)])

\* The slots, after the first k were passed over
PassedOver(k) ==
  [i \in Slots |->
     IF GivesUp(receivers[i]) /\ \E j \in 0 .. k - 1 : i = Turn(j)
     THEN [Cleared(receivers[i]) EXCEPT !.exhausted = 1]
     ELSE receivers[i]]

\* The call reaches the encoder: emit_data found the operation and a number
CanEncode(lg, sl) == Retained(lg, Target(sl)) /\ seq # UINT16_MAX

\* What the encoder writes for the k-th slot of the scan
PollFrames(k, fits) ==
  LET lg == Reclaim(log, receivers)
      sl == receivers[Turn(k)]
  IN  IF CanEncode(lg, sl)
      THEN EncodeData(fits, SenderId, sl.receiver_id, StreamId,
                      OpAt(lg, Target(sl)))
      ELSE {}

PollSend(k) ==
  LET i == Turn(k)
      sl == receivers[i]
      retries == IF sl.waiting_ack = 1 THEN sl.retries + 1 ELSE 0
  IN  /\ FirstToServe(Reclaim(log, receivers), k)
      /\ PollFrames(k, TRUE) # {}
      /\ log' = Reclaim(log, receivers)
      /\ receivers' = [PassedOver(k) EXCEPT
           ![i] = [sl EXCEPT !.inflight_op_id = Target(sl), !.waiting_ack = 1,
                             !.exhausted = 0, !.retries = retries,
                             !.due_at_ms = DeadlineAfter(now)]]
      /\ seq' = seq + 1
      /\ poll_cursor' = (i + 1) % ReceiverCapacity
      /\ UNCHANGED now

\* No frame comes out: the call returns 0 at this slot, its retry already
\* counted and, when only the buffer was too small, its number used
PollFail(k, fits) ==
  LET sl == receivers[Turn(k)]
      lg == Reclaim(log, receivers)
  IN  /\ FirstToServe(lg, k)
      /\ PollFrames(k, fits) = {}
      /\ log' = lg
      /\ receivers' = [PassedOver(k) EXCEPT
           ![Turn(k)] = [sl EXCEPT !.retries =
              IF sl.waiting_ack = 1 THEN @ + 1 ELSE @]]
      /\ seq' = IF CanEncode(lg, sl) THEN seq + 1 ELSE seq
      /\ UNCHANGED <<poll_cursor, now>>

PollIdle ==
  /\ \A i \in Slots : ~Serves(Reclaim(log, receivers), receivers[i])
  /\ log' = Reclaim(log, receivers)
  /\ receivers' = PassedOver(ReceiverCapacity)
  /\ UNCHANGED <<seq, poll_cursor, now>>
-----------------------------------------------------------------------------
(* Frames in and beacons out. *)

\* What num8lora_sender_build_beacon writes; it changes nothing
BeaconFrames ==
  IF seq = UINT16_MAX THEN {}
  ELSE EncodeBeacon(TRUE, SenderId, StreamId, log.latest_op_id)

\* Slip: an answer counts for whoever is waiting, not for who sent it
AcceptsFromAnyone(f, type, i) ==
  /\ f.type = type /\ Decodable(f)
  /\ receivers[i].active = 1
  /\ f.receiver_id = SenderId /\ f.stream_id = StreamId

\* A frame of this stream for this sender, from the receiver in slot i
Accepts(f, type, i) ==
  /\ f.type = type /\ Decodable(f)
  /\ FindSlot(f.sender_id, i)
  /\ f.receiver_id = SenderId /\ f.stream_id = StreamId

\* The NACK num8lora_sender_handle_request answers with
RequestNack(f, fits) ==
  EncodeNack(fits, SenderId, f.sender_id, StreamId, "HISTORY_UNAVAILABLE",
             log.oldest_retained_op_id)

AsksReclaimed(f) ==
  /\ \E i \in Slots : Accepts(f, "REQUEST", i)
  /\ f.op_id < log.oldest_retained_op_id
  /\ seq # UINT16_MAX

\* The NACK uses up a number even when it does not fit
HandleRequest(f) ==
  /\ AsksReclaimed(f)
  /\ seq' = seq + 1
  /\ UNCHANGED <<log, receivers, poll_cursor, now>>

InWindow(f) ==
  log.oldest_retained_op_id <= f.op_id /\ f.op_id <= Inc32(log.latest_op_id)

\* Frames handle_rx acts on for slot i
TakesRequest(f, i) ==
  /\ Accepts(f, "REQUEST", i) /\ InWindow(f)
  /\ f.op_id = Needs(receivers[i]) /\ receivers[i].exhausted = 0
  /\ receivers[i].waiting_ack = 1 => receivers[i].inflight_op_id = f.op_id

\* Slip: any ACK counts for the operation in flight
AwaitsAny(sl, op_id) == sl.waiting_ack = 1 /\ sl.inflight_op_id # 0

Awaits(sl, op_id) ==
  sl.waiting_ack = 1 /\ sl.inflight_op_id # 0 /\ op_id = sl.inflight_op_id

TakesAck(f, i) == Accepts(f, "ACK", i) /\ Awaits(receivers[i], f.op_id)

TakesNack(f, i) ==
  Accepts(f, "NACK", i) /\ InWindow(f) /\ Awaits(receivers[i], f.op_id)

HandleRxRequest(f) ==
  /\ \E i \in Slots : /\ TakesRequest(f, i)
                      /\ receivers' = [receivers EXCEPT ![i].due_at_ms = now]
  /\ UNCHANGED <<seq, log, poll_cursor, now>>

HandleRxAck(f) ==
  /\ \E i \in Slots :
       /\ TakesAck(f, i)
       /\ SetSlotAndReclaim(i, [Cleared(receivers[i]) EXCEPT
                                  !.last_acked_op_id = f.op_id])
  /\ UNCHANGED <<seq, poll_cursor, now>>

HandleRxNack(f) ==
  /\ \E i \in Slots :
       /\ TakesNack(f, i)
       /\ SetSlotAndReclaim(i, [Cleared(receivers[i]) EXCEPT !.due_at_ms = now])
  /\ UNCHANGED <<seq, poll_cursor, now>>

\* Frames that change nothing
Ignores(f) ==
  /\ ~AsksReclaimed(f)
  /\ \A i \in Slots : ~TakesRequest(f, i) /\ ~TakesAck(f, i) /\ ~TakesNack(f, i)

HandleRx(f) == HandleRxRequest(f) \/ HandleRxAck(f) \/ HandleRxNack(f)

\* The application's clock
Tick ==
  /\ now < UINT64_MAX
  /\ now' = now + 1
  /\ UNCHANGED <<seq, log, receivers, poll_cursor>>

Poll ==
  \/ PollIdle
  \/ \E k \in Slots : PollSend(k)
  \/ \E k \in Slots, fits \in BOOLEAN : PollFail(k, fits)

\* Zero, one or two values
Lists == UNION {[1..n -> Values] : n \in 0..2}

Next ==
  \/ \E rid \in ReceiverIds, n \in Progress :
       RegisterReceiver(rid, n) \/ SetReceiverProgress(rid, n)
  \/ \E rid \in ReceiverIds : UnregisterReceiver(rid)
  \/ \E op_type \in OpTypes, v \in Values : Enqueue(op_type, v)
  \/ \E removes, adds \in Lists : EnqueueLists(removes, adds)
  \/ \E f \in RxFrames : HandleRequest(f) \/ HandleRx(f)
  \/ Poll
  \/ Tick

Spec == Init /\ [][Next]_vars
-----------------------------------------------------------------------------
\* Every variable is in its type.
TypeOK ==
  /\ seq \in 1..UINT16_MAX
  /\ log \in Log
  /\ receivers \in [Slots -> Slot]
  /\ poll_cursor \in Nat
  /\ now \in 0..UINT64_MAX

\* The ring holds exactly the operations oldest_retained_op_id ..
\* latest_op_id, each where find_op looks for it: wrapping the head, dropping
\* acknowledged operations and appending never lose or misplace one.
RingConsistent ==
  /\ log.op_count <= OpCapacity
  /\ log.op_count = 0 \/ log.op_head < OpCapacity
  /\ log.oldest_retained_op_id + log.op_count = log.latest_op_id + 1
  /\ \A k \in 0 .. log.op_count - 1 :
       log.ops[(log.op_head + k) % OpCapacity].op_id
         = log.oldest_retained_op_id + k

\* What a receiver still owes an acknowledgement for is the operation after
\* the last one it acknowledged, and it is still in the log: a retransmission
\* never misses, whatever the other receivers acknowledged meanwhile.
InflightRetained ==
  \A i \in Slots :
    LET sl == receivers[i]
    IN  sl.waiting_ack = 1 =>
          /\ sl.active = 1 /\ sl.exhausted = 0
          /\ sl.inflight_op_id = sl.last_acked_op_id + 1
          /\ Retained(log, sl.inflight_op_id)

\* A receiver that is not waiting holds no trace of an earlier attempt, so a
\* slot handed to another receiver does not inherit one.
IdleSlotsClean ==
  \A i \in Slots : receivers[i].waiting_ack = 0 =>
    receivers[i].inflight_op_id = 0 /\ receivers[i].retries = 0

\* No receiver has two slots.
UniqueReceivers ==
  \A i, j \in ActiveSlots(receivers) :
    receivers[i].receiver_id = receivers[j].receiver_id => i = j

\* An operation some registered receiver needs next is never dropped while
\* that receiver stays registered: neither another receiver's acknowledgement
\* nor a full log evicts it.
NeededOpsKept ==
  [][\A i \in Slots :
       /\ receivers[i].active = 1 /\ receivers'[i].active = 1
       /\ Retained(log, Needs(receivers'[i]))
       => Retained(log', Needs(receivers'[i]))]_vars

\* An operation never changes while it is retained.
RetainedOpsImmutable ==
  [][\A op_id \in OpIds :
       Retained(log, op_id) /\ Retained(log', op_id)
       => OpAt(log', op_id) = OpAt(log, op_id)]_vars

\* Operation ids are handed out in increasing order ("monotonic log by op_id").
LogMonotonic == [][log'.latest_op_id >= log.latest_op_id]_vars
=============================================================================
