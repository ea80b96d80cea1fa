----------------------------- MODULE Num8Async ------------------------------
(***************************************************************************)
(* One sender, its receivers, the transport between them and the           *)
(* application that drives both ends: the asynchronous line as a whole.    *)
(* The sender and the receivers act by the operations of Num8Sender and    *)
(* Num8Receiver; what is added here is not under src/src and follows from  *)
(* how the API has to be driven (docs/ASYNC_SPLIT_API.md,                  *)
(* docs/DEPLOYMENT_CHECKLIST.md, examples/async_demo.c):                   *)
(*   - a transport that loses, repeats, delays and reorders frames;        *)
(*   - an application that registers a receiver while what it needs is     *)
(*     still in the log, and one before the first operation, and that      *)
(*     stores a receiver's last_applied_op_id before it transmits the      *)
(*     answer to a DATA frame (StoreFirst);                                *)
(*   - receivers that crash and restart from what was stored.              *)
(***************************************************************************)
EXTENDS Num8Op, FiniteSets

CONSTANTS
  SenderId, StreamId, ReceiverIds,
  OpCapacity, ReceiverCapacity, AckTimeout, MaxRetries,
  UINT16_MAX, UINT64_MAX,
  Content,       \* Content[n]: the n-th operation the application enqueues
  MaxOpId,       \* bound: number of operations enqueued
  MaxFaults,     \* bound: losses, failing calls and crashes
  Repeating,     \* the transport may deliver a frame any number of times
  Patient,       \* timers and beacons wait until no frame is on its way
  StoreFirst     \* the answer waits for the metadata to be stored

ASSUME AsyncAssumption ==
  /\ OpCapacity \in Nat /\ ReceiverCapacity \in Nat
  /\ AckTimeout \in Nat /\ MaxRetries \in Nat
  /\ UINT16_MAX \in Nat \ {0} /\ UINT64_MAX \in Nat
  /\ MaxOpId \in Nat /\ MaxFaults \in Nat
  /\ NoId \notin ReceiverIds
  /\ \A n \in 1..MaxOpId : Content[n].op_type \in OpTypes /\ Content[n].value \in Nat

VARIABLES
  seq, log, receivers, poll_cursor, now,   \* the sender
  last_applied_op_id, dataset,             \* the receivers
  stored,     \* per receiver, last_applied_op_id in its metadata file
  outbox,     \* per receiver, the answer not transmitted yet
  net,        \* frames on their way: pairs of a destination and a frame
  faults      \* faults so far

senderVars == <<seq, log, receivers, poll_cursor, now>>
receiverVars == <<last_applied_op_id, dataset>>
vars == <<senderVars, receiverVars, stored, outbox, net, faults>>

S == INSTANCE Num8Sender WITH RxFrames <- {}, Progress <- {}, Values <- {}
R == INSTANCE Num8Receiver WITH ExpectedSender <- SenderId, DataFrames <- {}

Init ==
  /\ S!Init /\ R!Init
  /\ stored = [r \in ReceiverIds |-> 0]
  /\ outbox = [r \in ReceiverIds |-> {}]
  /\ net = {}
  /\ faults = 0

-----------------------------------------------------------------------------
(* The transport. *)

To(r, frames) == {<<r, f>> : f \in frames}
Broadcast(frames) == {<<r, f>> : r \in ReceiverIds, f \in frames}

\* Frame p is delivered and the frames new are sent
Exchange(p, new) == net' = (IF Repeating THEN net ELSE net \ {p}) \cup new

Fault == faults < MaxFaults /\ faults' = faults + 1
NoFault == UNCHANGED faults

\* Nothing is on its way and no answer is due
Quiet == net = {} /\ \A r \in ReceiverIds : outbox[r] = {}

Lose ==
  /\ \E p \in net : net' = net \ {p}
  /\ ~Repeating   \* a frame that is never delivered is as good as lost
  /\ Fault
  /\ UNCHANGED <<senderVars, receiverVars, stored, outbox>>

-----------------------------------------------------------------------------
(* The sender and its application. *)

\* Late, too, if the next operation r needs is still there once the call has
\* reclaimed what the receivers registered before no longer need
Register(r) ==
  /\ stored[r] + 1 >= S!Reclaim(log, receivers).oldest_retained_op_id
  /\ S!RegisterReceiver(r, stored[r])
  /\ NoFault /\ UNCHANGED <<receiverVars, stored, outbox, net>>

Enqueue ==
  /\ \E r \in ReceiverIds : S!Registered(r)
  /\ log.latest_op_id < MaxOpId
  /\ LET op == Content[log.latest_op_id + 1]
     IN  S!Enqueue(op.op_type, op.value)
  /\ NoFault /\ UNCHANGED <<receiverVars, stored, outbox, net>>

PollSend ==
  /\ \E k \in S!Slots :
       /\ S!PollSend(k)
       /\ net' = net \cup UNION {To(f.receiver_id, {f}) :
                                   f \in S!PollFrames(k, TRUE)}
  /\ NoFault /\ UNCHANGED <<receiverVars, stored, outbox>>

\* The call is given too small a buffer, or the frame numbers are used up
PollFail ==
  /\ \/ Fault /\ \E k \in S!Slots : S!PollFail(k, FALSE)
     \/ NoFault /\ \E k \in S!Slots : S!PollFail(k, TRUE)
  /\ UNCHANGED <<receiverVars, stored, outbox, net>>

PollIdle ==
  /\ S!PollIdle
  /\ NoFault /\ UNCHANGED <<receiverVars, stored, outbox, net>>

Beacon ==
  /\ Patient => Quiet
  /\ net' = net \cup Broadcast(S!BeaconFrames)
  /\ NoFault /\ UNCHANGED <<senderVars, receiverVars, stored, outbox>>

\* A REQUEST for reclaimed history is answered by handle_request, every other
\* frame goes to handle_rx
SenderReceives(p) ==
  /\ p[1] = SenderId
  /\ \/ /\ S!HandleRequest(p[2])
        /\ Exchange(p, To(p[2].sender_id, S!RequestNack(p[2], TRUE)))
     \/ S!HandleRx(p[2]) /\ Exchange(p, {})
     \/ S!Ignores(p[2]) /\ Exchange(p, {}) /\ UNCHANGED senderVars
  /\ NoFault /\ UNCHANGED <<receiverVars, stored, outbox>>

\* The operator takes an exhausted receiver back where it stopped
Revive(r) ==
  /\ \E i \in S!Slots : /\ S!FindSlot(r, i) /\ receivers[i].exhausted = 1
                        /\ S!SetReceiverProgress(r, receivers[i].last_acked_op_id)
  /\ NoFault /\ UNCHANGED <<receiverVars, stored, outbox, net>>

\* A patient application's ack_timeout_ms exceeds the round trip: time that
\* matters to a timer passes only when no frame is on its way
Tick ==
  /\ Patient => /\ Quiet
                /\ \E i \in S!Slots : receivers[i].waiting_ack = 1
                                      /\ ~S!Due(receivers[i])
  /\ S!Tick
  /\ NoFault /\ UNCHANGED <<receiverVars, stored, outbox, net>>
-----------------------------------------------------------------------------
(* A receiver and its application. *)

ReceiverHears(r, p) ==
  /\ p[1] = r /\ outbox[r] = {}
  /\ p[2].type = "BEACON"
  /\ Exchange(p, To(p[2].sender_id, R!RequestFrames(r, p[2])))
  /\ NoFault /\ UNCHANGED <<senderVars, receiverVars, stored, outbox>>

\* handle_data, which also gets the NACKs of the sender and ignores them; it is
\* a fault if the callback fails or the buffer is too small
ReceiverGets(r, p, ok, room) ==
  /\ p[1] = r /\ outbox[r] = {}
  /\ p[2].type # "BEACON"
  /\ IF ok /\ room = "nack" THEN NoFault ELSE Fault
  /\ R!HandleData(r, p[2], ok, room)
  /\ outbox' = [outbox EXCEPT ![r] = R!Replies(r, p[2], ok, room)]
  /\ Exchange(p, {})
  /\ UNCHANGED <<senderVars, stored>>

\* The receiver's application saves its metadata record; a process that stops
\* before num8lora_metadata_save_file renames the new file keeps the old one
Store(r) ==
  /\ stored[r] # last_applied_op_id[r]
  /\ stored' = [stored EXCEPT ![r] = last_applied_op_id[r]]
  /\ NoFault /\ UNCHANGED <<senderVars, receiverVars, outbox, net>>

Reply(r) ==
  /\ outbox[r] # {}
  /\ StoreFirst => stored[r] = last_applied_op_id[r]
  /\ net' = net \cup UNION {To(f.receiver_id, {f}) : f \in outbox[r]}
  /\ outbox' = [outbox EXCEPT ![r] = {}]
  /\ NoFault /\ UNCHANGED <<senderVars, receiverVars, stored>>

\* The receiver restarts, num8lora_receiver_init is given what the metadata
\* says; its dataset is on stable storage
Crash(r) ==
  /\ last_applied_op_id' = [last_applied_op_id EXCEPT ![r] = stored[r]]
  /\ outbox' = [outbox EXCEPT ![r] = {}]
  /\ Fault
  /\ UNCHANGED <<senderVars, dataset, stored, net>>

-----------------------------------------------------------------------------
Hears(r) == \E p \in net : ReceiverHears(r, p)
Gets(r) == \E p \in net : ReceiverGets(r, p, TRUE, "nack")
Receives == \E p \in net : SenderReceives(p)

SenderStep ==
  \/ \E r \in ReceiverIds : Register(r) \/ Revive(r)
  \/ Enqueue \/ PollSend \/ PollFail \/ PollIdle \/ Beacon \/ Receives \/ Tick

ReceiverStep(r) ==
  \/ Hears(r)
  \/ \E p \in net, ok \in BOOLEAN, room \in R!Rooms : ReceiverGets(r, p, ok, room)
  \/ Store(r) \/ Reply(r) \/ Crash(r)

Next == SenderStep \/ Lose \/ \E r \in ReceiverIds : ReceiverStep(r)

Spec == Init /\ [][Next]_vars

(***************************************************************************)
(* The event loops keep running: frames that arrive are handled, answers   *)
(* are stored and transmitted, poll_tx is called, and the clock advances   *)
(* even if beacons and their answers keep the air busy in between (SF).    *)
(* Nothing is assumed of Enqueue, Beacon, Revive or the faults.            *)
(***************************************************************************)
Fairness ==
  /\ WF_vars(PollSend) /\ WF_vars(PollIdle) /\ SF_vars(Tick)
  /\ WF_vars(Receives)
  /\ \A r \in ReceiverIds :
       /\ WF_vars(Register(r)) /\ WF_vars(Hears(r)) /\ WF_vars(Gets(r))
       /\ WF_vars(Store(r)) /\ WF_vars(Reply(r))

FairSpec == Spec /\ Fairness

\* The application also keeps announcing the latest operation
BeaconSpec == FairSpec /\ SF_vars(Beacon)
-----------------------------------------------------------------------------
\* The slot that serves r
Serving(r, i) == receivers[i].active = 1 /\ receivers[i].receiver_id = r

\* Every variable added here is in its type.
TypeOK ==
  /\ S!TypeOK /\ R!TypeOK
  /\ stored \in [ReceiverIds -> OpIds]
  /\ faults \in 0..MaxFaults
  /\ \A r \in ReceiverIds : \A f \in outbox[r] : f.sender_id = r /\ Decodable(f)
  /\ \A p \in net : p[1] \in ReceiverIds \cup {SenderId} /\ Decodable(p[2])

\* What the sender counts as acknowledged is applied and survives a restart of
\* the receiver, and a receiver is never more than the one operation in flight
\* ahead of it.  Late, repeated and reordered answers do not matter, although
\* an ACK names nothing but the operation.
AckedIsStored ==
  \A r \in ReceiverIds : \A i \in S!Slots : Serving(r, i) =>
    /\ receivers[i].last_acked_op_id <= stored[r]
    /\ stored[r] <= last_applied_op_id[r]
    /\ last_applied_op_id[r] <= receivers[i].last_acked_op_id + 1

\* The next operation of every receiver that is behind is still in the log, so
\* it can always catch up: reclaiming looks only at acknowledgements, which run
\* behind what the receivers applied.
NextOpAvailable ==
  \A r \in ReceiverIds : \A i \in S!Slots :
    Serving(r, i) /\ last_applied_op_id[r] < log.latest_op_id
      => S!Retained(log, last_applied_op_id[r] + 1)

\* A receiver's dataset is the stream's after the operations it has applied; a
\* crash before the metadata was stored leaves it one operation further.
DatasetIsPrefix ==
  \A r \in ReceiverIds :
    \/ dataset[r] = R!StreamDataset[last_applied_op_id[r]]
    \/ /\ faults > 0
       /\ dataset[r] = R!StreamDataset[last_applied_op_id[r] + 1]

P(r) == INSTANCE Num8Progress WITH last_applied_op_id <- last_applied_op_id[r],
                                   stored <- stored[r]

\* Each receiver's progress advances one operation at a time and falls back
\* only by a crash, and only to what was stored: the promise that Num8Metadata
\* keeps with a file, kept here against repeated and late frames.
ProgressKept ==
  /\ \A r \in ReceiverIds : P(r)!Init
  /\ [][\A r \in ReceiverIds : P(r)!Next \/ UNCHANGED P(r)!vars]_vars

Delivery == INSTANCE Num8Delivery WITH
  Capacity <- OpCapacity,
  published <- log.latest_op_id,
  joined <- {receivers[i].receiver_id : i \in S!ActiveSlots(receivers)},
  applied <- last_applied_op_id,
  acked <- [r \in ReceiverIds |->
              IF \E i \in S!Slots : Serving(r, i)
              THEN receivers[CHOOSE i \in S!Slots : Serving(r, i)].last_acked_op_id
              ELSE 0]

\* The line is a bounded buffer with many readers: the ring never takes an
\* operation while a receiver is OpCapacity behind, and every receiver gets all
\* of them in order, each acknowledged before the next, whoever joins late,
\* crashes, or answers twice.
DeliveryKept == Delivery!Spec

\* An operation once enqueued is applied by every receiver and acknowledged to
\* the sender, although frames are lost, callbacks fail and receivers crash.
EveryOpDelivered ==
  \A n \in 1..MaxOpId :
    log.latest_op_id >= n
      ~> /\ \A r \in ReceiverIds : last_applied_op_id[r] >= n
         /\ \A i \in S!ActiveSlots(receivers) :
              receivers[i].last_acked_op_id >= n

\* "straightforward per-receiver recovery after downtime"
\* (docs/ASYNC_SPLIT_API.md:72): a receiver that hears beacons again catches up.
RecoversAfterDowntime ==
  \A n \in 1..MaxOpId : \A r \in ReceiverIds :
    log.latest_op_id >= n ~> last_applied_op_id[r] >= n
=============================================================================
