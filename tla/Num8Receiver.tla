---------------------------- MODULE Num8Receiver ----------------------------
(***************************************************************************)
(* The asynchronous receivers (src/src/num8lora_receiver.c), one context   *)
(* per id, each with the dataset its apply callback changes.               *)
(*                                                                         *)
(* A context's frame counter is left out: it only numbers the answers and, *)
(* unlike the sender's, never stops them.  The test for an invalid value   *)
(* or type in handle_data is left out too: num8lora_op_decode_data has     *)
(* already refused such a frame.                                           *)
(***************************************************************************)
EXTENDS Num8Op

CONSTANTS
  ReceiverIds,
  ExpectedSender,   \* expected_sender_id: NoId accepts any sender
  StreamId,
  Content,          \* Content[n]: the operation the stream gives id n
  DataFrames        \* frames the transport may hand to a receiver

VARIABLES
  last_applied_op_id,   \* per receiver
  dataset               \* per receiver, the record values it holds

vars == <<last_applied_op_id, dataset>>

Init ==
  /\ last_applied_op_id = [r \in ReceiverIds |-> 0]
  /\ dataset = [r \in ReceiverIds |-> {}]

-----------------------------------------------------------------------------
\* num8lora_receiver_apply_num8, when the engine works
ApplyNum8(op, values) ==
  IF op.op_type = "ADD" THEN values \cup {op.value} ELSE values \ {op.value}

Expected(r) == Inc32(last_applied_op_id[r])

\* The test both handlers start with
Trusts(f) == ExpectedSender = NoId \/ f.sender_id = ExpectedSender

\* A stream has one content: whoever is trusted sends, as operation n of it,
\* Content[n].  Nothing is assumed of other streams and senders, nor of frames
\* that do not decode.
ASSUME StreamAssumption ==
  \A f \in DataFrames :
    /\ f.op_id \in OpIds /\ f.value \in Nat
    /\ Trusts(f) /\ f.stream_id = StreamId /\ Decodable(f) =>
         f.op_type = Content[f.op_id].op_type /\ f.value = Content[f.op_id].value

\* num8lora_receiver_handle_beacon: what it asks for; no other effect
RequestFrames(r, f) ==
  {g \in EncodeRequest(TRUE, r, f.sender_id, StreamId, Expected(r)) :
     /\ f.type = "BEACON" /\ Decodable(f) /\ Trusts(f)
     /\ f.stream_id = StreamId
     /\ f.op_id > last_applied_op_id[r]}

\* The size of the caller's buffer, as far as it matters: a NACK (22 bytes)
\* fits, only an ACK (18 bytes) fits, nothing fits
Rooms == {"nack", "ack", "none"}

\* Slip: the decoder's own tests are skipped
ForReceiverUndecoded(r, f) == f.type = "DATA" /\ f.receiver_id = r

ForReceiver(r, f) == f.type = "DATA" /\ Decodable(f) /\ f.receiver_id = r

\* Slip: the stream of the frame is not compared
VerdictAnyStream(r, f, ok, room) ==
  IF ~ForReceiver(r, f) THEN "IGNORED"
  ELSE IF ~Trusts(f) THEN "RECEIVER"
  ELSE IF f.op_id <= last_applied_op_id[r] THEN "DUPLICATE"
  ELSE IF f.op_id # Expected(r) THEN "SEQUENCE_GAP"
  ELSE IF room # "nack" THEN "NO_ROOM"
  ELSE IF ~ok THEN "APPLY_FAILED"
  ELSE "APPLIED"

\* Slip: an operation already applied is not acknowledged again
VerdictSilentOnDuplicate(r, f, ok, room) ==
  IF ~ForReceiver(r, f) THEN "IGNORED"
  ELSE IF ~Trusts(f) THEN "RECEIVER"
  ELSE IF f.stream_id # StreamId THEN "STREAM"
  ELSE IF f.op_id <= last_applied_op_id[r] THEN "IGNORED"
  ELSE IF f.op_id # Expected(r) THEN "SEQUENCE_GAP"
  ELSE IF room # "nack" THEN "NO_ROOM"
  ELSE IF ~ok THEN "APPLY_FAILED"
  ELSE "APPLIED"

(***************************************************************************)
(* What num8lora_receiver_handle_data decides about DATA frame f, given    *)
(* whether the callback would succeed (ok) and the room for an answer.     *)
(***************************************************************************)
Verdict(r, f, ok, room) ==
  IF ~ForReceiver(r, f) THEN "IGNORED"
  ELSE IF ~Trusts(f) THEN "RECEIVER"
  ELSE IF f.stream_id # StreamId THEN "STREAM"
  ELSE IF f.op_id <= last_applied_op_id[r] THEN "DUPLICATE"
  ELSE IF f.op_id # Expected(r) THEN "SEQUENCE_GAP"
  ELSE IF room # "nack" THEN "NO_ROOM"
  ELSE IF ~ok THEN "APPLY_FAILED"
  ELSE "APPLIED"

Nack(r, f, room, error_code) ==
  EncodeNack(room = "nack", r, f.sender_id, StreamId, error_code, Expected(r))

Ack(r, f, room, ack_op_id) ==
  EncodeAck(room # "none", r, f.sender_id, StreamId, ack_op_id)

\* The answer the call leaves in the buffer
Replies(r, f, ok, room) ==
  LET verdict == Verdict(r, f, ok, room)
  IN  CASE verdict \in {"IGNORED", "NO_ROOM"} -> {}
        [] verdict = "DUPLICATE" -> Ack(r, f, room, last_applied_op_id[r])
        [] verdict = "APPLIED" -> Ack(r, f, room, f.op_id)
        [] OTHER -> Nack(r, f, room, verdict)

\* Slip: an operation counts as applied although the callback failed
HandleDataUnchecked(r, f, ok, room) ==
  LET verdict == Verdict(r, f, ok, room)
  IN  IF verdict \in {"APPLIED", "APPLY_FAILED"}
      THEN /\ last_applied_op_id' = [last_applied_op_id EXCEPT ![r] = f.op_id]
           /\ dataset' = IF verdict = "APPLY_FAILED" THEN dataset
                ELSE [dataset EXCEPT ![r] = ApplyNum8(f, @)]
      ELSE UNCHANGED vars

\* Slip: a duplicate is not applied, but counts as the latest operation
HandleDataRewinding(r, f, ok, room) ==
  LET verdict == Verdict(r, f, ok, room)
  IN  IF verdict \in {"APPLIED", "DUPLICATE"}
      THEN /\ last_applied_op_id' = [last_applied_op_id EXCEPT ![r] = f.op_id]
           /\ dataset' = IF verdict = "DUPLICATE" THEN dataset
                ELSE [dataset EXCEPT ![r] = ApplyNum8(f, @)]
      ELSE UNCHANGED vars

HandleData(r, f, ok, room) ==
  IF Verdict(r, f, ok, room) = "APPLIED"
  THEN /\ last_applied_op_id' = [last_applied_op_id EXCEPT ![r] = f.op_id]
       /\ dataset' = [dataset EXCEPT ![r] = ApplyNum8(f, @)]
  ELSE UNCHANGED vars

Next ==
  \E r \in ReceiverIds, f \in DataFrames, ok \in BOOLEAN, room \in Rooms :
    HandleData(r, f, ok, room)

Spec == Init /\ [][Next]_vars
-----------------------------------------------------------------------------
\* Every variable is in its type: a receiver holds only values of the domain.
TypeOK ==
  /\ last_applied_op_id \in [ReceiverIds -> OpIds]
  /\ dataset \in [ReceiverIds -> SUBSET (0..MAX_VALUE)]

\* The dataset after the first n operations of the stream
StreamDataset[n \in Nat] ==
  IF n = 0 THEN {} ELSE ApplyNum8(Content[n], StreamDataset[n - 1])

\* Whatever frames arrive, repeated, out of order, from another sender, of
\* another stream, for another receiver, with a callback that fails or a buffer
\* that is too small, a receiver's dataset is the stream's after exactly the
\* operations it reports as applied: none skipped, repeated or foreign.
DatasetIsPrefix ==
  \A r \in ReceiverIds : dataset[r] = StreamDataset[last_applied_op_id[r]]
=============================================================================
