-------------------------- MODULE Num8LegacySender --------------------------
(***************************************************************************)
(* The sender of the legacy batch protocol (src/src/num8lora_runtime.c):   *)
(* one update at a time is announced by beacons, sent to whoever asks for  *)
(* it, and repeated until that ends in an ACK, a NACK or exhausted         *)
(* retries.  A response buffer that is too small makes every call but      *)
(* num8lora_sender_on_ack_timeout return before it changes anything; it is *)
(* the loss of the frame the call was given.  last_nack_error, which       *)
(* nothing reads, and the frame counter are left out.                      *)
(***************************************************************************)
EXTENDS Num8LegacyFrame

CONSTANTS
  SenderId,
  MaxRetries      \* max_retries

VARIABLES
  state,                \* IDLE, WAIT_REQUEST or WAIT_ACK
  update,               \* update_hdr and the two lists
  update_payload_crc,   \* computed by set_update
  target_receiver_id,
  retries

vars == <<state, update, update_payload_crc, target_receiver_id, retries>>

\* num8lora_sender_init
Init ==
  /\ state = "IDLE"
  /\ update = NoUpdate
  /\ update_payload_crc = NoCrc
  /\ target_receiver_id = NoId
  /\ retries = 0

-----------------------------------------------------------------------------
MaySetUpdate(u) ==
  state # "WAIT_ACK" /\ u.to > u.from /\ NumbersError(u) = "NONE"

SetUpdate(r, u) ==
  /\ MaySetUpdate(u)
  /\ state' = "WAIT_REQUEST"
  /\ update' = u
  /\ update_payload_crc' = PayloadCrc(u)
  /\ target_receiver_id' = r
  /\ retries' = 0

\* num8lora_sender_build_beacon, in any state; it changes nothing
BeaconFrames == EncodeBeacon(SenderId, update, update_payload_crc)

DataFrames(r) == EncodeData(SenderId, r, update)

-----------------------------------------------------------------------------
(* num8lora_sender_handle_update_request *)

TakesRequest(f, intact) ==
  /\ state \in {"WAIT_REQUEST", "WAIT_ACK"}
  /\ Classify(f, intact, SenderId, {"REQUEST"}) = "NONE"

\* Slip: a receiver of another version is served too
RequestErrorAnyVersion(f) ==
  IF ~Decodable(f) THEN "INTERNAL"
  ELSE IF f.update_id # update.update_id THEN "UPDATE_ID_UNKNOWN"
  ELSE "NONE"

RequestError(f) ==
  IF ~Decodable(f) THEN "INTERNAL"
  ELSE IF f.update_id # update.update_id THEN "UPDATE_ID_UNKNOWN"
  ELSE IF f.version # update.from THEN "DATASET_VERSION_MISMATCH"
  ELSE "NONE"

\* What the call writes
RequestAnswers(f) ==
  IF RequestError(f) = "NONE" THEN DataFrames(f.sender_id)
  ELSE EncodeNack(SenderId, f.sender_id,
                  IF Decodable(f) THEN f.update_id ELSE update.update_id,
                  RequestError(f))

ServeRequest(f) ==
  /\ state' = "WAIT_ACK"
  /\ target_receiver_id' = f.sender_id
  /\ retries' = 0
  /\ UNCHANGED <<update, update_payload_crc>>

\* A request that cannot be served ends the update for everybody
RefuseRequest ==
  /\ state' = "IDLE"
  /\ UNCHANGED <<update, update_payload_crc, target_receiver_id, retries>>

HandleRequest(f, intact) ==
  /\ TakesRequest(f, intact)
  /\ RequestAnswers(f) # {}
  /\ IF RequestError(f) = "NONE" THEN ServeRequest(f) ELSE RefuseRequest

-----------------------------------------------------------------------------
(* num8lora_sender_handle_ack_or_nack *)

TakesAnswer(f, intact) ==
  /\ state = "WAIT_ACK"
  /\ Classify(f, intact, SenderId, {"ACK", "NACK"}) = "NONE"
  /\ Decodable(f)

\* Slip: what an ACK is about is not compared
ConfirmsAnyAck(f) == f.type = "ACK"

\* Whoever the ACK is from
Confirms(f) ==
  /\ f.type = "ACK"
  /\ f.update_id = update.update_id
  /\ f.version = update.to

\* out_result
Result(f) == IF f.type = "ACK" THEN "APPLIED" ELSE "NACKED"

HandleAnswer(f, intact) ==
  /\ TakesAnswer(f, intact)
  /\ f.type = "ACK" => Confirms(f)
  /\ state' = "IDLE"
  /\ retries' = IF f.type = "ACK" THEN 0 ELSE retries
  /\ UNCHANGED <<update, update_payload_crc, target_receiver_id>>

\* A frame that neither handler takes
Ignores(f, intact) ==
  /\ ~(TakesRequest(f, intact) /\ RequestAnswers(f) # {})
  /\ TakesAnswer(f, intact) => f.type = "ACK" /\ ~Confirms(f)

-----------------------------------------------------------------------------
(* num8lora_sender_on_ack_timeout *)

GiveUp ==
  /\ state = "WAIT_ACK" /\ retries >= MaxRetries
  /\ state' = "IDLE"
  /\ UNCHANGED <<update, update_payload_crc, target_receiver_id, retries>>

\* Slip: the retries are counted, but not limited
RetryForever ==
  /\ state = "WAIT_ACK"
  /\ retries' = retries + 1
  /\ UNCHANGED <<state, update, update_payload_crc, target_receiver_id>>

\* A retry is used, whether DataFrames(target_receiver_id) fits the buffer or not
Retry ==
  /\ state = "WAIT_ACK" /\ retries < MaxRetries
  /\ retries' = retries + 1
  /\ UNCHANGED <<state, update, update_payload_crc, target_receiver_id>>
=============================================================================
