------------------------------- MODULE Num8Op -------------------------------
(***************************************************************************)
(* The frames of the asynchronous protocol (src/src/num8lora_op.c).  A     *)
(* frame is a record of the fields a handler looks at.  The byte layout,   *)
(* the frame's sequence number (no handler reads it) and the CRC are left  *)
(* out: a frame that fails to decode changes nothing at either end, so     *)
(* damage is the same as loss.  What the codec refuses is kept: an         *)
(* Encode... operator is the set of frames a call writes, {} when it       *)
(* returns 0.  `fits' says whether the caller's buffer can hold the frame. *)
(***************************************************************************)
EXTENDS Integers

CONSTANTS
  NoId,        \* endpoint id 0: nobody, or the broadcast address
  NoStream,    \* stream id 0
  MAX_VALUE,   \* largest record value the codec accepts
  UINT32_MAX   \* width of an op_id

ASSUME WidthAssumption == MAX_VALUE \in Nat /\ UINT32_MAX \in Nat \ {0}

OpIds == 0..UINT32_MAX
OpTypes == {"ADD", "REMOVE"}

\* op_id + 1u, a uint32_t
Inc32(n) == IF n = UINT32_MAX THEN 0 ELSE n + 1

ValidHeader(f) ==
  /\ f.sender_id # NoId
  /\ IF f.type = "BEACON" THEN f.receiver_id = NoId ELSE f.receiver_id # NoId

(***************************************************************************)
(* What num8lora_op_decode_* accepts; Encodable is the same test on what   *)
(* num8lora_op_encode_* is given.                                          *)
(***************************************************************************)
Decodable(f) ==
  /\ ValidHeader(f)
  /\ f.stream_id # NoStream
  /\ f.op_id # 0
  /\ f.type = "DATA" => f.op_type \in OpTypes /\ f.value <= MAX_VALUE

Written(fits, f) == {g \in {f} : fits /\ Decodable(g)}

EncodeBeacon(fits, from, stream, latest_op_id) ==
  Written(fits, [type |-> "BEACON", sender_id |-> from, receiver_id |-> NoId,
                 stream_id |-> stream, op_id |-> latest_op_id])

EncodeRequest(fits, from, to, stream, next_needed_op_id) ==
  Written(fits, [type |-> "REQUEST", sender_id |-> from, receiver_id |-> to,
                 stream_id |-> stream, op_id |-> next_needed_op_id])

EncodeData(fits, from, to, stream, op) ==
  Written(fits, [type |-> "DATA", sender_id |-> from, receiver_id |-> to,
                 stream_id |-> stream, op_id |-> op.op_id,
                 op_type |-> op.op_type, value |-> op.value])

EncodeAck(fits, from, to, stream, ack_op_id) ==
  Written(fits, [type |-> "ACK", sender_id |-> from, receiver_id |-> to,
                 stream_id |-> stream, op_id |-> ack_op_id])

EncodeNack(fits, from, to, stream, error_code, expected_next_op_id) ==
  Written(fits, [type |-> "NACK", sender_id |-> from, receiver_id |-> to,
                 stream_id |-> stream, error_code |-> error_code,
                 op_id |-> expected_next_op_id])
=============================================================================
