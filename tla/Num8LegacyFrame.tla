-------------------------- MODULE Num8LegacyFrame ---------------------------
(***************************************************************************)
(* The frames of the legacy batch protocol (src/src/num8lora.c) and the    *)
(* rules for the numbers of a batch.  As in Num8Op a frame is a record of  *)
(* the fields a handler looks at and an Encode... operator the set of      *)
(* frames a call writes, {} when it returns 0.  The sequence number is     *)
(* left out (no handler reads it), and so is the payload size, which is a  *)
(* function of the two counts.  The checksum of a batch stands for what it *)
(* is computed from; that of a frame is intact or not, see Classify.       *)
(***************************************************************************)
EXTENDS Integers, Sequences

CONSTANTS
  NoId,        \* endpoint id 0: nobody, or the broadcast address
  MAX_VALUE    \* NUM8LORA_MAX_VALUE

ASSUME MaxValueAssumption == MAX_VALUE \in Nat

NoCrc == <<>>

\* An update_hdr that was never set
NoUpdate ==
  [update_id |-> 0, from |-> 0, to |-> 0, removes |-> <<>>, adds |-> <<>>]

Elements(list) == {list[i] : i \in DOMAIN list}

\* num8lora_compute_update_payload_crc16
PayloadCrc(u) == <<u.update_id, u.from, u.to, u.removes, u.adds>>

-----------------------------------------------------------------------------
(* num8lora_validate_update_numbers: the first number that is out of range *)
(* or comes again further on decides.                                      *)

\* Slip: the largest value is off by one
OutOfRangeByOne(list, i) == list[i] > MAX_VALUE + 1

OutOfRange(list, i) == list[i] > MAX_VALUE
Repeated(list, i) == \E j \in i + 1..Len(list) : list[j] = list[i]

Faulty(list) == {i \in DOMAIN list : OutOfRange(list, i) \/ Repeated(list, i)}
FirstFaulty(list) ==
  CHOOSE i \in Faulty(list) : \A j \in Faulty(list) : i <= j

ListError(list) ==
  IF Faulty(list) = {} THEN "NONE"
  ELSE IF OutOfRange(list, FirstFaulty(list)) THEN "INVALID_NUMBER"
  ELSE "DUPLICATE_IN_BATCH"

NumbersError(u) ==
  IF ListError(u.removes) # "NONE" THEN ListError(u.removes)
  ELSE IF ListError(u.adds) # "NONE" THEN ListError(u.adds)
  ELSE IF Elements(u.removes) \cap Elements(u.adds) # {} THEN "NUMBER_IN_BOTH"
  ELSE "NONE"

-----------------------------------------------------------------------------
ValidHeader(f) ==
  /\ f.sender_id # NoId
  /\ IF f.type = "BEACON" THEN f.receiver_id = NoId ELSE f.receiver_id # NoId

(***************************************************************************)
(* What num8lora_decode_* accepts of an intact frame; num8lora_encode_*    *)
(* make the same tests of what they are given.                             *)
(***************************************************************************)
Decodable(f) ==
  /\ ValidHeader(f)
  /\ f.update_id # 0
  /\ f.type \in {"BEACON", "DATA"} => f.to > f.from
  /\ f.type = "ACK" => f.version # 0

Written(f) == {g \in {f} : Decodable(g)}

EncodeBeacon(from_id, u, crc) ==
  Written([type |-> "BEACON", sender_id |-> from_id, receiver_id |-> NoId,
           update_id |-> u.update_id, from |-> u.from, to |-> u.to,
           remove_count |-> Len(u.removes), add_count |-> Len(u.adds),
           crc |-> crc])

EncodeRequest(from_id, to_id, update_id, version) ==
  Written([type |-> "REQUEST", sender_id |-> from_id, receiver_id |-> to_id,
           update_id |-> update_id, version |-> version])

EncodeData(from_id, to_id, u) ==
  Written([type |-> "DATA", sender_id |-> from_id, receiver_id |-> to_id,
           update_id |-> u.update_id, from |-> u.from, to |-> u.to,
           removes |-> u.removes, adds |-> u.adds])

EncodeAck(from_id, to_id, update_id, version) ==
  Written([type |-> "ACK", sender_id |-> from_id, receiver_id |-> to_id,
           update_id |-> update_id, version |-> version])

EncodeNack(from_id, to_id, update_id, error_code) ==
  Written([type |-> "NACK", sender_id |-> from_id, receiver_id |-> to_id,
           update_id |-> update_id, error_code |-> error_code])

(***************************************************************************)
(* num8lora_classify_frame for endpoint id, which expects frames of the    *)
(* given types: what is wrong with frame f, whose checksum is right if it  *)
(* is intact.  Protocol versions and types that no frame of the library    *)
(* has are left out.                                                       *)
(***************************************************************************)
Classify(f, intact, id, types) ==
  IF ~intact THEN "CRC_FAIL"
  ELSE IF f.type \notin types THEN "INVALID_MESSAGE_TYPE"
  ELSE IF f.receiver_id # (IF f.type = "BEACON" THEN NoId ELSE id)
  THEN "INVALID_RECEIVER_ID"
  ELSE "NONE"
=============================================================================
