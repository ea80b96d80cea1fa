---------------------------- MODULE MCNum8Sender ----------------------------
(* Small instances of Num8Sender. *)
EXTENDS Num8SenderFairness, TLC

CONSTANTS r1, r2, OtherStream

MCReceiverIds == {r1, r2}

\* Every REQUEST, ACK and NACK of the stream, at any time and in any order,
\* and some that are not for this sender: another stream, another endpoint
MCRxFrames ==
  [type : {"REQUEST", "ACK", "NACK"}, sender_id : MCReceiverIds,
   receiver_id : {SenderId}, stream_id : {StreamId}, op_id : OpIds]
  \cup
  [type : {"REQUEST", "ACK", "NACK"}, sender_id : {r1}, receiver_id : {SenderId},
   stream_id : {OtherStream}, op_id : {1}]
  \cup
  [type : {"REQUEST", "ACK", "NACK"}, sender_id : {r1}, receiver_id : {r2},
   stream_id : {StreamId}, op_id : {1}]

Receivers == Permutations(MCReceiverIds)
=============================================================================
