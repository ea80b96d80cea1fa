--------------------------- MODULE MCNum8Receiver ---------------------------
(* Small instances of Num8Receiver. *)
EXTENDS Num8Receiver

CONSTANTS r1, r2, OtherSender, OtherStream

MCReceiverIds == {r1, r2}

\* Values come back and leave again, so that a repetition or a gap shows
MCContent ==
  [n \in 1..UINT32_MAX |->
     [op_type |-> IF n % 3 = 0 THEN "REMOVE" ELSE "ADD",
      value |-> (n \div 2) % (MAX_VALUE + 1)]]

DataFrame(from, to, stream, n, op) ==
  [type |-> "DATA", sender_id |-> from, receiver_id |-> to,
   stream_id |-> stream, op_id |-> n, op_type |-> op.op_type,
   value |-> op.value]

\* The stream's own frames, and frames of the same ids that are not: another
\* stream, another sender, with other operations, or a value out of the domain
MCDataFrames ==
  {DataFrame(ExpectedSender, r, StreamId, n, MCContent[n]) :
     r \in MCReceiverIds, n \in DOMAIN MCContent}
  \cup
  {DataFrame(ExpectedSender, r, OtherStream, n, [op_type |-> t, value |-> 0]) :
     r \in MCReceiverIds, n \in DOMAIN MCContent, t \in OpTypes}
  \cup
  {DataFrame(OtherSender, r, StreamId, n, [op_type |-> t, value |-> 0]) :
     r \in MCReceiverIds, n \in DOMAIN MCContent, t \in OpTypes}
  \cup
  {DataFrame(ExpectedSender, r, StreamId, n, [op_type |-> "ADD",
                                              value |-> MAX_VALUE + 1]) :
     r \in MCReceiverIds, n \in DOMAIN MCContent}
=============================================================================
