---------------------------- MODULE MCNum8Async -----------------------------
(* Small instances of Num8Async. *)
EXTENDS Num8Async, TLC

CONSTANTS r1, r2

TwoReceivers == {r1, r2}
OneReceiver == {r1}

\* The stream adds 0, adds 1, removes 0, removes 1, and so on: its dataset is
\* {}, {0}, {0, 1}, {1}, so no two of four operations in a row leave the same one
MCContent ==
  [n \in 1..UINT32_MAX |->
     [op_type |-> IF n % 4 \in {1, 2} THEN "ADD" ELSE "REMOVE",
      value |-> IF n % 2 = 1 THEN 0 ELSE 1]]

Symmetric == Permutations(ReceiverIds)
=============================================================================
