------------------------- MODULE Num8SenderFairness -------------------------
(***************************************************************************)
(* The round-robin of num8lora_sender_poll_tx, observed.  overtaken[i]     *)
(* counts how often, without a break, slot i had an operation to send and  *)
(* a call that returned a frame returned one for another slot.  The count  *)
(* is an observer: the sender's own variables behave as in Num8Sender.     *)
(***************************************************************************)
EXTENDS Num8Sender

VARIABLE overtaken

observed == <<vars, overtaken>>

Ready(i) == Serves(Reclaim(log, receivers), receivers[i])

Observe ==
  overtaken' = [i \in Slots |->
    IF ~Ready(i)' THEN 0
    ELSE IF \E k \in Slots : PollSend(k)
         THEN IF i \in {Turn(k) : k \in {j \in Slots : PollSend(j)}} THEN 0
              ELSE IF Ready(i) THEN overtaken[i] + 1 ELSE 0
         ELSE overtaken[i]]

ObservedInit == Init /\ overtaken = [i \in Slots |-> 0]
ObservedNext == Next /\ Observe
ObservedSpec == ObservedInit /\ [][ObservedNext]_observed

\* No receiver with something to send waits for more frames to other receivers
\* than there are other slots, whatever acknowledgements, requests, timeouts
\* and registrations happen in between: poll_cursor starves nobody.
NoStarvation == \A i \in Slots : overtaken[i] < ReceiverCapacity
=============================================================================
