---------------------------- MODULE Num8Delivery ----------------------------
(***************************************************************************)
(* What the asynchronous line promises, abstractly: a bounded buffer with  *)
(* many readers.  Operations are published in order; each receiver that    *)
(* joined applies them one by one and acknowledges each before it gets the *)
(* next; none is forgotten before all have acknowledged it, so that the    *)
(* slowest receiver holds the publisher back.  A receiver that restarts    *)
(* may fall back, but never behind what it acknowledged.                   *)
(***************************************************************************)
EXTENDS Integers

CONSTANTS ReceiverIds, Capacity

VARIABLES
  published,   \* number of operations published so far
  joined,      \* the receivers that take part
  applied,     \* per receiver, number of operations applied
  acked        \* per receiver, number of operations acknowledged

vars == <<published, joined, applied, acked>>

Init ==
  /\ published = 0
  /\ joined = {}
  /\ applied = [r \in ReceiverIds |-> 0]
  /\ acked = applied

\* What r needs next must still be there
Join(r) ==
  /\ published - acked[r] <= Capacity
  /\ joined' = joined \cup {r}
  /\ UNCHANGED <<published, applied, acked>>

Publish ==
  /\ \A r \in joined : published - acked[r] < Capacity
  /\ published' = published + 1
  /\ UNCHANGED <<joined, applied, acked>>

Apply(r) ==
  /\ r \in joined
  /\ applied[r] = acked[r] /\ applied[r] < published
  /\ applied' = [applied EXCEPT ![r] = @ + 1]
  /\ UNCHANGED <<published, joined, acked>>

Acknowledge(r) ==
  /\ acked[r] < applied[r]
  /\ acked' = [acked EXCEPT ![r] = @ + 1]
  /\ UNCHANGED <<published, joined, applied>>

Crash(r) ==
  /\ applied' = [applied EXCEPT ![r] = acked[r]]
  /\ UNCHANGED <<published, joined, acked>>

Next ==
  \/ Publish
  \/ \E r \in ReceiverIds : Join(r) \/ Apply(r) \/ Acknowledge(r) \/ Crash(r)

Spec == Init /\ [][Next]_vars
=============================================================================
