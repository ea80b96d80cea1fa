---------------------------- MODULE Num8Progress ----------------------------
(***************************************************************************)
(* What a receiver promises about its progress, abstractly: it advances    *)
(* one operation at a time, it can be stored, and a crash takes it back to *)
(* what was stored last and no further.  Num8Metadata implements this with *)
(* a file that is written in steps, each of which may fail or be the last  *)
(* one; Num8Async implements it once per receiver, while frames and both   *)
(* applications interfere.  So Num8Async may take a save as one step.      *)
(***************************************************************************)
EXTENDS Naturals

VARIABLES
  last_applied_op_id,   \* the receiver's progress
  stored                \* what a restart would resume from

vars == <<last_applied_op_id, stored>>

Init == last_applied_op_id = 0 /\ stored = 0

Apply ==
  /\ last_applied_op_id' = last_applied_op_id + 1
  /\ UNCHANGED stored

Store ==
  /\ stored' = last_applied_op_id
  /\ UNCHANGED last_applied_op_id

Crash ==
  /\ last_applied_op_id' = stored
  /\ UNCHANGED stored

Next == Apply \/ Store \/ Crash

Spec == Init /\ [][Next]_vars
=============================================================================
