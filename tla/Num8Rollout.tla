---------------------------- MODULE Num8Rollout -----------------------------
(***************************************************************************)
(* What the legacy protocol promises, abstractly: each receiver follows    *)
(* the updates from version to version, a restart takes it back to what it *)
(* stored last and no further, and the sender reports an update as applied *)
(* only when some receiver has stored its version, or a later one.  It     *)
(* does not promise that this is the receiver the sender was serving.      *)
(***************************************************************************)
EXTENDS Naturals

CONSTANTS ReceiverIds, FirstVersion,
          Updates   \* set of records with the fields update_id, from and to

VARIABLES
  version,     \* per receiver, the version it reports
  stored,      \* per receiver, the version a restart resumes from
  confirmed    \* ids of the updates reported as applied

vars == <<version, stored, confirmed>>

Init ==
  /\ version = [r \in ReceiverIds |-> FirstVersion]
  /\ stored = version
  /\ confirmed = {}

Advance(r, u) ==
  /\ version[r] = u.from
  /\ version' = [version EXCEPT ![r] = u.to]
  /\ UNCHANGED <<stored, confirmed>>

Store(r) ==
  /\ stored' = [stored EXCEPT ![r] = version[r]]
  /\ UNCHANGED <<version, confirmed>>

Restart(r) ==
  /\ version' = [version EXCEPT ![r] = stored[r]]
  /\ UNCHANGED <<stored, confirmed>>

Confirm(u) ==
  /\ \E r \in ReceiverIds : stored[r] >= u.to
  /\ confirmed' = confirmed \cup {u.update_id}
  /\ UNCHANGED <<version, stored>>

Next ==
  \/ \E r \in ReceiverIds, u \in Updates : Advance(r, u)
  \/ \E r \in ReceiverIds : Store(r) \/ Restart(r)
  \/ \E u \in Updates : Confirm(u)

Spec == Init /\ [][Next]_vars
=============================================================================
