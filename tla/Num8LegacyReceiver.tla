------------------------- MODULE Num8LegacyReceiver -------------------------
(***************************************************************************)
(* The receivers of the legacy batch protocol                              *)
(* (src/src/num8lora_runtime.c) with the bridge that applies an update to  *)
(* a NUM8 engine and answers (src/src/num8lora_num8_bridge.c), one context *)
(* per id.  A buffer that is too small makes every call but                *)
(* num8lora_receiver_on_update_timeout return before it changes anything;  *)
(* it is the loss of the frame the call was given.                         *)
(*                                                                         *)
(* The NUM8 engine is not part of the repository.  As the bridge uses it,  *)
(* it holds a set of numbers, each change of which may fail, and what it   *)
(* holds is certain to survive a restart only once num8_flush succeeded.   *)
(***************************************************************************)
EXTENDS Num8LegacyFrame

CONSTANTS
  ReceiverIds,
  ExpectedSender,   \* expected_sender_id: NoId accepts any sender
  MaxRetries,       \* max_retries
  FirstVersion,     \* the version every receiver holds at first
  FirstNumbers,     \* and its numbers
  Frames            \* beacons and updates a receiver may be given

\* A beacon carries the checksum of its update, which every sender computes;
\* that a computed one may be 0, as if there were none, is left out
ASSUME ReceiverAssumption ==
  /\ MaxRetries \in Nat /\ FirstVersion \in Nat
  /\ FirstNumbers \subseteq 0..MAX_VALUE
  /\ \A f \in Frames :
       /\ f.from \in Nat /\ f.to \in Nat
       /\ f.type = "BEACON" => f.crc # NoCrc
       /\ f.type = "DATA" => f.removes \in Seq(Nat) /\ f.adds \in Seq(Nat)

VARIABLES
  ctx,       \* per receiver, its num8lora_receiver_ctx_t
  engine,    \* per receiver, the numbers its engine holds
  flushed    \* per receiver, those it held when last flushed

vars == <<ctx, engine, flushed>>

\* What a context keeps of an update: the pending_ and the last_applied_ fields
Batch(update_id, from, to, remove_count, add_count, crc) ==
  [update_id |-> update_id, from |-> from, to |-> to,
   remove_count |-> remove_count, add_count |-> add_count, crc |-> crc]

\* num8lora_receiver_init
InitialContext(version, last_applied_update_id) ==
  [state |-> "SCAN", retries |-> 0, local_dataset_version |-> version,
   last |-> Batch(last_applied_update_id, 0, version, 0, 0, NoCrc),
   last_sender_id |-> NoId,
   pending |-> Batch(0, 0, 0, 0, 0, NoCrc)]

Init ==
  /\ ctx = [r \in ReceiverIds |-> InitialContext(FirstVersion, 0)]
  /\ engine = [r \in ReceiverIds |-> FirstNumbers]
  /\ flushed = engine

\* The device restarts and resumes from stored metadata: unflushed changes are
\* on disk or not, each for itself
Restart(r, version, last_applied_update_id) ==
  /\ ctx' = [ctx EXCEPT ![r] = InitialContext(version, last_applied_update_id)]
  /\ \E kept \in SUBSET ((engine[r] \ flushed[r]) \cup (flushed[r] \ engine[r])) :
       LET numbers == (flushed[r] \ kept) \cup (kept \cap engine[r])
       IN  /\ engine' = [engine EXCEPT ![r] = numbers]
           /\ flushed' = [flushed EXCEPT ![r] = numbers]

Trusts(f) == ExpectedSender = NoId \/ f.sender_id = ExpectedSender

-----------------------------------------------------------------------------
(* num8lora_receiver_handle_beacon *)

TakesBeacon(r, f, intact) ==
  /\ intact /\ f.type = "BEACON" /\ Decodable(f)
  /\ Trusts(f)
  /\ f.to > ctx[r].local_dataset_version

RequestFrames(r, to_id, update_id) ==
  EncodeRequest(r, to_id, update_id, ctx[r].local_dataset_version)

BeaconBatch(f) == Batch(f.update_id, f.from, f.to,
                        f.remove_count, f.add_count, f.crc)

\* RequestFrames(r, f.sender_id, f.update_id) is written
HandleBeacon(r, f, intact) ==
  /\ TakesBeacon(r, f, intact)
  /\ ctx' = [ctx EXCEPT ![r].pending = BeaconBatch(f),
                        ![r].state = "WAIT_UPDATE",
                        ![r].retries = 0]
  /\ UNCHANGED <<engine, flushed>>

-----------------------------------------------------------------------------
(* num8lora_receiver_on_update_timeout *)

GiveUp(r) ==
  /\ ctx[r].state = "WAIT_UPDATE" /\ ctx[r].retries >= MaxRetries
  /\ ctx' = [ctx EXCEPT ![r].state = "SCAN"]
  /\ UNCHANGED <<engine, flushed>>

\* A retry is used, whether the request can be written or not; it goes to
\* ExpectedSender, so a receiver that accepts any sender never writes one
RetryFrames(r) == RequestFrames(r, ExpectedSender, ctx[r].pending.update_id)

Retry(r) ==
  /\ ctx[r].state = "WAIT_UPDATE" /\ ctx[r].retries < MaxRetries
  /\ ctx' = [ctx EXCEPT ![r].retries = @ + 1]
  /\ UNCHANGED <<engine, flushed>>
-----------------------------------------------------------------------------
(* num8lora_receiver_validate_update_data *)

DataBatch(f) == Batch(f.update_id, f.from, f.to,
                      Len(f.removes), Len(f.adds), PayloadCrc(f))

IsLastApplied(r, f) == f.update_id = ctx[r].last.update_id

\* Slip: the announced version is compared, the one the dataset has is not
VersionFitsPending(r, f) ==
  f.from = ctx[r].pending.from /\ f.to = ctx[r].pending.to

VersionFits(r, f) ==
  /\ f.from = ctx[r].local_dataset_version
  /\ f.from = ctx[r].pending.from
  /\ f.to = ctx[r].pending.to

\* Slip: the content is not compared with the announced checksum
CrcFitsAnything(r, f) == TRUE

CrcFits(r, f) ==
  ctx[r].pending.crc # NoCrc => PayloadCrc(f) = ctx[r].pending.crc

Verdict(r, f, intact) ==
  LET shape == Classify(f, intact, r, {"DATA"})
      pending == ctx[r].pending
  IN  IF shape # "NONE" THEN shape
      ELSE IF ~Trusts(f) THEN "INVALID_RECEIVER_ID"
      ELSE IF ~Decodable(f) THEN "INTERNAL"
      ELSE IF NumbersError(f) # "NONE" THEN NumbersError(f)
      ELSE IF IsLastApplied(r, f)
      THEN IF /\ f.sender_id = ctx[r].last_sender_id
              /\ DataBatch(f) = ctx[r].last
           THEN "NONE" ELSE "UPDATE_ID_UNKNOWN"
      ELSE IF ctx[r].state # "WAIT_UPDATE" THEN "UPDATE_ID_UNKNOWN"
      ELSE IF f.update_id # pending.update_id THEN "UPDATE_ID_UNKNOWN"
      ELSE IF ~VersionFits(r, f) THEN "DATASET_VERSION_MISMATCH"
      ELSE IF \/ Len(f.removes) # pending.remove_count
              \/ Len(f.adds) # pending.add_count THEN "UPDATE_ID_UNKNOWN"
      ELSE IF ~CrcFits(r, f) THEN "CRC_FAIL"
      ELSE "NONE"

-----------------------------------------------------------------------------
(* num8lora_receiver_apply_update_data_to_num8, which answers the sender   *)
(* that the header of the frame names.                                     *)

Ack(r, f, version) == EncodeAck(r, f.sender_id, f.update_id, version)
Nack(r, f, update_id, error_code) ==
  EncodeNack(r, f.sender_id, update_id, error_code)

\* A NACK names the update that is pending, whatever the frame was about; it
\* cannot be written if there is none
RefusalFrames(r, f, intact) ==
  Nack(r, f, ctx[r].pending.update_id, Verdict(r, f, intact))

Refuse(r, f, intact) ==
  /\ Verdict(r, f, intact) # "NONE"
  /\ UNCHANGED vars

\* The update applied last, again
Repeats(r, f, intact) == Verdict(r, f, intact) = "NONE" /\ IsLastApplied(r, f)

\* Slip: a repetition is recognised and not answered
RepeatUnanswered(r, f) == {}

RepeatFrames(r, f) == Ack(r, f, ctx[r].local_dataset_version)

Repeat(r, f, intact) ==
  /\ Repeats(r, f, intact)
  /\ UNCHANGED vars

\* A new update
Accepts(r, f, intact) == Verdict(r, f, intact) = "NONE" /\ ~IsLastApplied(r, f)

\* num8lora_apply_update_to_num8: what the engine holds after n of the changes,
\* removals first
First(list, n) == {list[i] : i \in 1..n \cap DOMAIN list}

AfterChanges(numbers, f, n) ==
  (numbers \ First(f.removes, n)) \cup First(f.adds, n - Len(f.removes))

Changes(f) == Len(f.removes) + Len(f.adds)

ApplyFrames(r, f) == Ack(r, f, f.to)

\* Slip: whose update was applied is not noted
ApplyAnonymously(r, f, intact) ==
  /\ Accepts(r, f, intact)
  /\ engine' = [engine EXCEPT ![r] = AfterChanges(@, f, Changes(f))]
  /\ flushed' = [flushed EXCEPT ![r] = engine'[r]]
  /\ ctx' = [ctx EXCEPT
       ![r].local_dataset_version = f.to,
       ![r].last = Batch(f.update_id, f.from, f.to, Len(f.removes), Len(f.adds),
                         ctx[r].pending.crc),
       ![r].state = "SCAN"]

Apply(r, f, intact) ==
  /\ Accepts(r, f, intact)
  /\ engine' = [engine EXCEPT ![r] = AfterChanges(@, f, Changes(f))]
  /\ flushed' = [flushed EXCEPT ![r] = engine'[r]]
  /\ ctx' = [ctx EXCEPT
       ![r].local_dataset_version = f.to,
       ![r].last = Batch(f.update_id, f.from, f.to, Len(f.removes), Len(f.adds),
                         ctx[r].pending.crc),
       ![r].last_sender_id = f.sender_id,
       ![r].state = "SCAN"]

\* Slip: the status of the engine is not looked at
ApplyFailUnnoticed(r, f, intact, n) ==
  /\ Accepts(r, f, intact)
  /\ n \in 0..Changes(f)
  /\ engine' = [engine EXCEPT ![r] = AfterChanges(@, f, n)]
  /\ ctx' = [ctx EXCEPT ![r].local_dataset_version = f.to, ![r].state = "SCAN"]
  /\ UNCHANGED flushed

\* The engine fails after n changes, or the flush that follows the last one
\* does.  What was changed stays changed.
ApplyFailFrames(r, f) == Nack(r, f, f.update_id, "APPLY_FAILED")

ApplyFail(r, f, intact, n) ==
  /\ Accepts(r, f, intact)
  /\ n \in 0..Changes(f)
  /\ engine' = [engine EXCEPT ![r] = AfterChanges(@, f, n)]
  /\ UNCHANGED <<ctx, flushed>>

-----------------------------------------------------------------------------
HandleData(r, f, intact) ==
  \/ Refuse(r, f, intact) \/ Repeat(r, f, intact) \/ Apply(r, f, intact)
  \/ \E n \in 0..Changes(f) : ApplyFail(r, f, intact, n)

Next ==
  \E r \in ReceiverIds :
    \/ GiveUp(r) \/ Retry(r)
    \/ Restart(r, ctx[r].local_dataset_version, ctx[r].last.update_id)
    \/ \E f \in Frames, intact \in BOOLEAN :
         \/ f.type = "BEACON" /\ HandleBeacon(r, f, intact)
         \/ f.type = "DATA" /\ HandleData(r, f, intact)

Spec == Init /\ [][Next]_vars
-----------------------------------------------------------------------------
\* Every variable is in its type: no number outside the domain is ever stored.
TypeOK ==
  /\ \A r \in ReceiverIds :
       /\ ctx[r].state \in {"SCAN", "WAIT_UPDATE"}
       /\ ctx[r].retries \in 0..MaxRetries
       /\ ctx[r].local_dataset_version \in Nat
       /\ ctx[r].pending.to >= ctx[r].pending.from
  /\ engine \in [ReceiverIds -> SUBSET (0..MAX_VALUE)]
  /\ flushed \in [ReceiverIds -> SUBSET (0..MAX_VALUE)]

\* Whatever frames arrive, from whichever sender, a receiver changes its version
\* only by the batch whose checksum the latest beacon it answered announced, only
\* from the version that batch was made for, and with all of its changes flushed:
\* an update that was replaced under the same id is not mistaken for the new one.
AppliesWhatWasAnnounced ==
  [][\A r \in ReceiverIds :
       ctx'[r].local_dataset_version # ctx[r].local_dataset_version =>
         \E f \in Frames :
           /\ f.type = "DATA"
           /\ ctx[r].pending.crc = PayloadCrc(f)
           /\ f.from = ctx[r].local_dataset_version
           /\ f.to = ctx'[r].local_dataset_version
           /\ flushed'[r] = (engine[r] \ Elements(f.removes)) \cup Elements(f.adds)
    ]_vars
=============================================================================
