# num8lora in TLA+

num8lora distributes a set of 8-digit numbers (a NUM8 dataset) from one sender
to many receivers over a slow, lossy radio. This directory models both of its
protocols, checks them with TLC on small instances, and proves their central
properties with TLAPS for every instance:

* the *asynchronous* protocol: one operation per frame, one operation in flight
  per receiver, a bounded log shared by all of them;
* the *legacy* protocol: one update at a time, a batch of removals and additions
  in a single frame, announced by beacons and sent to whoever asks for it.

Source paths below are relative to the repository, which is found under `src/`
(so the C files are in `src/src/`).

## 1. The system

| Component | Source | State | Operations |
|---|---|---|---|
| Asynchronous sender | `src/num8lora_sender.c` | log of operations in a ring (`op_*`), a slot per receiver, scan cursor, frame number | init, register / unregister receiver, set progress, enqueue (single, lists), build_beacon, poll_tx, handle_rx, handle_request |
| Asynchronous receiver | `src/num8lora_receiver.c` | `last_applied_op_id`, frame number; the dataset behind the callback | init, handle_beacon, handle_data, apply_num8 |
| Operation frame codec | `src/num8lora_op.c` | none | encode / decode of BEACON, REQUEST, DATA, ACK, NACK |
| Receiver metadata | `src/num8lora_metadata.c`, `src/num8lora_meta.c` | a 26-byte record in a file | encode, decode, matches_stream, save_file, load_file |
| Legacy runtime | `src/num8lora_runtime.c` | sender: IDLE / WAIT_REQUEST / WAIT_ACK, the update, its target and retries; receiver: SCAN / WAIT_UPDATE, dataset version, the announced update and the one applied last | init, set_update, build_beacon, handle_update_request, handle_ack_or_nack, on_ack_timeout; init, handle_beacon, on_update_timeout, validate_update_data |
| NUM8 bridge | `src/num8lora_num8_bridge.c` | none (changes the dataset) | validates, applies a whole update (removes, adds, flush) and answers |
| Legacy codec, byte helpers | `src/num8lora.c`, `src/num8lora_codec.c` | none | encode / decode / classify, rules for the numbers of a batch, CRC-16, little-endian |

**How they interact.** The library has no threads, sockets or clocks. An
application calls it: it passes the time to `poll_tx` and `handle_rx`, transmits
the frame a call leaves in the buffer, hands in the frames the radio delivers,
and keeps the receiver's `last_applied_op_id` in a file. Sender and receivers
share nothing but frames:

    BEACON (newest op_id)  ->  REQUEST (next needed)  ->  DATA  ->  ACK | NACK

`poll_tx` does not wait for a REQUEST; it sends to any receiver that is behind.
A REQUEST only makes a retransmission due at once.

The legacy protocol has the same shape with an UPDATE_DATA frame in the place of
DATA, but its sender does wait: for a REQUEST while the update is announced, and
for the ACK or NACK of one receiver once it has sent the batch. Its timeouts are
the application's, which calls `on_ack_timeout` and `on_update_timeout`.

**What is hard.** One log serves receivers that acknowledge at different speeds,
come, leave and are given up; it may forget only what all of them have. Its ring
wraps while its ids grow. Frames are lost, repeated, delayed and reordered, and
an ACK carries nothing but an op_id. A receiver can stop between applying an
operation and storing that it did, and between storing and answering. Retries
race with late answers. Every frame number, time and op_id has a width. A batch
can fail after some of its changes, or the device stop before they are flushed,
and its repetition must repair that. An ACK is compared with the update but not
with the receiver it comes from, a NACK with nothing. The list with lines is
under `hazards` in `PROJECT.json`.

**What makes each component correct.**

* sender: the ring holds exactly the retained window, in place; what a receiver
  needs or has in flight is never dropped; a retained operation does not change;
  slots carry nothing over from their previous receiver; nobody is starved;
* receiver: the dataset is always that of a prefix of the stream, namely of the
  prefix it reports;
* the line: what the sender counts as acknowledged survives a crash of the
  receiver; whoever is behind can catch up; every operation is delivered;
* metadata: a save that stops anywhere leaves a record that loads;
* legacy: a receiver applies only what was announced to it, only to the version it
  was made for, and reports a version only with its numbers; the sender reports an
  update as applied only if it is; a repeated update is acknowledged again; every
  update is confirmed in the end;
* codecs: nothing is sent that the other side cannot decode; damage is noticed.

## 2. Modules

| Module | Models | Notes |
|---|---|---|
| `Num8Op` | the codec | a frame is a record; what encode and decode refuse is kept, bytes and CRC are not |
| `Num8Sender` | the sender | one action per public call |
| `Num8SenderFairness` | an observer of the scan | counts how often a ready slot is passed over |
| `Num8Receiver` | any number of receivers | `Verdict` is the decision ladder of handle_data, `Replies` what it writes |
| `Num8Metadata` | the metadata record and file | save_file call by call, with failures and crashes |
| `Num8Progress` | nothing: an abstract specification | progress that advances by one, is stored in one step, and falls back to what was stored |
| `Num8Delivery` | nothing: an abstract specification | a bounded buffer with many readers, some of which join late or fall back to what they acknowledged |
| `Num8Async` | sender, receivers, transport, application | composes the two by INSTANCE; implements `Num8Progress` per receiver and `Num8Delivery` |
| `Num8LegacyFrame` | the legacy codec | frames, what encode, decode and classify accept, the rules for the numbers of a batch |
| `Num8LegacySender` | the legacy sender | one action per call and outcome |
| `Num8LegacyReceiver` | any number of legacy receivers with the bridge and their engines | `Verdict` is validate_update_data; an engine may fail after any number of changes |
| `Num8Rollout` | nothing: an abstract specification | receivers that follow a chain of versions, and a sender that confirms only what is stored |
| `Num8Legacy` | legacy sender, receivers, radio, applications | composes the two by INSTANCE; implements `Num8Rollout` |
| `Num8Crc` | the frame checksum and its byte order | operators only, checked against a division of polynomials |
| `Num8SenderProofs` | theorems about the log and the slots of `Num8Sender` | |
| `Num8FairnessProofs` | the theorem about `Num8SenderFairness` | extends `Num8SenderProofs` |
| `Num8ReceiverProofs` | theorems about `Num8Receiver` | |
| `Num8AsyncProofs` | theorems about `Num8Async` | uses those of the sender and the receivers by INSTANCE |
| `Num8NatProofs` | nothing: a set of naturals has a least element | how the proofs do induction |
| `Num8MetadataProofs` | theorems about `Num8Metadata` | |
| `Num8LegacyReceiverProofs` | theorems about `Num8LegacyReceiver` | |
| `Num8LegacyProofs` | theorems about `Num8Legacy` | uses lemmas of the receiver's by INSTANCE |
| `MC...` | small instances | |

### From code to model

*Sender.* `log` is a record with the fields `latest_op_id`,
`oldest_retained_op_id`, `op_head`, `op_count` and `ops`; `receivers[i]` is the
slot struct; `seq` is the frame number and `poll_cursor` the cursor. `now` is the
time the application passes next. The internal helpers are operators on a log and a slot
table (`ActiveFloor`, `Reclaim`, `EnqueueOp`, `OpAt`), because a call may run
several of them (enqueue_lists reclaims before every operation) and that must be
one step. `Reclaim` is part of every action whose code calls
`sender_reclaim_history`, including poll_tx when it sends nothing. poll_tx has
three outcomes, each an action: a frame (`PollSend(k)`, k slots were passed
over), a failure to encode at the slot whose turn it is (`PollFail`: the retry
is counted, the number may be used), nothing to do (`PollIdle`). Slots passed
over whose retries are used up become exhausted in all three. Refused calls
change nothing and are stuttering. uint32_t ids wrap (`Inc32`); the
deadline saturates (`DeadlineAfter`), as in the code; `seq` stops one below its
largest value.

*Receiver.* `HandleData(r, f, ok, room)` is the whole handler: `ok` is what the
callback would return and `room` how large the caller's buffer is. The buffer
is tested before the callback runs, so a callback never runs without an answer.
The receiver's frame counter only numbers its answers and is left out.

*The metadata.* `save_file` is `Open`, `Write`, `Close`, `Replace`: one action
per call into the C library, because each can fail and the process can stop
between any two. A failure leads to `GiveUp` (remove the temporary file, whether
or not that works). A file is a sequence of units, so a write can stop in the
middle; CRC and magic are taken to tell a record from anything else. `Restart`
loads the file, compares the stream and its epoch, and resumes from there or from
0. The disk may hold records of other streams, epochs or versions at first.

*The line.* `net` is a set of (destination, frame) pairs. With `Repeating`,
delivery does not remove a frame: it may arrive again at any time, later than
anything, or never, which covers loss, duplication, delay and reordering.
Without it frames are delivered once, in any order, or lost by `Lose`. `outbox`
is the answer the receiver's application has not transmitted yet, `stored` the
op_id in its metadata file. `Crash` restarts a receiver from `stored`. An
application registers a receiver before the first operation or later, as long as
the log still has, once the call has reclaimed, what the receiver needs next
(`Register`); otherwise the receiver could never be served.

*The legacy sender.* `update` is `update_hdr` with the two lists,
`target_receiver_id` and `retries` the fields of that name. A call whose buffer is
too small returns before it changes anything, which is the same as the loss of
the frame it was given; `num8lora_sender_on_ack_timeout` is the exception: it
counts the retry first (`AckTimeoutUnwritten`), and so does
`num8lora_receiver_on_update_timeout`. A REQUEST that cannot be served ends the
update (`RefuseRequest`), as does any NACK; an ACK must name the update and its
version, but may be from anyone. The frame counter and `last_nack_error`, which no
call reads, are left out.

*The legacy receiver.* `ctx[r]` is its context; `pending` and `last` are the
fields of the announced update and of the one applied last. The call that gets an
UPDATE_DATA frame is one of four actions: `Refuse` (the frame is damaged, for
somebody else, not what was announced, or breaks a rule for its numbers),
`Repeat` (it was applied before and is acknowledged again), `Apply`, and
`ApplyFail` after any number of changes. `engine` is what the NUM8 engine
holds and `flushed` what it held at the last flush: a `Restart` keeps any part of
the changes since.

*The legacy radio and applications.* `net` and `outbox` are as above. With
`Overhearing` other receivers get a frame as well; with `Damaging` a damaged frame
reaches the receiver, which then answers with a NACK if the damage left the
address of the sender alone. `confirmed` holds the updates whose result was
`ACKRES_APPLIED`.

*The checksum.* Frames are records, and a frame is damaged or not. What
justifies this is `Num8Crc`: the loops of `num8lora_codec.c` compute the
CRC-16/CCITT-FALSE, and a frame hit by the radio is refused, although
`finalize_crc` writes the checksum low byte first, against the order of its bits.

### Assumptions about what is not in the library

These are stated in the documents or follow from the demo
(`examples/async_demo.c`); without them the library cannot keep its promises.

* An application enqueues nothing before it registered somebody (demo lines
  34-42), and registers nobody whose next operation is gone (`Register`);
  `Num8Sender` has register with any progress, at any time.
* A receiver's progress is stored before its answer is transmitted
  (`StoreFirst`). The deployment checklist asks for persistence but not for the
  order, and `docs/QUICKSTART.md:39-40` even lists emitting the ACK or NACK before
  persisting the state. With `StoreFirst = FALSE` the run `async` finds `AckedIsStored` violated:
  ACK, crash, and the sender has forgotten what the receiver needs again.
* A save is one step in `Num8Async`. That is justified, not assumed:
  `Num8Metadata` is proved to implement `Num8Progress`, whose save is one step, and
  `Num8Async` is proved to implement the same module for each receiver.
* A crash is the end of the process; a power failure that undoes or reorders a
  rename is not covered (the code does not fsync).
* A restarting application takes a record that fails to load, or is of another
  stream or epoch, as no progress.
* The dataset survives a crash (NUM8 engine, flush policy of the application),
  and the callback is idempotent, as the checklist asks; `ApplyNum8` is.
* A legacy receiver's application stores version and update id before it
  transmits the answer to an UPDATE_DATA frame, and resumes from them. The bridge
  flushes before it answers (`num8lora_num8_bridge.c:98`), so a stored version is
  one whose numbers are on disk. Changes that were not flushed are on disk or not,
  each for itself.
* The updates offered to the legacy sender form one chain of versions
  (`Chained`), as their `from` and `to` suggest. Two different updates from the
  same version, one of which failed half way, could leave numbers of both; no call
  checks for it.
* A sender does not crash: it has no persistent state to restart from, and frames
  carry no epoch by which a receiver could notice.
* A REQUEST for reclaimed history goes to handle_request and everything else to
  handle_rx. In the legacy protocol the message type decides which call a frame
  is given to.

"Slip:" in front of a definition means that it is not the code but a plausible
mistake in the definition that follows; each property is shown to notice one.

## 3. Runs

| Run | Question | States |
|---|---|---|
| `sender` | Can any order of calls and frames, from two receivers and up to the last op_id, break the log, the slots or the registry, or starve somebody? | 436,000 |
| `sender_wrap` | (violation) Are ids handed out in increasing order? | |
| `receiver` | Is anything applied twice, out of order, or from elsewhere? | 169 |
| `metadata` | Does a save that is cut short or fails anywhere leave a record that loads? | 1,470 |
| `async` | Do sender and receiver agree under repetition, reordering, failures and crashes, and does a full log hold the application back? | 400,000 |
| `async_two` | The same for two receivers on one log, one of which may join late; can one lose what it needs? | 542,000 |
| `async_live` | Is every operation delivered? | 40,000 |
| `async_downtime` | (violation) Does a receiver recover after downtime by hearing beacons? | |
| `legacy_receiver` | Can any sequence of frames of two senders, engine failures and restarts make a receiver apply what was not announced? Is damage noticed? | 689 |
| `legacy` | Does the protocol implement `Num8Rollout`, and are a receiver's numbers those of its version, on a radio that repeats, reorders and damages, with a failure and a restart? | 656,000 |
| `legacy_live` | Is every update confirmed, and every repetition recognised? | 1,800 |
| `legacy_restart` | (violation) Is a repetition recognised after a restart? | |

What each property says is in the comment above it. The ones that took thought:

* `RingConsistent` is exact: `oldest + count = latest + 1` and every operation is
  where `find_op` computes.
* `NeededOpsKept` is an action property, because "is retained" is not an
  invariant: an application may set a progress the log no longer covers.
* `NoStarvation` bounds the wait in frames to others, not in time, so that it is
  a safety property and needs no fairness. Its observer, `Num8SenderFairness`, only
  watches: the run checks the sender's other properties through it.
* `AckedIsStored` bounds the distance of the two ends from both sides. Its upper
  half, at most one operation ahead, is why the sender may ignore late ACKs.
* `StoresAtomically` and `ProgressKept` are refinements of `Num8Progress`, by
  `stored <- Resumed(path)` and `stored <- stored[r]`: the file in steps and the
  receiver on the line keep the same promise. A refinement alone would allow a
  save that reports SUCCESS and does nothing; `SuccessIsDurable` excludes that.
* `DeliveryKept` is the refinement of `Num8Delivery`. Every operation of the
  sender, the receivers and the applications is one of its five actions or a
  stutter; that reclaiming never lets the publisher overtake the slowest joined
  receiver, and that an ACK counts for its own receiver and operation only, is
  what could break it.
* `DatasetIsPrefix` (line) allows one operation more than reported, after a
  fault only: applied, not yet stored, crashed.
* `AppliesWhatWasAnnounced` compares the content of what is applied with the
  checksum of the beacon answered last, so a batch that was replaced under the
  same id is noticed. It looks at what is flushed, not at the engine.
* `DatasetIsVersion` states how far the numbers may be off after a failure or a
  restart: between those of the version and those of the next one.
* `RolloutKept` is the refinement of `Num8Rollout`. Its `Confirm` asks for *some*
  receiver that stored the version: the code does not compare the sender of an
  ACK with the receiver it waits for, so a late ACK of another one confirms too.
* `DataFitsReceiver` excludes that a receiver is sent a batch for a version it
  never reached: its REQUEST is true, because it stores before it answers.
* `ChecksumCorrect` and `DamageDetected` are about operators, not states; written
  as formulas about behaviours they are something TLC can refute.

### Bounds and why they are enough

* Widths are small (`UINT32_MAX` 3 to 12, `UINT16_MAX` 4 to 16, `UINT64_MAX`
  0 to 6) so that every counter reaches its limit in the run.
* The stream of the `async` runs adds 0, adds 1, removes 0, so the datasets after
  0, 1, 2 and 3 operations all differ ({}, {0}, {0, 1}, {1}): `DatasetIsPrefix` tells
  a receiver that is one operation further after a fault from one that missed one.
* `MaxOpId` bounds enqueued operations: 3 with a ring of 2 wraps the ring; in
  `sender` it is `UINT32_MAX` itself, and the application may set any progress up
  to it; in `async_two` it is 2, so that a receiver can be a whole ring behind the
  other, and one that comes late can find its next operation gone. (That a full
  ring refuses the third is seen in `async`.)
* The frames in the runs of `Num8Sender` are *all* REQUESTs, ACKs and NACKs of
  the stream, at any time, plus foreign ones; the sender is correct whatever
  the receivers do.
* A batch of enqueue_lists has one or two values: one, several, both lists, and
  more than fit in a ring of two that holds one.
* `MaxFaults` bounds failing callbacks, small buffers and crashes (and losses
  when not `Repeating`): two of them in a row, or of different kinds.
* Two receivers are the fewest that can disagree about the floor and compete for
  a turn. Receivers are symmetric (their ids
  occur nowhere in the configuration but as a set), so those runs use symmetry;
  no run with a liveness property does.
* In `async_two` time stands still (`UINT64_MAX = 0`): deadlines saturate, every
  frame is always due, and retransmissions happen at any moment. That is more
  than the code can do with a clock, and nothing in the three properties
  depends on the time.
* In `metadata` a record has three units, so a write stops before, inside and
  after it; three operations give an old, a new and an in-between record.
* In `receiver` two contexts meet every frame with every op_id up to the width.
  A state is determined by two op_ids exactly because the invariant holds, which
  is why it is small.
* In `legacy_receiver` the frames are every beacon and UPDATE_DATA frame of six
  batches of two senders: two that follow each other, one in place of both, one
  with other numbers under the same id, and two that break the rules for numbers.
* In `legacy` two updates are enough for a frame to come late: from the version
  before, or for the one after. One receiver, one fault of any kind and one
  restart; `MCNum8Legacy` also defines two receivers and a single update, for an
  instance with `Overhearing` (2,227,000 states). The theorems of `Num8LegacyProofs`
  cover any number of either.
* `DamageDetected`: which bits are flipped decides, not the content, because the
  checksum of a message is affine in its bits. So one byte value, up to two bytes,
  every burst of up to 12 bits and every pair of bits. With 13 bits `DamageDetected` is violated: a burst that ends in the second
  byte of the checksum, which is the higher one, can pass. A CRC-16 sent in the
  order of its bits would detect 16. An UPDATE_DATA frame damaged like that still
  has to fit the checksum that its beacon announced.
* `ChecksumCorrect`: the loops and the division are both affine in the bits of
  messages of one length, so they agree on all of that length if they do on the
  message of zeros and on those with a single bit. The run has these for every
  length up to 16 bytes (an ACK before its checksum),
  besides every single byte, some mixed ones, and the two values that
  `tests/num8lora_codec_contract_test.c` expects.

### Fairness

Only `async_live`, `async_downtime` and `legacy_live` assume any. Weak fairness of poll_tx, of
receiving, storing and answering says that the event loops run; the demo's loop
and the call sequence in `docs/ASYNC_SPLIT_API.md` are exactly that. `Tick` has
strong fairness: with `Patient` it is enabled only while the air is quiet, which
beacons interrupt again and again, yet the clock advances. `BeaconSpec` adds
that the application keeps sending beacons. Nothing is assumed of enqueueing,
of an operator's intervention (`Revive`), or of faults.

`Patient` says that `ack_timeout_ms` exceeds the round trip. It is needed for
liveness, not for safety: the runs `async` and `async_two` do without it. With a
shorter timeout every attempt can be given up before its answer arrives.

`async_live` has `MaxRetries = 5` for `MaxFaults = 2`. A REQUEST makes a
retransmission due at once (`num8lora_sender.c:667`), so each beacon heard while
an operation is in flight uses up a retry; both the fault and the beacon it
provokes have to be paid for. With four retries the run finds a receiver given
up although only two things went wrong.

`legacy_live` asks for the same of the legacy loops: frames are handled, answers
stored and transmitted (weak fairness); beacons, timeouts and the application's
offers get their turn although frames keep the air busy in between (strong
fairness); an update that was given up is offered again. `Patient` says that
beacons, timeouts and offers wait for a round trip. Two things the code does have
to be excluded, or `EveryUpdateConfirmed` is violated:

* `MaxRetries` exceeds `MaxFaults`. Once the sender gave up, a receiver that has
  the update ignores its beacons (`num8lora_runtime.c:406`), so nobody asks for it
  and nobody confirms it.
* `Damaging` is FALSE: damaged frames are lost. If a *repeated* frame is damaged,
  the receiver answers with a NACK for the announced update, and a NACK makes the
  sender idle (`num8lora_runtime.c:299`) with an update that was applied.

## 4. Where code and documents differ

1. **`sender_wrap`**: `docs/ASYNC_SPLIT_API.md:27` calls the log "monotonic by
   `op_id`". A single enqueue increments `latest_op_id` with no test for the end
   of the range (`num8lora_sender.c:318`); after operation `UINT32_MAX` the newest
   is operation 0. `enqueue_lists` has the test (403-407). The other properties
   are proved under `MaxOpId <= UINT32_MAX` for this reason.
2. **`async_downtime`**: `docs/ASYNC_SPLIT_API.md:72` promises "straightforward
   per-receiver recovery after downtime". A receiver that was away for longer than
   the retries last is marked exhausted; when it comes back and answers a beacon,
   handle_rx refuses its REQUEST (655). Only `set_receiver_progress`
   (`Revive`) helps, and the document does not say so. Even an ACK that
   arrives after the last retry is ignored (683).

3. **`legacy_restart`**: `docs/SPECIFICATION.md:22` lists "duplicate frame
   tolerance" as a goal. A receiver that restarted remembers the id of its last
   update but neither its sender nor its checksum (`num8lora_runtime.c:362`), so
   the repetition of the frame it applied before the restart is refused as
   UPDATE_ID_UNKNOWN. No NACK goes out either: `pending_update_id` is 0 after init,
   too, and `num8lora_encode_nack` refuses that id (`num8lora.c:282`), so the call
   returns 0 with an internal error and no frame. The sender is told nothing: it
   times out, repeats the frame until its retries are used up, and becomes idle
   with an update that was applied. (If the receiver has answered the beacon of a
   later update in between, the NACK names that one, and ends the transfer.)

Found by reading, not by a run: `num8lora.h:167` says of a failed decode that
`out_hdr` and `out_payload` are cleared; the decoders of `num8lora.c` (363, for
one) return with what they had written so far. No caller under `src/src` looks at
it.

Also noticed, and harmless: a receiver whose ACK was lost REQUESTs the operation
after the one in flight, which is refused (659-666) until the retransmission is
acknowledged. The documents tell the application to call
`num8lora_save_receiver_meta`; the function that exists is
`num8lora_metadata_save_file`.

## 5. Proofs

Every safety invariant that a run checks, every action property about the
protocols and every refinement is also a theorem, for every value of the
constants. TLC confirmed the inductive invariants of the scheduler and of the two
composed systems on the configurations above before they were proved. A theorem that needs more than the assumptions declared
with the constants says so in its ASSUME, which the last column repeats.

| Theorem | Module | Statement | Assumes |
|---|---|---|---|
| `TypeCorrect` | `Num8SenderProofs` | `Spec => []TypeOK` | |
| `RingCorrect` | | `Spec => []RingConsistent` | `MaxOpId <= UINT32_MAX` |
| `InflightCorrect` | | `Spec => []InflightRetained` | same |
| `NeededOpsNeverDropped` | | `Spec => NeededOpsKept` | same |
| `RetainedOpsNeverChange` | | `Spec => RetainedOpsImmutable` | same |
| `ReceiversAreUnique` | | `Spec => []UniqueReceivers` | |
| `IdleSlotsAreClean` | | `Spec => []IdleSlotsClean` | |
| `NobodyStarves` | `Num8FairnessProofs` | `ObservedSpec => []NoStarvation` | |
| `ReceiverTyped` | `Num8ReceiverProofs` | `Spec => []TypeOK` | |
| `DatasetIsStream` | | `Spec => []DatasetIsPrefix` | |
| `LineTypeCorrect` | `Num8AsyncProofs` | `Spec => []TypeOK` | |
| `ProgressImplemented` | | `Spec => ProgressKept` | |
| `AcknowledgedIsStored` | | `Spec => []AckedIsStored` | `MaxOpId <= UINT32_MAX`, `StoreFirst` |
| `NextOpIsAvailable` | | `Spec => []NextOpAvailable` | same |
| `DatasetsAreStreams` | | `Spec => []DatasetIsPrefix` | same |
| `DeliveryImplemented` | | `Spec => DeliveryKept` | same |
| `MetadataTypeCorrect` | `Num8MetadataProofs` | `Spec => []TypeOK` | |
| `SavesAreDurable` | | `Spec => []SuccessIsDurable` | |
| `ImplementsProgress` | | `Spec => StoresAtomically` | |
| `ReceiverTypeCorrect` | `Num8LegacyReceiverProofs` | `Spec => []TypeOK` | |
| `AnnouncedIsApplied` | | `Spec => AppliesWhatWasAnnounced` | |
| `UpdatesFit` | `Num8LegacyProofs` | `Spec => []DataFitsReceiver` | |
| `ImplementsRollout` | | `Spec => RolloutKept` | |
| `LegacyTypeCorrect` | | `Spec => []TypeOK` | |
| `DatasetsFollowVersions` | | `Spec => []DatasetIsVersion` | `Chained` |
| `DuplicatesAnswered` | | `Spec => []DuplicatesTolerated` | `MaxRestarts = 0`, `Identified` |

**From which assumptions.**

* `MaxOpId <= UINT32_MAX`: op_ids do not wrap. Without it the log is not even
  monotonic, as `sender_wrap` shows.
* `StoreFirst`: see section 2; without it `async` finds `AckedIsStored` violated.
* `MaxRestarts = 0`: `legacy_restart` shows that it is needed. `Identified`: two
  updates do not share an id. `Chained`: no two updates start from the same version
  or lead to the same one. TLC evaluates both for the updates of `MCNum8Legacy`.
* `SenderAssumption`, `AsyncAssumption`, `MetadataAssumption`, `LegacyAssumption`:
  capacities, timeouts, widths, versions and numbers are naturals, `NoId` is no
  receiver. In particular a capacity may be 0 and a timeout may exceed the width.
* `StreamAssumption` (`Num8Receiver`): frames that decode, are of the stream, and
  come from a sender that the receiver trusts carry the content of the stream.
  Frames that fail any of the three tests may carry anything.
* `ReceiverAssumption` (`Num8LegacyReceiver`): a beacon's checksum is not 0.
  The code takes 0 for "not announced" (`num8lora_runtime.c:692`), and one batch in
  65536 has it; for that batch `AnnouncedIsApplied` says nothing. The frames may
  come from anybody and contradict each other.

**Along which arguments.**

*The sender.* Type correctness needs a bound the type does not state: `TypeInv` adds
`op_count <= OpCapacity`, without which the ring index could be taken modulo 0.

The theorems about the log share the inductive invariant `SenderInv`: `TypeInv`, a
good log (the ring condition, `latest_op_id <= MaxOpId`, `oldest_retained_op_id >= 1`)
and `InflightRetained`. `RingConsistent` alone is not inductive, since reclaiming
past the newest operation would break it: the floor has to be bounded by
`latest + 1`, and `latest + 1` must not wrap. `InflightRetained` is not inductive
without the ring condition, which is what makes "in the window" the same as
"found".

The argument: `ActiveFloor` is a minimum, which exists because the naturals are
well founded (`LeastElement`), so it exceeds neither `latest + 1` nor what any
active receiver needs (`FloorFacts`). The relation `Succeeds(a, b, rs)` says
what any sequence of log operations may do: the window moves forward only, keeps
what a receiver of `rs` needs, and leaves what stays retained untouched.
Reclaiming, appending and enqueueing each satisfy it, and it is transitive; a
batch and a failing enqueue need no argument of their own. `StepIsGood` then
turns "the log succeeds the old one with respect to the new slots" into all four
properties, and each action is one application of it.

*The slots.* `Keeps` says what a call may do to one slot: an active slot was active
and keeps its receiver, and a clean one stays clean. Every call but a registration
does no more to any slot. A registration takes a free slot, and only if find_slot
finds none for the receiver: that it then has none (`FoundIfThere`) is where the
least element is needed, since find_slot returns the first.

*The scheduler.* `NoStarvation` is not inductive: it does not say why the count
stops. `FairnessInv` does. A slot that is ready and was overtaken n times is fewer
than `ReceiverCapacity - n` slots away from the cursor (`Near`); a slot that is not
ready has a count of 0. When a frame goes to another slot, that slot came before
it in the scan, because the scan takes the first that is ready, and the cursor
then starts behind it (`CursorAdvances`): the count grows by one and the distance
shrinks by at least one. Nothing else moves the cursor (`CursorStays`).

*The receiver.* `AppliedIsNext` collects what the decision ladder has established
when it comes to "apply": the frame carries the next operation of the stream. The
rest is the definition of `StreamDataset`, which is recursive and so has to be
shown to exist. The induction theorems of the library are out of the provers'
reach, so the proof goes by the least counterexample: the dataset can be built up
to any operation (`BuiltExists`), always with the same result (`BuiltUnique`), and
what is built up to each n, taken at n, satisfies the recursive equation
(`StreamDatasetDef`).

*The line.* `Num8AsyncProofs` takes the sender's `SenderInv` and the receivers'
`StreamDatasetDef` from their modules through INSTANCE, and relates the two ends by
`LineInv`:

* `SenderKept`: `SenderInv`, and the log holds the stream's operations (`Streams`)
  and is behind nobody (`Behind`: it starts no later than what the slowest
  registered receiver needs), which is `NextOpAvailable` in the form that
  reclaiming preserves;
* `Agreed`: acknowledged <= stored <= applied <= acknowledged + 1, for each
  receiver. The bounds depend on each other: the upper one holds because only the
  operation after the last acknowledged one is ever in flight, the lower one
  because of what an ACK promises;
* `AnswersKept` and `NetKept`, those promises: an ACK in an outbox names nothing
  that was not applied, one on its way nothing that was not stored, and DATA is of
  the stream and no further than its receiver's next operation. They last, because
  what is stored and acknowledged only grows. `StoreFirst` turns the first into
  the second;
* `DataKept`: the dataset is the stream's after what is reported, or one more after
  a crash, until that operation is applied again. Applying it twice changes
  nothing, which is where the idempotence of the callback is used.

`SenderDoes` splits a step by what it means to the sender (it registers somebody,
enqueues, acknowledges one operation, or changes nothing that counts),
`ReceiversDo` by what it means to the receivers. Each meaning is an action of
`Num8Delivery` or a stutter, so the refinement follows from the same case split.
`LineTypeCorrect` and `ProgressImplemented` hold with wrapping ids and whatever
the order of storing and answering.

*The metadata.* `MetadataInv` says that during a save `record` is the record of
the current progress and that what is about to be renamed is whole. With
`EncodedInjective` a whole record loads as what it was made from, so `Replace` is
the abstract `Store`, `Restart` is `Crash`, and everything else but `Apply`
stutters. `Filed` adds for the types that a file is written to only while it is
empty, so it never holds more than a record.

*The legacy receiver.* A receiver that waits for an update knows its checksum, and
it is one that was announced (`Waiting`); so the test of the content at line 692 is
always made, what is accepted has the announced content, and `ChangedNumbers` says
what a batch, or the first n changes of it, make of a set of numbers.

*The legacy protocol.* `DataFitsReceiver` and `RolloutKept` are not inductive,
because both follow from what frames on the air say about the past. `IInv` states
it as the promise of each frame (`Kept`): a REQUEST of version v, that its sender
has stored v; an ACK of v, that some receiver has stored v; an UPDATE_DATA frame
made from v, that the receiver it is addressed to has stored v. Promises last,
since what is stored only grows (`PromisesLast`), and they are true when they are
made, since a receiver answers from its file (`AnswersOwed`, `SavedBehind`: it is
ahead of its file only while an answer waits in its outbox). The sender's state
carries the promise of the REQUEST it served (`Serving`). A `Restart` needs no case
of its own beyond that: it takes a receiver back to what is stored, which all
promises are about.

`DataInv` adds what the other three theorems need:

* every frame is `Genuine`: a beacon or UPDATE_DATA frame says what one of the
  offered updates says, and that update breaks no rule for its numbers. So what a
  receiver waits for is such an update (`ContextTyped`), and, until a restart, so is
  the one it remembers (`Remembers`), from which `DuplicatesTolerated` follows
  conjunct by conjunct of `Repeats`;
* `DiskKept`: the numbers in memory and on disk are those of the version reported,
  or after a failure or a restart `HalfWay` to the next. `HalfWay` is inductive
  because a part of a batch leaves it there (`BatchPart`) and a whole batch
  repairs it (`BatchRepairs`). A receiver whose file is behind is so by exactly one
  update, all of which is flushed: that is what a restart before the store needs,
  since the numbers are then those of the version *after* the one resumed.

`DatasetIsVersion` is about `Numbers`, which is recursive over the chain of updates
and has no number to count down: a version may be made from a larger one. That a
function satisfying it exists is shown without induction (`LeastSatisfies`):
the right-hand side grows with the function it is given, so the least function
that it does not make smaller is left unchanged by it.

**Only model-checked.**

* Liveness: `EveryOpDelivered` and `EveryUpdateConfirmed`. The prover handles
  neither ENABLED nor fairness.
* `ChecksumCorrect` and `DamageDetected`: `Num8Crc` uses Bitwise, which the provers
  cannot.
* That the three violated properties are violated.

## 6. Not modelled, and what comes next

Every part of the library that keeps state is modelled. Left out:

* byte layout: which field lies where in a frame or record, the 32-bit accessors
  and the helpers around them. A frame is the record of its fields;
* what a power failure does to a file that was renamed but not synced
  (`num8lora_meta.c:64` does not fsync);
* the reason why a file could not be opened: `num8lora_metadata_load_file` reports
  the same error for a missing file and for one it may not read
  (`num8lora_meta.c:183`). A restart takes both as no progress;
* a legacy update with id 0, which `set_update` takes and no beacon can announce
  (`num8lora_runtime.c:56`): the updates of the instances have other ids;
* a checksum of a batch that happens to be 0, which the receiver takes for one that
  was not announced (`num8lora_runtime.c:692`): checksums stand for what they are
  computed from;
* how an application learns that the sender's frame numbers are used up: `poll_tx`
  then returns 0 for ever, as it does when there is nothing to send. That it
  sends nothing more is modelled (`PollFail`);
* the build, packaging, tests and documents, which are read as the statement of what
  the code should do.

What is worth doing next:

1. What the abstract specifications imply on their own, for instance that no reader
   of `Num8Delivery` ever misses an operation: with the refinements, the same then
   holds of the line.
2. An instance of `Num8Async` with two receivers under the fair specification, if
   its state space can be kept small enough for liveness.
