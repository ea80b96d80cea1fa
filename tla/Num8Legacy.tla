----------------------------- MODULE Num8Legacy -----------------------------
(***************************************************************************)
(* The legacy batch protocol as a whole: the sender and the receivers of   *)
(* Num8LegacySender and Num8LegacyReceiver, the radio between them and the *)
(* applications.  What is added here is not under src/src; it follows from *)
(* how the calls fit together (docs/SPECIFICATION.md, "Batch update flow", *)
(* tests/num8lora_flow_num8_test.c):                                       *)
(*   - a radio that loses, damages, repeats, delays and reorders frames,   *)
(*     and on which other receivers may hear a frame (Overhearing);        *)
(*   - a sender's application that offers the updates of Updates;          *)
(*   - a receiver's application that stores the version and update id      *)
(*     (num8lora_save_receiver_meta) before it transmits the answer to an  *)
(*     UPDATE_DATA frame, and resumes from them after a restart.           *)
(* Who answers what is decided by the message type of a frame.             *)
(***************************************************************************)
EXTENDS Num8LegacyFrame, FiniteSets

CONSTANTS
  SenderId, ReceiverIds, ExpectedSender, MaxRetries,
  Updates,        \* the updates in the order of their versions
  FirstVersion, FirstNumbers,
  MaxFaults,      \* bound: lost, damaged and unwritten frames, engine failures
  MaxRestarts,    \* bound: restarts of receivers
  Repeating,      \* the radio may deliver a frame any number of times
  Overhearing,    \* every receiver gets every UPDATE_DATA frame
  Damaging,       \* damaged frames reach the receiver's call
  Patient         \* timers, beacons and offers wait until the air is quiet

ASSUME LegacyAssumption ==
  /\ NoId \notin ReceiverIds
  /\ FirstVersion \in Nat /\ FirstNumbers \subseteq 0..MAX_VALUE
  /\ MaxRetries \in Nat
  /\ \A u \in Elements(Updates) :
       /\ u.from \in Nat /\ u.to \in Nat
       /\ u.removes \in Seq(Nat) /\ u.adds \in Seq(Nat)

VARIABLES
  state, update, update_payload_crc, target_receiver_id, retries, \* the sender
  ctx, engine, flushed,                                       \* the receivers
  stored,      \* per receiver, the version and update id in its metadata file
  outbox,      \* per receiver, the answer not transmitted yet
  net,         \* frames on their way: pairs of a destination and a frame
  confirmed,   \* ids of the updates that the sender reported as applied
  faults,      \* faults so far
  restarts     \* restarts so far

senderVars == <<state, update, update_payload_crc, target_receiver_id, retries>>
receiverVars == <<ctx, engine, flushed>>
vars == <<senderVars, receiverVars, stored, outbox, net, confirmed,
          faults, restarts>>

S == INSTANCE Num8LegacySender
R == INSTANCE Num8LegacyReceiver WITH Frames <- {}

Metadata(version, update_id) ==
  [dataset_version |-> version, last_applied_update_id |-> update_id]

Init ==
  /\ S!Init /\ R!Init
  /\ stored = [r \in ReceiverIds |-> Metadata(FirstVersion, 0)]
  /\ outbox = [r \in ReceiverIds |-> {}]
  /\ net = {}
  /\ confirmed = {}
  /\ faults = 0 /\ restarts = 0

-----------------------------------------------------------------------------
(* The radio. *)

\* The destinations that get frame f
Hearers(f) ==
  IF f.type = "BEACON" \/ (Overhearing /\ f.type = "DATA") THEN ReceiverIds
  ELSE {f.receiver_id}

OnAir(frames) == UNION {{<<d, f>> : d \in Hearers(f)} : f \in frames}

\* Frame p is delivered and the given frames are sent
Exchange(p, frames) ==
  net' = (IF Repeating THEN net ELSE net \ {p}) \cup OnAir(frames)

Send(frames) == net' = net \cup OnAir(frames)

Fault == faults < MaxFaults /\ faults' = faults + 1
NoFault == UNCHANGED faults

Quiet == net = {} /\ \A r \in ReceiverIds : outbox[r] = {}

Lose ==
  /\ ~Repeating   \* a frame that is never delivered is as good as lost
  /\ \E p \in net : net' = net \ {p}
  /\ Fault
  /\ UNCHANGED <<senderVars, receiverVars, stored, outbox, confirmed, restarts>>

-----------------------------------------------------------------------------
(* The sender and its application. *)

\* A patient application offers one update after the other
Offer(n) ==
  /\ Patient => /\ Quiet /\ state = "IDLE"
                /\ \A k \in DOMAIN Updates :
                     Updates[k].update_id \in confirmed <=> k < n
  /\ \E r \in ReceiverIds : S!SetUpdate(r, Updates[n])
  /\ NoFault
  /\ UNCHANGED <<receiverVars, stored, outbox, net, confirmed, restarts>>

Beacon ==
  /\ Patient => Quiet
  /\ Send(S!BeaconFrames)
  /\ NoFault
  /\ UNCHANGED <<senderVars, receiverVars, stored, outbox, confirmed, restarts>>

SenderReceives(p) ==
  /\ p[1] = SenderId
  /\ \/ /\ S!HandleRequest(p[2], TRUE)
        /\ Exchange(p, S!RequestAnswers(p[2]))
        /\ UNCHANGED confirmed
     \/ /\ S!HandleAnswer(p[2], TRUE)
        /\ Exchange(p, {})
        /\ confirmed' = IF S!Result(p[2]) = "APPLIED"
                        THEN confirmed \cup {update.update_id} ELSE confirmed
     \/ /\ S!Ignores(p[2], TRUE)
        /\ Exchange(p, {})
        /\ UNCHANGED <<senderVars, confirmed>>
  /\ NoFault
  /\ UNCHANGED <<receiverVars, stored, outbox, restarts>>

AckTimeout ==
  /\ Patient => Quiet
  /\ \/ S!GiveUp /\ UNCHANGED <<net, faults>>
     \/ S!Retry /\ Send(S!DataFrames(target_receiver_id)) /\ NoFault
  /\ UNCHANGED <<receiverVars, stored, outbox, confirmed, restarts>>

\* The buffer is too small for the frame, which costs the retry all the same
AckTimeoutUnwritten ==
  /\ S!Retry /\ Fault
  /\ UNCHANGED <<receiverVars, stored, outbox, net, confirmed, restarts>>

-----------------------------------------------------------------------------
(* A receiver and its application. *)

\* A beacon, or a NACK of the sender, which no call takes
Hears(r) ==
  \E p \in net :
    /\ p[1] = r /\ p[2].type # "DATA" /\ outbox[r] = {}
    /\ \/ /\ R!HandleBeacon(r, p[2], TRUE)
          /\ Exchange(p, R!RequestFrames(r, p[2].sender_id, p[2].update_id))
       \/ /\ ~R!TakesBeacon(r, p[2], TRUE)
          /\ Exchange(p, {})
          /\ UNCHANGED receiverVars
    /\ NoFault
    /\ UNCHANGED <<senderVars, stored, outbox, confirmed, restarts>>

UpdateTimeout(r) ==
  /\ outbox[r] = {}
  /\ Patient => Quiet
  /\ \/ R!GiveUp(r) /\ UNCHANGED net
     \/ R!Retry(r) /\ Send(R!RetryFrames(r))
  /\ NoFault
  /\ UNCHANGED <<senderVars, stored, outbox, confirmed, restarts>>

UpdateTimeoutUnwritten(r) ==
  /\ R!Retry(r) /\ Fault
  /\ UNCHANGED <<senderVars, stored, outbox, net, confirmed, restarts>>

\* p carries an UPDATE_DATA frame and is answered by frames
Answers(r, p, frames) ==
  /\ outbox' = [outbox EXCEPT ![r] = frames]
  /\ Exchange(p, {})
  /\ UNCHANGED <<senderVars, stored, confirmed, restarts>>

DataFor(r) == {p \in net : p[1] = r /\ p[2].type = "DATA" /\ outbox[r] = {}}

Gets(r) ==
  \E p \in DataFor(r) :
    LET f == p[2]
    IN  /\ \/ R!Refuse(r, f, TRUE) /\ Answers(r, p, R!RefusalFrames(r, f, TRUE))
           \/ R!Repeat(r, f, TRUE) /\ Answers(r, p, R!RepeatFrames(r, f))
           \/ R!Apply(r, f, TRUE) /\ Answers(r, p, R!ApplyFrames(r, f))
        /\ NoFault

\* The frame is damaged on the way, or the engine fails.  If the damage is to
\* the address of the sender the NACK is lost, too.
GetsFaulty(r) ==
  \E p \in DataFor(r) :
    LET f == p[2]
    IN  /\ \/ \E frames \in {{}, R!RefusalFrames(r, f, FALSE)} :
                Damaging /\ R!Refuse(r, f, FALSE) /\ Answers(r, p, frames)
           \/ \E n \in 0..R!Changes(f) :
                R!ApplyFail(r, f, TRUE, n) /\ Answers(r, p, R!ApplyFailFrames(r, f))
        /\ Fault

Progress(r) == Metadata(ctx[r].local_dataset_version, ctx[r].last.update_id)

\* num8lora_save_receiver_meta: Num8Metadata shows why this is one step
Store(r) ==
  /\ stored[r] # Progress(r)
  /\ stored' = [stored EXCEPT ![r] = Progress(r)]
  /\ NoFault
  /\ UNCHANGED <<senderVars, receiverVars, outbox, net, confirmed, restarts>>

Reply(r) ==
  /\ outbox[r] # {} /\ stored[r] = Progress(r)
  /\ Send(outbox[r])
  /\ outbox' = [outbox EXCEPT ![r] = {}]
  /\ NoFault
  /\ UNCHANGED <<senderVars, receiverVars, stored, confirmed, restarts>>

Restart(r) ==
  /\ restarts < MaxRestarts /\ restarts' = restarts + 1
  /\ R!Restart(r, stored[r].dataset_version, stored[r].last_applied_update_id)
  /\ outbox' = [outbox EXCEPT ![r] = {}]
  /\ NoFault
  /\ UNCHANGED <<senderVars, stored, net, confirmed>>

-----------------------------------------------------------------------------
Receives == \E p \in net : SenderReceives(p)
Offers == \E n \in DOMAIN Updates : Offer(n)

ReceiverStep(r) ==
  \/ Hears(r) \/ UpdateTimeout(r) \/ UpdateTimeoutUnwritten(r)
  \/ Gets(r) \/ GetsFaulty(r)
  \/ Store(r) \/ Reply(r) \/ Restart(r)

Next ==
  \/ Offers \/ Beacon \/ Receives \/ AckTimeout \/ AckTimeoutUnwritten
  \/ Lose
  \/ \E r \in ReceiverIds : ReceiverStep(r)

Spec == Init /\ [][Next]_vars

(***************************************************************************)
(* The event loops keep running: frames that arrive are handled, answers   *)
(* are stored and transmitted, and timers and beacons get their turn even  *)
(* if frames keep the air busy in between (SF).  The application offers    *)
(* the next update, and one the sender gave up again.                      *)
(***************************************************************************)
Fairness ==
  /\ WF_vars(Receives) /\ SF_vars(Beacon) /\ SF_vars(AckTimeout)
  /\ SF_vars(Offers)
  /\ \A r \in ReceiverIds :
       /\ WF_vars(Hears(r)) /\ WF_vars(Gets(r))
       /\ WF_vars(Store(r)) /\ WF_vars(Reply(r))
       /\ SF_vars(UpdateTimeout(r))

FairSpec == Spec /\ Fairness

-----------------------------------------------------------------------------
\* The update that leads to version v
UpdateTo(v) == CHOOSE u \in Elements(Updates) : u.to = v

\* What update u makes of the numbers
Updated(numbers, u) == (numbers \ Elements(u.removes)) \cup Elements(u.adds)

\* The numbers of version v
Numbers[v \in Nat] ==
  IF \A u \in Elements(Updates) : u.to # v THEN FirstNumbers
  ELSE Updated(Numbers[UpdateTo(v).from], UpdateTo(v))

\* No two updates start from the same version or lead to the same one
Chained ==
  \A u \in Elements(Updates) :
    /\ u.to # FirstVersion
    /\ \A t \in Elements(Updates) : t.from = u.from \/ t.to = u.to => t = u

\* An update id names one update
Identified ==
  \A t, u \in Elements(Updates) : t.update_id = u.update_id => t = u

Versions == {FirstVersion} \cup {u.to : u \in Elements(Updates)}
UpdateIds == {u.update_id : u \in Elements(Updates)}

\* Every variable is in its type; nothing is on the air that no decoder takes.
TypeOK ==
  /\ state \in {"IDLE", "WAIT_REQUEST", "WAIT_ACK"}
  /\ update \in Elements(Updates) \cup {NoUpdate}
  /\ state # "IDLE" => update # NoUpdate
  /\ retries \in 0..MaxRetries
  /\ \A r \in ReceiverIds :
       /\ ctx[r].state \in {"SCAN", "WAIT_UPDATE"}
       /\ ctx[r].retries \in 0..MaxRetries
       /\ ctx[r].local_dataset_version \in Versions
       /\ ctx[r].last.update_id \in UpdateIds \cup {0}
       /\ stored[r].dataset_version \in Versions
       /\ \A f \in outbox[r] : f.sender_id = r /\ Decodable(f)
  /\ \A p \in net : p[1] \in ReceiverIds \cup {SenderId} /\ Decodable(p[2])
  /\ confirmed \subseteq UpdateIds

\* The numbers a receiver holds are those of the version it reports, and each
\* of them those of that version or the next if a failure or a restart cut an
\* update short: a batch is applied to the version it was made for, as it was
\* announced, and the next success repairs what a failure left half done.
DatasetIsVersion ==
  \A r \in ReceiverIds :
    LET v == ctx[r].local_dataset_version
    IN  \/ engine[r] = Numbers[v]
        \/ /\ faults > 0 \/ restarts > 0
           /\ \E u \in Elements(Updates) :
                /\ u.from = v
                /\ Numbers[v] \cap Numbers[u.to] \subseteq engine[r]
                /\ engine[r] \subseteq Numbers[v] \cup Numbers[u.to]

Rollout == INSTANCE Num8Rollout WITH
  Updates <- Elements(Updates),
  version <- [r \in ReceiverIds |-> ctx[r].local_dataset_version],
  stored <- [r \in ReceiverIds |-> stored[r].dataset_version]

\* Receivers follow the updates and fall back only to what they stored, and
\* ACKRES_APPLIED is true of some receiver for good, although an ACK may come
\* late, again, from another receiver than the one served, or after a restart.
RolloutKept == Rollout!Spec

\* UPDATE_DATA is on the air only for receivers that hold, or held, the version
\* it is made from, and a sender that waits for an ACK waits for such a
\* receiver: a request it is answered with was never outrun by a restart.
DataFitsReceiver ==
  /\ \A p \in net : p[2].type = "DATA" =>
       ctx[p[2].receiver_id].local_dataset_version >= p[2].from
  /\ state = "WAIT_ACK" =>
       ctx[target_receiver_id].local_dataset_version >= update.from

\* "duplicate frame tolerance" (docs/SPECIFICATION.md:22): UPDATE_DATA for a
\* receiver, of the update it applied last, is recognised and acknowledged.
DuplicatesTolerated ==
  \A p \in net : \A r \in ReceiverIds :
    p[1] = r /\ p[2].type = "DATA" /\ p[2].receiver_id = r
    /\ p[2].update_id = ctx[r].last.update_id => R!Repeats(r, p[2], TRUE)

\* Every update is applied and confirmed in the end, although frames are lost
\* and the engine fails, if there are more retries than such faults and no damaged
\* frame reaches a call (~Damaging): the NACK of a damaged repetition makes the
\* sender idle although the update was applied, and the receiver then ignores its
\* beacons, so nothing confirms it.
EveryUpdateConfirmed ==
  \A n \in DOMAIN Updates : <>(Updates[n].update_id \in confirmed)
=============================================================================
