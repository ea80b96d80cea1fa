-------------------------- MODULE Num8LegacyProofs --------------------------
(***************************************************************************)
(* Num8Legacy implements Num8Rollout, for any receivers, updates and       *)
(* retries and on the worst radio. The argument runs along the promises    *)
(* that the frames on the air make about what the receivers have stored    *)
(* (Kept): a REQUEST of version v, that its sender stored v; an ACK of v,  *)
(* that some receiver stored v; an UPDATE_DATA frame made from v, that the *)
(* receiver it is for stored v. They are kept for good, because what is    *)
(* stored only grows, and they are true when they are made, because a      *)
(* receiver stores before it transmits: it is ahead of its file only while *)
(* an answer waits in its outbox.                                          *)
(*                                                                         *)
(* The second half is about the numbers (DataInv). Every frame on the air  *)
(* is genuine: it says what an update says that the sender's application   *)
(* offered and the sender could send. So what a receiver waits for, and    *)
(* what it remembers of the update it applied last, is such an update, and *)
(* the numbers it applies lead from the version it reports to the next.    *)
(* What a failure or a restart leaves half done is between the two         *)
(* (HalfWay), a part of a batch leaves it there, and the whole batch       *)
(* repairs it.                                                             *)
(***************************************************************************)
EXTENDS Num8Legacy, TLAPS

Reported == [r \in ReceiverIds |-> ctx[r].local_dataset_version]
Saved == [r \in ReceiverIds |-> stored[r].dataset_version]

ContextFields == {"state", "retries", "local_dataset_version", "last",
                  "last_sender_id", "pending"}

ContextShape == /\ DOMAIN ctx = ReceiverIds
                /\ \A r \in ReceiverIds : DOMAIN ctx[r] = ContextFields

Shape ==
  /\ ContextShape
  /\ DOMAIN stored = ReceiverIds
  /\ DOMAIN outbox = ReceiverIds

SavedBehind ==
  /\ Reported \in [ReceiverIds -> Nat] /\ Saved \in [ReceiverIds -> Nat]
  /\ \A r \in ReceiverIds : Saved[r] <= Reported[r]

AnswersOwed ==
  \A r \in ReceiverIds :
    /\ outbox[r] = {} => Saved[r] = Reported[r]
    /\ \A f \in outbox[r] :
         /\ f.type \in {"ACK", "NACK"}
         /\ f.type = "ACK" => f.version \in Nat /\ f.version <= Reported[r]

Kept(f) ==
  /\ f.type = "REQUEST" => /\ f.version \in Nat
                           /\ f.sender_id \in ReceiverIds
                           /\ f.version <= Saved[f.sender_id]
  /\ f.type = "ACK" => /\ f.version \in Nat
                       /\ \E r \in ReceiverIds : f.version <= Saved[r]
  /\ f.type = "DATA" => \E u \in Elements(Updates) :
                          /\ f.from = u.from /\ f.to = u.to
                          /\ f.receiver_id \in ReceiverIds
                          /\ f.from <= Saved[f.receiver_id]

PromisesKept == \A p \in net : Kept(p[2])

Serving ==
  /\ state # "IDLE" => update \in Elements(Updates)
  /\ state = "WAIT_ACK" => /\ target_receiver_id \in ReceiverIds
                           /\ update.from <= Saved[target_receiver_id]

IInv == Shape /\ SavedBehind /\ AnswersOwed /\ PromisesKept /\ Serving

-----------------------------------------------------------------------------
(* Frames and what becomes of their promises. *)

\* Whoever hears it, what is sent is one of the given frames.
LEMMA OnAirFrames ==
  ASSUME NEW frames, NEW p \in OnAir(frames)
  PROVE  p[2] \in frames
BY DEF OnAir

\* What is stored only grows, so promises stay true.
LEMMA PromisesLast ==
  ASSUME SavedBehind, SavedBehind', \A r \in ReceiverIds : Saved[r] <= Saved'[r],
         NEW f, Kept(f)
  PROVE  Kept(f)'
<1>1. CASE f.type = "REQUEST"
  BY <1>1 DEF Kept, SavedBehind
<1>2. CASE f.type = "ACK"
  <2>1. PICK r \in ReceiverIds : f.version <= Saved[r]
    BY <1>2 DEF Kept
  <2>2. f.version <= Saved'[r]
    BY <1>2, <2>1 DEF Kept, SavedBehind
  <2> QED
    BY <1>2, <2>2 DEF Kept
<1>3. CASE f.type = "DATA"
  <2>1. PICK u \in Elements(Updates) :
               /\ f.from = u.from /\ f.to = u.to
               /\ f.receiver_id \in ReceiverIds
               /\ f.from <= Saved[f.receiver_id]
    BY <1>3 DEF Kept
  <2>2. f.from <= Saved'[f.receiver_id]
    BY <2>1, LegacyAssumption DEF SavedBehind
  <2> QED
    BY <1>3, <2>1, <2>2 DEF Kept
<1> QED
  BY <1>1, <1>2, <1>3 DEF Kept

\* A step whose new frames make true promises keeps all of them.
LEMMA Transmission ==
  ASSUME IInv, SavedBehind', \A r \in ReceiverIds : Saved[r] <= Saved'[r],
         NEW frames, \A f \in frames : Kept(f)',
         net' \subseteq net \cup OnAir(frames)
  PROVE  PromisesKept'
<1> SUFFICES ASSUME NEW p \in net'
             PROVE  Kept(p[2])'
  BY DEF PromisesKept
<1>1. CASE p \in net
  BY <1>1, PromisesLast DEF IInv, PromisesKept
<1>2. CASE p \in OnAir(frames)
  BY <1>2, OnAirFrames
<1> QED
  BY <1>1, <1>2

\* A step that leaves versions, files and outboxes alone.
LEMMA Turn ==
  ASSUME IInv, ContextShape', Reported' = Reported, UNCHANGED <<stored, outbox>>,
         NEW frames, \A f \in frames : Kept(f),
         net' \subseteq net \cup OnAir(frames), Serving'
  PROVE  IInv' /\ Saved' = Saved
<1>1. Saved' = Saved
  BY DEF Saved
<1>2. SavedBehind' /\ \A r \in ReceiverIds : Saved[r] <= Saved'[r]
  BY <1>1 DEF IInv, SavedBehind
<1>3. \A f \in frames : Kept(f)'
  BY <1>1 DEF Kept
<1>4. PromisesKept'
  BY <1>2, <1>3, Transmission
<1>5. Shape' /\ AnswersOwed'
  BY <1>1 DEF IInv, Shape, AnswersOwed
<1> QED
  BY <1>1, <1>2, <1>4, <1>5 DEF IInv

-----------------------------------------------------------------------------
(* What the receiver's calls do to the version it reports. *)

\* Beacons and timeouts leave the version alone.
LEMMA VersionUntouched ==
  ASSUME ContextShape, NEW r \in ReceiverIds,
         \/ \E f, intact : R!HandleBeacon(r, f, intact)
         \/ R!GiveUp(r) \/ R!Retry(r)
  PROVE  ContextShape' /\ Reported' = Reported
<1>1. CASE \E f, intact : R!HandleBeacon(r, f, intact)
  <2>1. PICK f : ctx' = [ctx EXCEPT ![r].pending = R!BeaconBatch(f),
                                    ![r].state = "WAIT_UPDATE",
                                    ![r].retries = 0]
    BY <1>1 DEF R!HandleBeacon
  <2>2. DOMAIN ctx' = ReceiverIds
    BY <2>1 DEF ContextShape
  <2>3. \A s \in ReceiverIds : s # r => ctx'[s] = ctx[s]
    BY <2>1 DEF ContextShape
  <2>4. ctx'[r] = [[[ctx[r] EXCEPT !.pending = R!BeaconBatch(f)]
                           EXCEPT !.state = "WAIT_UPDATE"] EXCEPT !.retries = 0]
    BY <2>1 DEF ContextShape
  <2>5. DOMAIN ctx'[r] = ContextFields
        /\ ctx'[r].local_dataset_version = ctx[r].local_dataset_version
    BY <2>4 DEF ContextShape, ContextFields
  <2> QED
    BY <2>2, <2>3, <2>5 DEF ContextShape, Reported
<1>2. CASE R!GiveUp(r)
  BY <1>2 DEF R!GiveUp, ContextShape, ContextFields, Reported
<1>3. CASE R!Retry(r)
  BY <1>3 DEF R!Retry, ContextShape, ContextFields, Reported
<1> QED
  BY <1>1, <1>2, <1>3

\* What is accepted fits the version the receiver reports.
LEMMA AcceptedFits ==
  ASSUME NEW r \in ReceiverIds, NEW f, R!Accepts(r, f, TRUE)
  PROVE  f.from = ctx[r].local_dataset_version /\ Decodable(f)
BY DEF R!Accepts, R!Verdict, R!VersionFits, R!Decodable, Decodable,
       R!ValidHeader, ValidHeader

\* An applied update is the only thing that changes it, a restart aside.
LEMMA VersionAdvances ==
  ASSUME ContextShape, NEW r \in ReceiverIds, NEW f, R!Apply(r, f, TRUE)
  PROVE  ContextShape' /\ Reported' = [Reported EXCEPT ![r] = f.to]
BY DEF R!Apply, ContextShape, ContextFields, Reported

LEMMA VersionResumed ==
  ASSUME ContextShape, NEW r \in ReceiverIds, NEW version, NEW id,
         R!Restart(r, version, id)
  PROVE  ContextShape' /\ Reported' = [Reported EXCEPT ![r] = version]
BY DEF R!Restart, R!InitialContext, ContextShape, ContextFields, Reported

-----------------------------------------------------------------------------
(* The frames a call writes. *)

LEMMA DataFrame ==
  ASSUME NEW r, NEW f \in S!DataFrames(r)
  PROVE  /\ f.type = "DATA" /\ f.receiver_id = r
         /\ f.from = update.from /\ f.to = update.to
BY DEF S!DataFrames, S!EncodeData, S!Written

LEMMA RequestFrame ==
  ASSUME NEW r, NEW to_id, NEW update_id, NEW f \in R!RequestFrames(r, to_id, update_id)
  PROVE  /\ f.type = "REQUEST" /\ f.sender_id = r
         /\ f.version = ctx[r].local_dataset_version
BY DEF R!RequestFrames, R!EncodeRequest, R!Written

LEMMA AckFrame ==
  ASSUME NEW r, NEW g, NEW version, NEW f \in R!Ack(r, g, version)
  PROVE  f.type = "ACK" /\ f.version = version
BY DEF R!Ack, R!EncodeAck, R!Written

LEMMA NackFrame ==
  ASSUME NEW r, NEW g, NEW id, NEW code, NEW f \in R!Nack(r, g, id, code)
  PROVE  f.type = "NACK"
BY DEF R!Nack, R!EncodeNack, R!Written

-----------------------------------------------------------------------------
(* The steps of the sender. *)

\* What a step looks like to Num8Rollout
Rolls == Rollout!Next \/ UNCHANGED Rollout!vars

LEMMA Unseen ==
  ASSUME Reported' = Reported, Saved' = Saved, UNCHANGED confirmed
  PROVE  Rolls
BY DEF Rolls, Rollout!vars, Reported, Saved

\* An update for receiver r is sent only to one that stored what it is made from.
LEMMA DataKept ==
  ASSUME NEW r \in ReceiverIds, update \in Elements(Updates),
         update.from <= Saved[r], NEW f \in S!DataFrames(r)
  PROVE  Kept(f)
BY DataFrame DEF Kept

LEMMA OfferStep ==
  ASSUME IInv, NEW n \in DOMAIN Updates, Offer(n)
  PROVE  IInv' /\ Rolls
<1>1. Serving'
  BY DEF Offer, S!SetUpdate, Serving, Elements
<1>2. UNCHANGED <<ctx, stored, outbox, net, confirmed>>
  BY DEF Offer, receiverVars
<1>3. ContextShape' /\ Reported' = Reported
  BY <1>2 DEF IInv, Shape, ContextShape, Reported
<1>4. net' \subseteq net \cup OnAir({})
  BY <1>2
<1> QED
  BY <1>1, <1>2, <1>3, <1>4, Turn, Unseen

LEMMA BeaconStep ==
  ASSUME IInv, Beacon
  PROVE  IInv' /\ Rolls
<1>1. UNCHANGED <<state, update, target_receiver_id, ctx, stored, outbox, confirmed>>
  BY DEF Beacon, receiverVars, senderVars
<1>2. ContextShape' /\ Reported' = Reported /\ Saved' = Saved
  BY <1>1 DEF IInv, Shape, ContextShape, Reported, Saved
<1>3. Serving'
  BY <1>1, <1>2 DEF IInv, Serving
<1>4. \A f \in S!BeaconFrames : Kept(f)
  BY DEF S!BeaconFrames, S!EncodeBeacon, S!Written, Kept
<1>5. net' \subseteq net \cup OnAir(S!BeaconFrames)
  BY DEF Beacon, Send
<1> QED
  BY <1>1, <1>2, <1>3, <1>4, <1>5, Turn, Unseen

LEMMA LoseStep ==
  ASSUME IInv, Lose
  PROVE  IInv' /\ Rolls
<1>1. UNCHANGED <<state, update, target_receiver_id, ctx, stored, outbox, confirmed>>
  BY DEF Lose, receiverVars, senderVars
<1>2. ContextShape' /\ Reported' = Reported /\ Saved' = Saved
  BY <1>1 DEF IInv, Shape, ContextShape, Reported, Saved
<1>3. Serving'
  BY <1>1, <1>2 DEF IInv, Serving
<1>4. net' \subseteq net \cup OnAir({})
  BY DEF Lose
<1> QED
  BY <1>1, <1>2, <1>3, <1>4, Turn, Unseen

LEMMA AckTimeoutStep ==
  ASSUME IInv, AckTimeout \/ AckTimeoutUnwritten
  PROVE  IInv' /\ Rolls
<1> DEFINE frames == IF state = "WAIT_ACK" THEN S!DataFrames(target_receiver_id)
                     ELSE {}
<1>1. UNCHANGED <<ctx, stored, outbox, confirmed>>
  BY DEF AckTimeout, AckTimeoutUnwritten, receiverVars
<1>2. ContextShape' /\ Reported' = Reported /\ Saved' = Saved
  BY <1>1 DEF IInv, Shape, ContextShape, Reported, Saved
<1>3. Serving'
  BY <1>2 DEF IInv, Serving, AckTimeout, AckTimeoutUnwritten, S!GiveUp, S!Retry
<1>4. \A f \in frames : Kept(f)
  BY DataKept DEF IInv, Serving
<1>5. net' \subseteq net \cup OnAir(frames)
  BY DEF AckTimeout, AckTimeoutUnwritten, Send, S!Retry
<1> QED
  BY <1>1, <1>2, <1>3, <1>4, <1>5, Turn, Unseen

\* A request is served for the version its sender stored.
LEMMA RequestServed ==
  ASSUME IInv, NEW f, Kept(f), S!HandleRequest(f, TRUE), Saved' = Saved
  PROVE  Serving' /\ \A g \in S!RequestAnswers(f) : Kept(g)
<1>1. f.type = "REQUEST"
  BY DEF S!HandleRequest, S!TakesRequest, S!Classify
<1>2. update \in Elements(Updates)
  BY DEF S!HandleRequest, S!TakesRequest, IInv, Serving
<1>3. CASE S!RequestError(f) = "NONE"
  <2>1. f.version = update.from
    BY <1>3 DEF S!RequestError
  <2>2. f.sender_id \in ReceiverIds /\ update.from <= Saved[f.sender_id]
    BY <1>1, <2>1 DEF Kept
  <2>3. Serving'
    BY <1>2, <1>3, <2>2 DEF S!HandleRequest, S!ServeRequest, Serving
  <2> QED
    BY <1>2, <1>3, <2>2, <2>3, DataKept DEF S!RequestAnswers
<1>4. CASE S!RequestError(f) # "NONE"
  <2>1. Serving'
    BY <1>4 DEF S!HandleRequest, S!RefuseRequest, Serving
  <2> QED
    BY <1>4, <2>1 DEF S!RequestAnswers, S!EncodeNack, S!Written, Kept
<1> QED
  BY <1>3, <1>4

\* ACKRES_APPLIED: some receiver stored the version of the update.
LEMMA Confirmation ==
  ASSUME IInv, NEW f, Kept(f), S!HandleAnswer(f, TRUE), S!Result(f) = "APPLIED",
         confirmed' = confirmed \cup {update.update_id},
         Reported' = Reported, Saved' = Saved
  PROVE  Rolls
<1>1. f.type = "ACK"
  BY DEF S!Result
<1>2. f.version = update.to /\ state = "WAIT_ACK"
  BY <1>1 DEF S!HandleAnswer, S!Confirms, S!TakesAnswer
<1>3. update \in Elements(Updates)
  BY <1>2 DEF IInv, Serving
<1>4. PICK r \in ReceiverIds : update.to <= Saved[r]
  BY <1>1, <1>2 DEF Kept
<1>5. Saved[r] >= update.to
  BY <1>3, <1>4, LegacyAssumption DEF IInv, SavedBehind
<1>6. Rollout!Confirm(update)
  BY <1>5 DEF Rollout!Confirm, Reported, Saved
<1> QED
  BY <1>3, <1>6 DEF Rolls, Rollout!Next

LEMMA SenderReceivesStep ==
  ASSUME IInv, NEW p \in net, SenderReceives(p)
  PROVE  IInv' /\ Rolls
<1> DEFINE f == p[2]
<1>1. Kept(f)
  BY DEF IInv, PromisesKept
<1>2. UNCHANGED <<ctx, stored, outbox>>
  BY DEF SenderReceives, receiverVars
<1>3. ContextShape' /\ Reported' = Reported /\ Saved' = Saved
  BY <1>2 DEF IInv, Shape, ContextShape, Reported, Saved
<1>4. CASE /\ S!HandleRequest(f, TRUE) /\ Exchange(p, S!RequestAnswers(f))
           /\ UNCHANGED confirmed
  <2>1. net' \subseteq net \cup OnAir(S!RequestAnswers(f))
    BY <1>4 DEF Exchange
  <2> QED
    BY <1>1, <1>2, <1>3, <1>4, <2>1, RequestServed, Turn, Unseen
<1>5. CASE /\ S!HandleAnswer(f, TRUE) /\ Exchange(p, {})
           /\ confirmed' = IF S!Result(f) = "APPLIED"
                           THEN confirmed \cup {update.update_id} ELSE confirmed
  <2>1. net' \subseteq net \cup OnAir({})
    BY <1>5 DEF Exchange
  <2>2. Serving'
    BY <1>5 DEF S!HandleAnswer, Serving
  <2>3. Rolls
    BY <1>1, <1>3, <1>5, Confirmation, Unseen
  <2> QED
    BY <1>2, <1>3, <2>1, <2>2, <2>3, Turn
<1>6. CASE Exchange(p, {}) /\ UNCHANGED <<senderVars, confirmed>>
  <2>1. net' \subseteq net \cup OnAir({})
    BY <1>6 DEF Exchange
  <2>2. Serving'
    BY <1>3, <1>6 DEF senderVars, IInv, Serving
  <2> QED
    BY <1>2, <1>3, <1>6, <2>1, <2>2, Turn, Unseen
<1> QED
  BY <1>4, <1>5, <1>6 DEF SenderReceives

-----------------------------------------------------------------------------
(* The steps of a receiver. *)

\* A receiver that owes no answer asks with the version it stored.
LEMMA RequestKept ==
  ASSUME IInv, NEW r \in ReceiverIds, outbox[r] = {},
         NEW to_id, NEW id, NEW f \in R!RequestFrames(r, to_id, id)
  PROVE  Kept(f)
<1>1. f.type = "REQUEST" /\ f.sender_id = r /\ f.version = Reported[r]
  BY RequestFrame DEF Reported
<1>2. Reported[r] = Saved[r] /\ Saved[r] \in Nat
  BY DEF IInv, AnswersOwed, SavedBehind
<1> QED
  BY <1>1, <1>2 DEF Kept

LEMMA HearsStep ==
  ASSUME IInv, NEW r \in ReceiverIds, Hears(r)
  PROVE  IInv' /\ Rolls
<1>1. PICK p \in net :
         /\ outbox[r] = {}
         /\ \/ /\ R!HandleBeacon(r, p[2], TRUE)
               /\ Exchange(p, R!RequestFrames(r, p[2].sender_id, p[2].update_id))
            \/ Exchange(p, {}) /\ UNCHANGED receiverVars
  BY DEF Hears
<1> DEFINE frames == R!RequestFrames(r, p[2].sender_id, p[2].update_id)
<1>2. UNCHANGED <<state, update, target_receiver_id, stored, outbox, confirmed>>
  BY DEF Hears, senderVars
<1>3. ContextShape' /\ Reported' = Reported
  <2>1. CASE R!HandleBeacon(r, p[2], TRUE)
    BY <2>1, VersionUntouched DEF IInv, Shape
  <2>2. CASE UNCHANGED receiverVars
    BY <2>2 DEF receiverVars, IInv, Shape, ContextShape, Reported
  <2> QED
    BY <1>1, <2>1, <2>2
<1>4. Saved' = Saved /\ Serving'
  BY <1>2 DEF IInv, Serving, Saved
<1>5. \A f \in frames : Kept(f)
  BY <1>1, RequestKept
<1>6. net' \subseteq net \cup OnAir(frames)
  BY <1>1 DEF Exchange, OnAir
<1> QED
  BY <1>2, <1>3, <1>4, <1>5, <1>6, Turn, Unseen

LEMMA UpdateTimeoutStep ==
  ASSUME IInv, NEW r \in ReceiverIds, UpdateTimeout(r) \/ UpdateTimeoutUnwritten(r)
  PROVE  IInv' /\ Rolls
<1> DEFINE frames == IF outbox[r] = {} THEN R!RetryFrames(r) ELSE {}
<1>1. UNCHANGED <<state, update, target_receiver_id, stored, outbox, confirmed>>
  BY DEF UpdateTimeout, UpdateTimeoutUnwritten, senderVars
<1>2. ContextShape' /\ Reported' = Reported
  BY VersionUntouched DEF IInv, Shape, UpdateTimeout, UpdateTimeoutUnwritten
<1>3. Saved' = Saved /\ Serving'
  BY <1>1 DEF IInv, Serving, Saved
<1>4. \A f \in frames : Kept(f)
  BY RequestKept DEF R!RetryFrames
<1>5. net' \subseteq net \cup OnAir(frames)
  BY DEF UpdateTimeout, UpdateTimeoutUnwritten, Send, OnAir
<1> QED
  BY <1>1, <1>2, <1>3, <1>4, <1>5, Turn, Unseen

\* An answer without a new version: a NACK, or an ACK of the version reported.
LEMMA AnswerOwed ==
  ASSUME IInv, NEW r \in ReceiverIds, outbox[r] = {}, UNCHANGED ctx,
         NEW p, NEW frames, Answers(r, p, frames),
         \A f \in frames : \/ f.type = "NACK"
                           \/ f.type = "ACK" /\ f.version = Reported[r]
  PROVE  IInv' /\ Rolls
<1>1. UNCHANGED <<state, update, target_receiver_id, stored, confirmed>>
      /\ outbox' = [outbox EXCEPT ![r] = frames]
  BY DEF Answers, senderVars
<1>2. Reported' = Reported /\ Saved' = Saved
  BY <1>1 DEF Reported, Saved
<1>3. SavedBehind' /\ Serving' /\ \A s \in ReceiverIds : Saved[s] <= Saved'[s]
  BY <1>1, <1>2 DEF IInv, SavedBehind, Serving
<1>4. Shape'
  BY <1>1 DEF IInv, Shape, ContextShape
<1>5. AnswersOwed'
  <2> SUFFICES ASSUME NEW s \in ReceiverIds
               PROVE  /\ outbox'[s] = {} => Saved[s] = Reported[s]
                      /\ \A f \in outbox'[s] :
                           /\ f.type \in {"ACK", "NACK"}
                           /\ f.type = "ACK" =>
                                f.version \in Nat /\ f.version <= Reported[s]
    BY <1>2 DEF AnswersOwed
  <2>1. CASE s = r
    <3>1. outbox'[s] = frames /\ Saved[s] = Reported[s] /\ Reported[s] \in Nat
      BY <1>1, <2>1 DEF IInv, Shape, AnswersOwed, SavedBehind
    <3> QED
      BY <2>1, <3>1
  <2>2. CASE s # r
    BY <1>1, <2>2 DEF IInv, Shape, AnswersOwed
  <2> QED
    BY <2>1, <2>2
<1>6. net' \subseteq net \cup OnAir({})
  BY DEF Answers, Exchange
<1>7. PromisesKept'
  BY <1>3, <1>6, Transmission
<1> QED
  BY <1>1, <1>2, <1>3, <1>4, <1>5, <1>7, Unseen DEF IInv

\* An update is applied: the receiver is ahead of its file and owes an ACK.
LEMMA ApplyStep ==
  ASSUME IInv, NEW r \in ReceiverIds, NEW p \in DataFor(r),
         R!Apply(r, p[2], TRUE), Answers(r, p, R!ApplyFrames(r, p[2]))
  PROVE  IInv' /\ Rolls
<1> DEFINE f == p[2]
           frames == R!ApplyFrames(r, f)
<1>1. UNCHANGED <<state, update, target_receiver_id, stored, confirmed>>
      /\ outbox' = [outbox EXCEPT ![r] = frames]
  BY DEF Answers, senderVars
<1>2. Saved' = Saved
  BY <1>1 DEF Saved
<1>3. f.from = Reported[r] /\ f.to > f.from /\ Decodable(f)
  BY AcceptedFits DEF R!Apply, DataFor, Reported, Decodable
<1>4. PICK u \in Elements(Updates) : f.from = u.from /\ f.to = u.to
  BY DEF DataFor, IInv, PromisesKept, Kept
<1>5. f.to \in Nat /\ f.to # 0 /\ Reported[r] < f.to
  BY <1>3, <1>4, LegacyAssumption
<1>6. ContextShape' /\ Reported' = [Reported EXCEPT ![r] = f.to]
  BY VersionAdvances DEF IInv, Shape
<1>7. SavedBehind'
  BY <1>2, <1>5, <1>6 DEF IInv, SavedBehind
<1>8. frames # {}
  <2> DEFINE ack == [type |-> "ACK", sender_id |-> r, receiver_id |-> f.sender_id,
                     update_id |-> f.update_id, version |-> f.to]
  <2>1. f.sender_id # NoId /\ f.update_id # 0
    BY <1>3 DEF Decodable, ValidHeader
  <2>2. r # NoId
    BY LegacyAssumption
  <2>3. R!Decodable(ack)
    BY <1>5, <2>1, <2>2 DEF R!Decodable, R!ValidHeader
  <2>4. ack \in frames
    BY <2>3 DEF R!ApplyFrames, R!Ack, R!EncodeAck, R!Written
  <2> QED
    BY <2>4
<1>9. AnswersOwed'
  <2> SUFFICES ASSUME NEW s \in ReceiverIds
               PROVE  /\ outbox'[s] = {} => Saved[s] = Reported'[s]
                      /\ \A g \in outbox'[s] :
                           /\ g.type \in {"ACK", "NACK"}
                           /\ g.type = "ACK" =>
                                g.version \in Nat /\ g.version <= Reported'[s]
    BY <1>2 DEF AnswersOwed
  <2>1. CASE s = r
    <3>1. outbox'[s] = frames /\ Reported'[s] = f.to
      BY <1>1, <1>6, <2>1 DEF IInv, Shape, SavedBehind
    <3>2. \A g \in frames : g.type = "ACK" /\ g.version = f.to
      BY AckFrame DEF R!ApplyFrames
    <3> QED
      BY <1>5, <1>8, <3>1, <3>2
  <2>2. CASE s # r
    BY <1>1, <1>6, <2>2 DEF IInv, Shape, SavedBehind, AnswersOwed
  <2> QED
    BY <2>1, <2>2
<1>10. PromisesKept'
  <2>1. \A s \in ReceiverIds : Saved[s] <= Saved'[s]
    BY <1>2 DEF IInv, SavedBehind
  <2>2. net' \subseteq net \cup OnAir({})
    BY DEF Answers, Exchange
  <2> QED
    BY <1>7, <2>1, <2>2, Transmission
<1>11. Shape' /\ Serving'
  BY <1>1, <1>2, <1>6 DEF IInv, Shape, Serving
<1>12. Rollout!Advance(r, u)
  BY <1>1, <1>2, <1>3, <1>4, <1>6 DEF Rollout!Advance, Reported, Saved
<1> QED
  BY <1>7, <1>9, <1>10, <1>11, <1>12 DEF IInv, Rolls, Rollout!Next

LEMMA GetsStep ==
  ASSUME IInv, NEW r \in ReceiverIds, Gets(r)
  PROVE  IInv' /\ Rolls
<1>1. PICK p \in DataFor(r) :
        \/ R!Refuse(r, p[2], TRUE) /\ Answers(r, p, R!RefusalFrames(r, p[2], TRUE))
        \/ R!Repeat(r, p[2], TRUE) /\ Answers(r, p, R!RepeatFrames(r, p[2]))
        \/ R!Apply(r, p[2], TRUE) /\ Answers(r, p, R!ApplyFrames(r, p[2]))
  BY DEF Gets
<1>2. outbox[r] = {}
  BY DEF DataFor
<1>3. CASE R!Refuse(r, p[2], TRUE) /\ Answers(r, p, R!RefusalFrames(r, p[2], TRUE))
  <2>1. UNCHANGED ctx /\ \A f \in R!RefusalFrames(r, p[2], TRUE) : f.type = "NACK"
    BY <1>3, NackFrame DEF R!Refuse, R!vars, R!RefusalFrames
  <2> QED
    BY <1>2, <1>3, <2>1, AnswerOwed
<1>4. CASE R!Repeat(r, p[2], TRUE) /\ Answers(r, p, R!RepeatFrames(r, p[2]))
  BY <1>2, <1>4, AnswerOwed, AckFrame DEF R!Repeat, R!vars, R!RepeatFrames, Reported
<1>5. CASE R!Apply(r, p[2], TRUE) /\ Answers(r, p, R!ApplyFrames(r, p[2]))
  BY <1>5, ApplyStep
<1> QED
  BY <1>1, <1>3, <1>4, <1>5

LEMMA GetsFaultyStep ==
  ASSUME IInv, NEW r \in ReceiverIds, GetsFaulty(r)
  PROVE  IInv' /\ Rolls
<1>1. PICK p \in DataFor(r) :
        \/ \E frames \in {{}, R!RefusalFrames(r, p[2], FALSE)} :
             R!Refuse(r, p[2], FALSE) /\ Answers(r, p, frames)
        \/ \E n : R!ApplyFail(r, p[2], TRUE, n)
                  /\ Answers(r, p, R!ApplyFailFrames(r, p[2]))
  BY DEF GetsFaulty
<1>2. outbox[r] = {}
  BY DEF DataFor
<1>3. CASE \E frames \in {{}, R!RefusalFrames(r, p[2], FALSE)} :
             R!Refuse(r, p[2], FALSE) /\ Answers(r, p, frames)
  <2>1. UNCHANGED ctx /\ \A f \in R!RefusalFrames(r, p[2], FALSE) : f.type = "NACK"
    BY <1>3, NackFrame DEF R!Refuse, R!vars, R!RefusalFrames
  <2>2. PICK frames \in {{}, R!RefusalFrames(r, p[2], FALSE)} : Answers(r, p, frames)
    BY <1>3
  <2> QED
    BY <1>2, <2>1, <2>2, AnswerOwed
<1>4. CASE \E n : R!ApplyFail(r, p[2], TRUE, n)
                  /\ Answers(r, p, R!ApplyFailFrames(r, p[2]))
  BY <1>2, <1>4, AnswerOwed, NackFrame DEF R!ApplyFail, R!ApplyFailFrames
<1> QED
  BY <1>1, <1>3, <1>4

LEMMA StoreStep ==
  ASSUME IInv, NEW r \in ReceiverIds, Store(r)
  PROVE  IInv' /\ Rolls
<1>1. /\ UNCHANGED <<state, update, target_receiver_id, ctx, outbox, net, confirmed>>
      /\ stored' = [stored EXCEPT ![r] = Progress(r)]
  BY DEF Store, senderVars, receiverVars
<1>2. Reported' = Reported
  BY <1>1 DEF Reported
<1>3. Saved' = [Saved EXCEPT ![r] = Reported[r]]
  BY <1>1 DEF IInv, Shape, Saved, Reported, Progress, Metadata
<1>4. SavedBehind' /\ \A s \in ReceiverIds : Saved[s] <= Saved'[s]
  BY <1>2, <1>3 DEF IInv, SavedBehind
<1>5. Shape'
  BY <1>1 DEF IInv, Shape, ContextShape
<1>6. AnswersOwed'
  BY <1>1, <1>2, <1>3 DEF IInv, SavedBehind, AnswersOwed
<1>7. PromisesKept'
  <2>1. net' \subseteq net \cup OnAir({})
    BY <1>1
  <2> QED
    BY <1>4, <2>1, Transmission
<1>8. Serving'
  <2>1. ASSUME state = "WAIT_ACK"
        PROVE  update.from <= Saved'[target_receiver_id]
    BY <1>4, <2>1, LegacyAssumption DEF IInv, Serving, SavedBehind
  <2> QED
    BY <1>1, <2>1 DEF IInv, Serving
<1>9. Rollout!Store(r)
  BY <1>1, <1>2, <1>3 DEF Rollout!Store, Reported, Saved
<1> QED
  BY <1>4, <1>5, <1>6, <1>7, <1>8, <1>9 DEF IInv, Rolls, Rollout!Next

\* The answer goes out when the version it is about is in the file.
LEMMA ReplyStep ==
  ASSUME IInv, NEW r \in ReceiverIds, Reply(r)
  PROVE  IInv' /\ Rolls
<1>1. /\ UNCHANGED <<state, update, target_receiver_id, ctx, stored, confirmed>>
      /\ stored[r] = Progress(r)
      /\ outbox' = [outbox EXCEPT ![r] = {}]
      /\ net' \subseteq net \cup OnAir(outbox[r])
  BY DEF Reply, Send, senderVars, receiverVars
<1>2. Reported' = Reported /\ Saved' = Saved
  BY <1>1 DEF Reported, Saved
<1>3. Saved[r] = Reported[r]
  BY <1>1 DEF Saved, Reported, Progress, Metadata
<1>4. SavedBehind' /\ Serving' /\ \A s \in ReceiverIds : Saved[s] <= Saved'[s]
  BY <1>1, <1>2 DEF IInv, SavedBehind, Serving
<1>5. Shape' /\ AnswersOwed'
  BY <1>1, <1>2, <1>3 DEF IInv, Shape, ContextShape, AnswersOwed
<1>6. \A f \in outbox[r] : Kept(f)'
  BY <1>2, <1>3 DEF IInv, AnswersOwed, Kept
<1>7. PromisesKept'
  BY <1>1, <1>4, <1>6, Transmission
<1> QED
  BY <1>1, <1>2, <1>4, <1>5, <1>7, Unseen DEF IInv

LEMMA RestartStep ==
  ASSUME IInv, NEW r \in ReceiverIds, Restart(r)
  PROVE  IInv' /\ Rolls
<1>1. /\ UNCHANGED <<state, update, target_receiver_id, stored, net, confirmed>>
      /\ R!Restart(r, Saved[r], stored[r].last_applied_update_id)
      /\ outbox' = [outbox EXCEPT ![r] = {}]
  BY DEF Restart, senderVars, Saved
<1>2. ContextShape' /\ Reported' = [Reported EXCEPT ![r] = Saved[r]]
  BY <1>1, VersionResumed DEF IInv, Shape
<1>3. Saved' = Saved
  BY <1>1 DEF Saved
<1>4. SavedBehind' /\ \A s \in ReceiverIds : Saved[s] <= Saved'[s]
  BY <1>2, <1>3 DEF IInv, SavedBehind
<1>5. Shape' /\ Serving'
  BY <1>1, <1>2, <1>3 DEF IInv, Shape, Serving
<1>6. AnswersOwed'
  BY <1>1, <1>2, <1>3 DEF IInv, Shape, SavedBehind, AnswersOwed
<1>7. PromisesKept'
  <2>1. net' \subseteq net \cup OnAir({})
    BY <1>1
  <2> QED
    BY <1>4, <2>1, Transmission
<1>8. Rollout!Restart(r)
  BY <1>1, <1>2, <1>3 DEF Rollout!Restart, Reported, Saved
<1> QED
  BY <1>4, <1>5, <1>6, <1>7, <1>8 DEF IInv, Rolls, Rollout!Next

-----------------------------------------------------------------------------
(* All together. *)

LEMMA InitHolds == Init => IInv /\ Rollout!Init
<1> SUFFICES ASSUME Init
             PROVE  IInv /\ Rollout!Init
  OBVIOUS
<1>1. ctx = [r \in ReceiverIds |-> R!InitialContext(FirstVersion, 0)]
      /\ stored = [r \in ReceiverIds |-> Metadata(FirstVersion, 0)]
      /\ outbox = [r \in ReceiverIds |-> {}]
      /\ net = {} /\ state = "IDLE" /\ confirmed = {}
  BY DEF Init, S!Init, R!Init
<1>2. Shape
  BY <1>1 DEF Shape, ContextShape, ContextFields, R!InitialContext
<1>3. /\ Reported = [r \in ReceiverIds |-> FirstVersion]
      /\ Saved = [r \in ReceiverIds |-> FirstVersion]
  BY <1>1 DEF Reported, Saved, Metadata, R!InitialContext
<1>4. SavedBehind
  BY <1>3, LegacyAssumption DEF SavedBehind
<1>5. AnswersOwed /\ PromisesKept /\ Serving
  BY <1>1, <1>3 DEF AnswersOwed, PromisesKept, Serving
<1>6. Rollout!Init
  BY <1>1, <1>3 DEF Rollout!Init, Reported, Saved
<1> QED
  BY <1>2, <1>4, <1>5, <1>6 DEF IInv

LEMMA NextKeeps == IInv /\ [Next]_vars => IInv' /\ Rolls
<1> SUFFICES ASSUME IInv, [Next]_vars
             PROVE  IInv' /\ Rolls
  OBVIOUS
<1>1. CASE Next
  <2>1. CASE Offers
    BY <2>1, OfferStep DEF Offers
  <2>2. CASE Beacon
    BY <2>2, BeaconStep
  <2>3. CASE Receives
    BY <2>3, SenderReceivesStep DEF Receives
  <2>4. CASE AckTimeout \/ AckTimeoutUnwritten
    BY <2>4, AckTimeoutStep
  <2>5. CASE Lose
    BY <2>5, LoseStep
  <2>6. CASE \E r \in ReceiverIds : ReceiverStep(r)
    <3>1. PICK r \in ReceiverIds : ReceiverStep(r)
      BY <2>6
    <3> QED
      BY <3>1, HearsStep, UpdateTimeoutStep, GetsStep, GetsFaultyStep, StoreStep,
         ReplyStep, RestartStep
      DEF ReceiverStep
  <2> QED
    BY <1>1, <2>1, <2>2, <2>3, <2>4, <2>5, <2>6 DEF Next
<1>2. CASE UNCHANGED vars
  <2>1. UNCHANGED <<state, update, target_receiver_id, ctx, stored, outbox, net,
                    confirmed>>
    BY <1>2 DEF vars, senderVars, receiverVars
  <2>2. ContextShape' /\ Reported' = Reported /\ Saved' = Saved
    BY <2>1 DEF IInv, Shape, ContextShape, Reported, Saved
  <2>3. Serving' /\ net' \subseteq net \cup OnAir({})
    BY <2>1, <2>2 DEF IInv, Serving
  <2> QED
    BY <2>1, <2>2, <2>3, Turn, Unseen
<1> QED
  BY <1>1, <1>2

LEMMA Invariance == Spec => []IInv
<1>1. Init => IInv
  BY InitHolds
<1>2. IInv /\ [Next]_vars => IInv'
  BY NextKeeps
<1> QED
  BY <1>1, <1>2, PTL DEF Spec

\* The promises of the frames imply that updates are sent only to receivers they
\* fit.
THEOREM UpdatesFit == Spec => []DataFitsReceiver
<1>1. IInv => DataFitsReceiver
  <2> SUFFICES ASSUME IInv
               PROVE  DataFitsReceiver
    OBVIOUS
  <2>1. ASSUME NEW p \in net, p[2].type = "DATA"
        PROVE  ctx[p[2].receiver_id].local_dataset_version >= p[2].from
    <3>1. PICK u \in Elements(Updates) : /\ p[2].from = u.from
                                         /\ p[2].receiver_id \in ReceiverIds
                                         /\ p[2].from <= Saved[p[2].receiver_id]
      BY <2>1 DEF IInv, PromisesKept, Kept
    <3>2. p[2].from \in Nat
      BY <3>1, LegacyAssumption
    <3>3. Reported[p[2].receiver_id] >= p[2].from
      BY <3>1, <3>2 DEF IInv, SavedBehind
    <3> QED
      BY <3>1, <3>3 DEF Reported
  <2>2. ASSUME state = "WAIT_ACK"
        PROVE  ctx[target_receiver_id].local_dataset_version >= update.from
    <3>1. /\ target_receiver_id \in ReceiverIds /\ update.from \in Nat
          /\ update.from <= Saved[target_receiver_id]
      BY <2>2, LegacyAssumption DEF IInv, Serving
    <3>2. Reported[target_receiver_id] >= update.from
      BY <3>1 DEF IInv, SavedBehind
    <3> QED
      BY <3>1, <3>2 DEF Reported
  <2> QED
    BY <2>1, <2>2 DEF DataFitsReceiver
<1> QED
  BY <1>1, Invariance, PTL

\* The protocol implements Num8Rollout: in particular an update reported as
\* applied is, or a later one, in the file of some receiver.
THEOREM ImplementsRollout == Spec => RolloutKept
<1>1. Init => Rollout!Init
  BY InitHolds
<1>2. IInv /\ [Next]_vars => [Rollout!Next]_(Rollout!vars)
  BY NextKeeps DEF Rolls
<1> QED
  BY <1>1, <1>2, Invariance, PTL DEF Spec, RolloutKept, Rollout!Spec

-----------------------------------------------------------------------------
RP == INSTANCE Num8LegacyReceiverProofs WITH Frames <- {}

-----------------------------------------------------------------------------
(* The numbers of a version.  A recursive definition says nothing until a   *)
(* function that satisfies it is known to exist.  The right-hand side of    *)
(* Numbers grows with the function it is given, so the least function that  *)
(* is not made smaller by it (Least) satisfies the definition.              *)

NumbersFrom(g) ==
  [v \in Nat |->
     IF \A u \in Elements(Updates) : u.to # v THEN FirstNumbers
     ELSE Updated(g[UpdateTo(v).from], UpdateTo(v))]

AnyNumber == FirstNumbers \cup UNION {Elements(u.adds) : u \in Elements(Updates)}

Closed(g) == /\ g \in [Nat -> SUBSET AnyNumber]
             /\ \A v \in Nat : NumbersFrom(g)[v] \subseteq g[v]

Least ==
  [v \in Nat |-> {x \in AnyNumber :
                    \A g \in [Nat -> SUBSET AnyNumber] : Closed(g) => x \in g[v]}]

\* The update that made a version starts from one.
LEMMA MadeFrom ==
  ASSUME NEW v \in Nat, ~ \A u \in Elements(Updates) : u.to # v
  PROVE  /\ UpdateTo(v) \in Elements(Updates) /\ UpdateTo(v).to = v
         /\ UpdateTo(v).from \in Nat
         /\ Elements(UpdateTo(v).adds) \subseteq AnyNumber
BY LegacyAssumption DEF UpdateTo, AnyNumber

LEMMA NumbersFromTyped ==
  ASSUME NEW g \in [Nat -> SUBSET AnyNumber]
  PROVE  NumbersFrom(g) \in [Nat -> SUBSET AnyNumber]
<1>1. ASSUME NEW v \in Nat
      PROVE  NumbersFrom(g)[v] \in SUBSET AnyNumber
  BY MadeFrom DEF NumbersFrom, AnyNumber, Updated
<1> QED
  BY <1>1 DEF NumbersFrom

LEMMA NumbersFromGrows ==
  ASSUME NEW g \in [Nat -> SUBSET AnyNumber], NEW h \in [Nat -> SUBSET AnyNumber],
         \A v \in Nat : g[v] \subseteq h[v], NEW v \in Nat
  PROVE  NumbersFrom(g)[v] \subseteq NumbersFrom(h)[v]
BY MadeFrom DEF NumbersFrom, Updated

LEMMA LeastSatisfies == Least = NumbersFrom(Least)
<1>1. Least \in [Nat -> SUBSET AnyNumber]
  BY DEF Least
<1>2. ASSUME NEW g, Closed(g), NEW v \in Nat
      PROVE  Least[v] \subseteq g[v]
  BY <1>2 DEF Least, Closed
<1>3. ASSUME NEW v \in Nat
      PROVE  NumbersFrom(Least)[v] \subseteq Least[v]
  <2>1. NumbersFrom(Least)[v] \subseteq AnyNumber
    BY <1>1, NumbersFromTyped
  <2>2. ASSUME NEW g \in [Nat -> SUBSET AnyNumber], Closed(g)
        PROVE  NumbersFrom(Least)[v] \subseteq g[v]
    <3>1. NumbersFrom(Least)[v] \subseteq NumbersFrom(g)[v]
      BY <1>1, <1>2, <2>2, NumbersFromGrows
    <3> QED
      BY <2>2, <3>1 DEF Closed
  <2> QED
    BY <2>1, <2>2 DEF Least
<1> HIDE DEF Least
<1>4. Closed(NumbersFrom(Least))
  <2> DEFINE h == NumbersFrom(Least)
  <2>1. h \in [Nat -> SUBSET AnyNumber]
    BY <1>1, NumbersFromTyped
  <2>2. \A v \in Nat : h[v] \subseteq Least[v]
    BY <1>3
  <2> HIDE DEF h
  <2>3. \A v \in Nat : NumbersFrom(h)[v] \subseteq NumbersFrom(Least)[v]
    BY <1>1, <2>1, <2>2, NumbersFromGrows
  <2> QED
    BY <2>1, <2>3 DEF h, Closed
<1>5. \A v \in Nat : Least[v] = NumbersFrom(Least)[v]
  BY <1>2, <1>3, <1>4
<1>6. NumbersFrom(Least) \in [Nat -> SUBSET AnyNumber]
  BY <1>1, NumbersFromTyped
<1> QED
  BY <1>1, <1>5, <1>6

LEMMA NumbersDef == Numbers = NumbersFrom(Numbers)
<1> HIDE DEF Least
<1> QED
  BY LeastSatisfies DEF Numbers, NumbersFrom

\* An update leads from the numbers of its first version to those of its last.
LEMMA NumbersChanged ==
  ASSUME Chained, NEW u \in Elements(Updates)
  PROVE  Numbers[u.to]
           = (Numbers[u.from] \ Elements(u.removes)) \cup Elements(u.adds)
<1>1. u.to \in Nat /\ ~ \A t \in Elements(Updates) : t.to # u.to
  BY LegacyAssumption
<1>2. UpdateTo(u.to) = u
  BY <1>1, MadeFrom DEF Chained
<1> QED
  BY <1>1, <1>2, NumbersDef DEF NumbersFrom, Updated

LEMMA NumbersFirst == Chained => Numbers[FirstVersion] = FirstNumbers
BY NumbersDef, LegacyAssumption DEF Chained, NumbersFrom

-----------------------------------------------------------------------------
(* What a batch makes of numbers that a failure left half done. *)

\* Somewhere between the numbers of version v and those of the next
HalfWay(numbers, v) ==
  \E u \in Elements(Updates) :
    /\ u.from = v
    /\ Numbers[v] \cap Numbers[u.to] \subseteq numbers
    /\ numbers \subseteq Numbers[v] \cup Numbers[u.to]

\* The batch that update u is sent in
IsBatch(f, u) ==
  /\ f.update_id = u.update_id /\ f.from = u.from /\ f.to = u.to
  /\ f.removes = u.removes /\ f.adds = u.adds

\* What the theorems about receivers assume.
LEMMA ReceiverAssumptions == RP!MaxValueAssumption /\ RP!ReceiverAssumption
BY LegacyAssumption, MaxValueAssumption
DEF RP!MaxValueAssumption, RP!ReceiverAssumption

LEMMA BatchChanges ==
  ASSUME NEW u \in Elements(Updates), NEW f, IsBatch(f, u), NEW numbers
  PROVE  /\ R!AfterChanges(numbers, f, R!Changes(f))
              = (numbers \ Elements(u.removes)) \cup Elements(u.adds)
         /\ \A n \in 0..R!Changes(f) :
              /\ R!AfterChanges(numbers, f, n) \subseteq numbers \cup Elements(u.adds)
              /\ numbers \ Elements(u.removes) \subseteq R!AfterChanges(numbers, f, n)
<1>1. f.removes \in Seq(Nat) /\ f.adds \in Seq(Nat)
  BY LegacyAssumption DEF IsBatch
<1>2. /\ \A n : RP!AfterChanges(numbers, f, n) = R!AfterChanges(numbers, f, n)
      /\ RP!Changes(f) = R!Changes(f)
      /\ \A list : RP!Elements(list) = Elements(list)
  BY DEF RP!AfterChanges, R!AfterChanges, RP!First, R!First, RP!Changes, R!Changes,
         RP!Elements, Elements
<1>3. /\ RP!AfterChanges(numbers, f, RP!Changes(f))
           = (numbers \ RP!Elements(f.removes)) \cup RP!Elements(f.adds)
      /\ \A n \in 0..RP!Changes(f) :
           /\ RP!AfterChanges(numbers, f, n) \subseteq numbers \cup RP!Elements(f.adds)
           /\ numbers \ RP!Elements(f.removes) \subseteq RP!AfterChanges(numbers, f, n)
  BY <1>1, RP!ChangedNumbers, ReceiverAssumptions
<1> QED
  BY <1>2, <1>3 DEF IsBatch

\* The whole batch repairs what was left half done.
LEMMA BatchRepairs ==
  ASSUME Chained, NEW u \in Elements(Updates), NEW f, IsBatch(f, u), NEW numbers,
         numbers = Numbers[u.from] \/ HalfWay(numbers, u.from)
  PROVE  R!AfterChanges(numbers, f, R!Changes(f)) = Numbers[u.to]
<1>1. /\ Numbers[u.from] \cap Numbers[u.to] \subseteq numbers
      /\ numbers \subseteq Numbers[u.from] \cup Numbers[u.to]
  BY DEF HalfWay, Chained
<1>2. R!AfterChanges(numbers, f, R!Changes(f))
        = (numbers \ Elements(u.removes)) \cup Elements(u.adds)
  BY BatchChanges
<1>3. Numbers[u.to] = (Numbers[u.from] \ Elements(u.removes)) \cup Elements(u.adds)
  BY NumbersChanged
<1> QED
  BY <1>1, <1>2, <1>3

\* A part of it leaves no more half done than there was.
LEMMA BatchPart ==
  ASSUME Chained, NEW u \in Elements(Updates), NEW f, IsBatch(f, u), NEW numbers,
         NumbersError(u) = "NONE",
         numbers = Numbers[u.from] \/ HalfWay(numbers, u.from),
         NEW n \in 0..R!Changes(f)
  PROVE  HalfWay(R!AfterChanges(numbers, f, n), u.from)
<1>1. /\ Numbers[u.from] \cap Numbers[u.to] \subseteq numbers
      /\ numbers \subseteq Numbers[u.from] \cup Numbers[u.to]
  BY DEF HalfWay, Chained
<1>2. Elements(u.removes) \cap Elements(u.adds) = {}
  BY DEF NumbersError
<1> DEFINE after == R!AfterChanges(numbers, f, n)
<1>3. /\ after \subseteq numbers \cup Elements(u.adds)
      /\ numbers \ Elements(u.removes) \subseteq after
  BY BatchChanges
<1>4. Numbers[u.to] = (Numbers[u.from] \ Elements(u.removes)) \cup Elements(u.adds)
  BY NumbersChanged
<1> HIDE DEF after
<1>5. /\ Numbers[u.from] \cap Numbers[u.to] \subseteq after
      /\ after \subseteq Numbers[u.from] \cup Numbers[u.to]
  BY <1>1, <1>2, <1>3, <1>4
<1> QED
  BY <1>5 DEF HalfWay, after

-----------------------------------------------------------------------------
(* Every frame is about an update of the sender's application, and is       *)
(* addressed to somebody.                                                   *)

Sendable(u) == u \in Elements(Updates) /\ NumbersError(u) = "NONE"

\* What a beacon says about update u
Announcement(u) ==
  R!Batch(u.update_id, u.from, u.to, Len(u.removes), Len(u.adds), PayloadCrc(u))

Genuine(f) ==
  /\ Decodable(f)
  /\ f.type \in {"BEACON", "DATA", "REQUEST", "ACK", "NACK"}
  /\ f.type \in {"BEACON", "DATA"} => f.sender_id = SenderId
  /\ f.type = "BEACON" =>
       \E u : Sendable(u) /\ R!BeaconBatch(f) = Announcement(u)
  /\ f.type = "DATA" =>
       f.receiver_id \in ReceiverIds /\ \E u : Sendable(u) /\ IsBatch(f, u)
  /\ f.type \in {"REQUEST", "ACK"} =>
       f.sender_id \in ReceiverIds /\ f.receiver_id = SenderId
  /\ f.type = "NACK" => f.receiver_id \in ReceiverIds \cup {SenderId}

NetTyped ==
  \A p \in net : p[1] \in ReceiverIds \cup {SenderId} /\ Genuine(p[2])

LEMMA NetLasts ==
  ASSUME NetTyped, NEW frames, \A f \in frames : Genuine(f),
         net' \subseteq net \cup OnAir(frames)
  PROVE  NetTyped'
<1> SUFFICES ASSUME NEW p \in net'
             PROVE  p[1] \in ReceiverIds \cup {SenderId} /\ Genuine(p[2])
  BY DEF NetTyped
<1>1. CASE p \in net
  BY <1>1 DEF NetTyped
<1>2. CASE p \in OnAir(frames)
  <2>1. PICK f \in frames : \E d \in Hearers(f) : p = <<d, f>>
    BY <1>2 DEF OnAir
  <2>2. p[2] = f /\ p[1] \in Hearers(f) /\ Genuine(f)
    BY <2>1
  <2>3. p[1] \in ReceiverIds \cup {SenderId}
    BY <2>2 DEF Hearers, Genuine
  <2> QED
    BY <2>2, <2>3
<1> QED
  BY <1>1, <1>2

\* The sender and the receivers decode and test alike.
LEMMA SameRules ==
  /\ \A f : S!Decodable(f) <=> Decodable(f)
  /\ \A f : R!Decodable(f) <=> Decodable(f)
  /\ \A u : S!NumbersError(u) = NumbersError(u)
  /\ \A u : R!NumbersError(u) = NumbersError(u)
  /\ \A u : S!PayloadCrc(u) = PayloadCrc(u)
  /\ \A u : R!PayloadCrc(u) = PayloadCrc(u)
  /\ S!NoUpdate = NoUpdate
<1>1. \A f : S!Decodable(f) <=> Decodable(f)
  BY DEF S!Decodable, Decodable, S!ValidHeader, ValidHeader
<1>2. \A f : R!Decodable(f) <=> Decodable(f)
  BY DEF R!Decodable, Decodable, R!ValidHeader, ValidHeader
<1>3. \A list : S!ListError(list) = ListError(list)
  BY DEF S!ListError, ListError, S!Faulty, Faulty, S!OutOfRange, OutOfRange,
         S!Repeated, Repeated, S!FirstFaulty, FirstFaulty
<1>4. \A list : R!ListError(list) = ListError(list)
  BY DEF R!ListError, ListError, R!Faulty, Faulty, R!OutOfRange, OutOfRange,
         R!Repeated, Repeated, R!FirstFaulty, FirstFaulty
<1>5. \A u : S!NumbersError(u) = NumbersError(u)
  BY <1>3 DEF S!NumbersError, NumbersError, S!Elements, Elements
<1>6. \A u : R!NumbersError(u) = NumbersError(u)
  BY <1>4 DEF R!NumbersError, NumbersError, R!Elements, Elements
<1> QED
  BY <1>1, <1>2, <1>5, <1>6 DEF S!PayloadCrc, R!PayloadCrc, PayloadCrc,
     S!NoUpdate, NoUpdate

-----------------------------------------------------------------------------
(* What the sender keeps and writes. *)

SenderTyped ==
  /\ state \in {"IDLE", "WAIT_REQUEST", "WAIT_ACK"}
  /\ retries \in 0..MaxRetries
  /\ \/ update = NoUpdate /\ state = "IDLE"
     \/ /\ Sendable(update) /\ update.to > update.from
        /\ update_payload_crc = PayloadCrc(update)

LEMMA BeaconGenuine ==
  ASSUME SenderTyped, NEW f \in S!BeaconFrames
  PROVE  Genuine(f)
<1>1. /\ f = [type |-> "BEACON", sender_id |-> SenderId, receiver_id |-> NoId,
              update_id |-> update.update_id, from |-> update.from, to |-> update.to,
              remove_count |-> Len(update.removes), add_count |-> Len(update.adds),
              crc |-> update_payload_crc]
      /\ Decodable(f)
  BY SameRules DEF S!BeaconFrames, S!EncodeBeacon, S!Written
<1>2. update # NoUpdate
  BY <1>1 DEF Decodable, NoUpdate
<1>3. Sendable(update) /\ update_payload_crc = PayloadCrc(update)
  BY <1>2 DEF SenderTyped
<1>4. R!BeaconBatch(f) = Announcement(update)
  BY <1>1, <1>3 DEF R!BeaconBatch, Announcement, R!Batch
<1> QED
  BY <1>1, <1>3, <1>4 DEF Genuine

LEMMA DataGenuine ==
  ASSUME Sendable(update), NEW r \in ReceiverIds, NEW f \in S!DataFrames(r)
  PROVE  Genuine(f)
<1>1. /\ f = [type |-> "DATA", sender_id |-> SenderId, receiver_id |-> r,
              update_id |-> update.update_id, from |-> update.from, to |-> update.to,
              removes |-> update.removes, adds |-> update.adds]
      /\ Decodable(f)
  BY SameRules DEF S!DataFrames, S!EncodeData, S!Written
<1>2. IsBatch(f, update)
  BY <1>1 DEF IsBatch
<1> QED
  BY <1>1, <1>2 DEF Genuine

LEMMA SenderNackGenuine ==
  ASSUME NEW r \in ReceiverIds, NEW id, NEW code,
         NEW f \in S!EncodeNack(SenderId, r, id, code)
  PROVE  Genuine(f)
BY SameRules DEF S!EncodeNack, S!Written, Genuine

Counted == faults \in Nat /\ restarts \in Nat

LineTyped ==
  SenderTyped /\ NetTyped /\ confirmed \subseteq UpdateIds /\ Counted

\* What the steps of the sender and the radio leave alone.
ReceiversAlone ==
  /\ UNCHANGED <<ctx, engine, flushed, stored, outbox, restarts>>
  /\ faults' >= faults

LEMMA Sent ==
  ASSUME LineTyped, SenderTyped', confirmed' \subseteq UpdateIds,
         Fault \/ NoFault, UNCHANGED <<ctx, engine, flushed, stored, outbox, restarts>>,
         NEW frames, \A f \in frames : Genuine(f),
         net' \subseteq net \cup OnAir(frames)
  PROVE  LineTyped' /\ ReceiversAlone
<1>1. NetTyped'
  BY NetLasts DEF LineTyped
<1>2. faults' \in Nat /\ faults' >= faults
  BY DEF LineTyped, Counted, Fault, NoFault
<1> QED
  BY <1>1, <1>2 DEF LineTyped, Counted, ReceiversAlone

LEMMA SenderUnchanged ==
  ASSUME SenderTyped, UNCHANGED senderVars
  PROVE  SenderTyped'
BY DEF SenderTyped, senderVars

LEMMA OfferTyped ==
  ASSUME LineTyped, NEW n \in DOMAIN Updates, Offer(n)
  PROVE  LineTyped' /\ ReceiversAlone
<1>1. PICK r \in ReceiverIds : S!SetUpdate(r, Updates[n])
  BY DEF Offer
<1>2. Updates[n] \in Elements(Updates)
  BY DEF Elements
<1>3. SenderTyped'
  BY <1>1, <1>2, SameRules, LegacyAssumption
  DEF S!SetUpdate, S!MaySetUpdate, SenderTyped, Sendable
<1>4. net' \subseteq net \cup OnAir({})
  BY DEF Offer
<1>5. UNCHANGED <<ctx, engine, flushed, stored, outbox, restarts, confirmed>> /\ NoFault
  BY DEF Offer, receiverVars
<1> QED
  BY <1>3, <1>4, <1>5, Sent DEF LineTyped

LEMMA BeaconTyped ==
  ASSUME LineTyped, Beacon
  PROVE  LineTyped' /\ ReceiversAlone
<1>1. SenderTyped'
  BY SenderUnchanged DEF Beacon, LineTyped
<1>2. net' \subseteq net \cup OnAir(S!BeaconFrames)
  BY DEF Beacon, Send
<1>3. UNCHANGED <<ctx, engine, flushed, stored, outbox, restarts, confirmed>> /\ NoFault
  BY DEF Beacon, receiverVars
<1> QED
  BY <1>1, <1>2, <1>3, Sent, BeaconGenuine DEF LineTyped

LEMMA LoseTyped ==
  ASSUME LineTyped, Lose
  PROVE  LineTyped' /\ ReceiversAlone
<1>1. SenderTyped'
  BY SenderUnchanged DEF Lose, LineTyped
<1>2. net' \subseteq net \cup OnAir({})
  BY DEF Lose
<1>3. UNCHANGED <<ctx, engine, flushed, stored, outbox, restarts, confirmed>> /\ Fault
  BY DEF Lose, receiverVars
<1> QED
  BY <1>1, <1>2, <1>3, Sent DEF LineTyped

LEMMA AckTimeoutTyped ==
  ASSUME IInv, LineTyped, AckTimeout \/ AckTimeoutUnwritten
  PROVE  LineTyped' /\ ReceiversAlone
<1> DEFINE frames == IF state = "WAIT_ACK" THEN S!DataFrames(target_receiver_id)
                     ELSE {}
<1>1. S!GiveUp \/ S!Retry
  BY DEF AckTimeout, AckTimeoutUnwritten
<1>2. SenderTyped'
  BY <1>1, LegacyAssumption DEF S!GiveUp, S!Retry, LineTyped, SenderTyped
<1>3. \A f \in frames : Genuine(f)
  BY DataGenuine DEF LineTyped, SenderTyped, IInv, Serving
<1>4. net' \subseteq net \cup OnAir(frames)
  BY DEF AckTimeout, AckTimeoutUnwritten, Send, S!Retry
<1>5. /\ UNCHANGED <<ctx, engine, flushed, stored, outbox, restarts, confirmed>>
      /\ Fault \/ NoFault
  BY DEF AckTimeout, AckTimeoutUnwritten, receiverVars, NoFault
<1> QED
  BY <1>2, <1>3, <1>4, <1>5, Sent DEF LineTyped

LEMMA SenderReceivesTyped ==
  ASSUME IInv, LineTyped, NEW p \in net, SenderReceives(p)
  PROVE  LineTyped' /\ ReceiversAlone
<1> DEFINE f == p[2]
<1>1. Genuine(f)
  BY DEF LineTyped, NetTyped
<1>2. UNCHANGED <<ctx, engine, flushed, stored, outbox, restarts>> /\ NoFault
  BY DEF SenderReceives, receiverVars
<1>3. CASE /\ S!HandleRequest(f, TRUE) /\ Exchange(p, S!RequestAnswers(f))
           /\ UNCHANGED confirmed
  <2>1. state # "IDLE" /\ f.type = "REQUEST" /\ f.sender_id \in ReceiverIds
    BY <1>1, <1>3 DEF S!HandleRequest, S!TakesRequest, S!Classify, Genuine
  <2>2. Sendable(update)
    BY <2>1 DEF LineTyped, SenderTyped
  <2>3. SenderTyped'
    <3>1. S!ServeRequest(f) \/ S!RefuseRequest
      BY <1>3 DEF S!HandleRequest
    <3>2. /\ state' \in {"IDLE", "WAIT_ACK"} /\ retries' \in {0, retries}
          /\ UNCHANGED <<update, update_payload_crc>>
      BY <3>1 DEF S!ServeRequest, S!RefuseRequest
    <3>3. /\ Sendable(update) /\ update.to > update.from
          /\ update_payload_crc = PayloadCrc(update)
      BY <2>1 DEF LineTyped, SenderTyped
    <3> QED
      BY <3>2, <3>3, LegacyAssumption DEF LineTyped, SenderTyped
  <2>4. \A g \in S!RequestAnswers(f) : Genuine(g)
    BY <2>1, <2>2, DataGenuine, SenderNackGenuine DEF S!RequestAnswers
  <2>5. net' \subseteq net \cup OnAir(S!RequestAnswers(f))
    BY <1>3 DEF Exchange
  <2> QED
    BY <1>2, <1>3, <2>3, <2>4, <2>5, Sent DEF LineTyped
<1>4. CASE /\ S!HandleAnswer(f, TRUE) /\ Exchange(p, {})
           /\ confirmed' = IF S!Result(f) = "APPLIED"
                           THEN confirmed \cup {update.update_id} ELSE confirmed
  <2>1. state = "WAIT_ACK"
    BY <1>4 DEF S!HandleAnswer, S!TakesAnswer
  <2>2. update.update_id \in UpdateIds
    BY <2>1 DEF LineTyped, SenderTyped, Sendable, UpdateIds
  <2>3. SenderTyped'
    BY <1>4, LegacyAssumption DEF S!HandleAnswer, LineTyped, SenderTyped
  <2>4. net' \subseteq net \cup OnAir({})
    BY <1>4 DEF Exchange
  <2>5. confirmed' \subseteq UpdateIds
    BY <1>4, <2>2 DEF LineTyped
  <2> QED
    BY <1>2, <2>3, <2>4, <2>5, Sent
<1>5. CASE Exchange(p, {}) /\ UNCHANGED <<senderVars, confirmed>>
  <2>1. SenderTyped'
    BY <1>5, SenderUnchanged DEF LineTyped
  <2>2. net' \subseteq net \cup OnAir({})
    BY <1>5 DEF Exchange
  <2> QED
    BY <1>2, <1>5, <2>1, <2>2, Sent DEF LineTyped
<1> QED
  BY <1>3, <1>4, <1>5 DEF SenderReceives

-----------------------------------------------------------------------------
(* What a receiver keeps and writes. *)

\* It has waited for an update of this sender.
Trusting == ExpectedSender \in {NoId, SenderId}

ContextTyped(c) ==
  /\ c.state \in {"SCAN", "WAIT_UPDATE"}
  /\ c.retries \in 0..MaxRetries
  /\ c.local_dataset_version \in Versions
  /\ c.last.update_id \in UpdateIds \cup {0}
  /\ c.state = "WAIT_UPDATE" =>
       Trusting /\ \E u : Sendable(u) /\ c.pending = Announcement(u)

\* What is kept of the update that was applied last, until a restart
Remembers(c) ==
  c.last.update_id # 0 =>
    /\ Trusting /\ c.last_sender_id = SenderId
    /\ \E u \in Elements(Updates) : c.last = Announcement(u)

FileTyped(m) ==
  /\ m.dataset_version \in Versions
  /\ m.last_applied_update_id \in UpdateIds \cup {0}

OutboxTyped(r, frames) == \A f \in frames : f.sender_id = r /\ Genuine(f)

ReceiverTyped(r) ==
  /\ ContextTyped(ctx[r]) /\ FileTyped(stored[r]) /\ OutboxTyped(r, outbox[r])
  /\ restarts = 0 => Remembers(ctx[r])

\* Numbers that are those of version v, failures and restarts aside
Holds(numbers, v) ==
  \/ numbers = Numbers[v]
  \/ (faults > 0 \/ restarts > 0) /\ HalfWay(numbers, v)

\* What is in memory and on disk, of the version reported; a receiver that is
\* ahead of its file is so by one update, and all of that is flushed.
DiskKept(r) ==
  LET reported == ctx[r].local_dataset_version
      saved == stored[r].dataset_version
  IN  /\ Holds(engine[r], reported) /\ Holds(flushed[r], reported)
      /\ saved # reported =>
           /\ \E u \in Elements(Updates) : u.from = saved /\ u.to = reported
           /\ engine[r] = Numbers[reported] /\ flushed[r] = Numbers[reported]

ReceiverInv(r) == ReceiverTyped(r) /\ (Chained => DiskKept(r))

DiskShape == DOMAIN engine = ReceiverIds /\ DOMAIN flushed = ReceiverIds

DataInv ==
  IInv /\ LineTyped /\ DiskShape /\ \A r \in ReceiverIds : ReceiverInv(r)

-----------------------------------------------------------------------------
(* The frames a receiver writes. *)

LEMMA RequestGenuine ==
  ASSUME NEW r \in ReceiverIds, NEW to_id \in {NoId, SenderId}, NEW id,
         NEW f \in R!RequestFrames(r, to_id, id)
  PROVE  Genuine(f)
<1>1. /\ f.type = "REQUEST" /\ f.sender_id = r /\ f.receiver_id = to_id
      /\ Decodable(f)
  BY SameRules DEF R!RequestFrames, R!EncodeRequest, R!Written
<1>2. to_id # NoId
  BY <1>1 DEF Decodable, ValidHeader
<1> QED
  BY <1>1, <1>2 DEF Genuine

LEMMA AckTyped ==
  ASSUME NEW r \in ReceiverIds, NEW f, f.sender_id = SenderId, NEW version
  PROVE  OutboxTyped(r, R!Ack(r, f, version))
BY SameRules DEF R!Ack, R!EncodeAck, R!Written, OutboxTyped, Genuine

LEMMA NackTyped ==
  ASSUME NEW r \in ReceiverIds, NEW f, f.sender_id = SenderId, NEW id, NEW code
  PROVE  OutboxTyped(r, R!Nack(r, f, id, code))
BY SameRules DEF R!Nack, R!EncodeNack, R!Written, OutboxTyped, Genuine

-----------------------------------------------------------------------------
(* What a step of one receiver leaves alone. *)

\* A receiver to which nothing happens.
LEMMA ReceiverAlone ==
  ASSUME NEW q, ReceiverInv(q), Counted, faults' >= faults, restarts' >= restarts,
         Counted',
         ctx'[q] = ctx[q], engine'[q] = engine[q], flushed'[q] = flushed[q],
         stored'[q] = stored[q], outbox'[q] = outbox[q]
  PROVE  ReceiverInv(q)'
<1>1. restarts' = 0 => restarts = 0
  BY DEF Counted
<1>2. faults > 0 \/ restarts > 0 => faults' > 0 \/ restarts' > 0
  BY DEF Counted
<1>3. ReceiverTyped(q)'
  BY <1>1 DEF ReceiverInv, ReceiverTyped, OutboxTyped
<1>4. ASSUME DiskKept(q)
      PROVE  DiskKept(q)'
  BY <1>2, <1>4 DEF DiskKept, Holds
<1> QED
  BY <1>3, <1>4 DEF ReceiverInv

\* What a step of receiver r is to the others, and to the sender.
OnlyReceiver(r) ==
  /\ LineTyped' /\ DiskShape'
  /\ faults' >= faults /\ restarts' >= restarts
  /\ \A q \in ReceiverIds \ {r} :
       /\ ctx'[q] = ctx[q] /\ engine'[q] = engine[q] /\ flushed'[q] = flushed[q]
       /\ stored'[q] = stored[q] /\ outbox'[q] = outbox[q]

\* What the step lemmas below have in common.
ReceiversKept == LineTyped' /\ DiskShape' /\ \A r \in ReceiverIds : ReceiverInv(r)'

LEMMA OneReceiver ==
  ASSUME DataInv, NEW r \in ReceiverIds, OnlyReceiver(r), ReceiverInv(r)'
  PROVE  ReceiversKept
<1> SUFFICES ASSUME NEW q \in ReceiverIds
             PROVE  ReceiverInv(q)'
  BY DEF ReceiversKept, OnlyReceiver
<1>1. Counted /\ Counted' /\ ReceiverInv(q)
  BY DEF OnlyReceiver, DataInv, LineTyped
<1> QED
  BY <1>1, ReceiverAlone DEF OnlyReceiver

\* Frames that are on the air before and after, or sent by the step.
LEMMA ReceiverSends ==
  ASSUME LineTyped, UNCHANGED <<senderVars, confirmed>>, Fault \/ NoFault,
         restarts' \in {restarts, restarts + 1},
         NEW frames, \A f \in frames : Genuine(f),
         net' \subseteq net \cup OnAir(frames)
  PROVE  LineTyped' /\ faults' >= faults /\ restarts' >= restarts
<1>1. NetTyped' /\ SenderTyped'
  BY NetLasts, SenderUnchanged DEF LineTyped
<1>2. faults' \in Nat /\ faults' >= faults /\ restarts' \in Nat /\ restarts' >= restarts
  BY DEF LineTyped, Counted, Fault, NoFault
<1> QED
  BY <1>1, <1>2 DEF LineTyped, Counted

-----------------------------------------------------------------------------
(* Beacons and timeouts. *)

\* A step that changes the context only, and nothing in it that is on disk.
LEMMA Listens ==
  ASSUME DataInv, NEW r \in ReceiverIds,
         UNCHANGED <<engine, flushed, stored, outbox, restarts>>,
         DOMAIN ctx' = ReceiverIds, \A q \in ReceiverIds \ {r} : ctx'[q] = ctx[q],
         ContextTyped(ctx'[r]),
         ctx'[r].local_dataset_version = ctx[r].local_dataset_version,
         ctx'[r].last = ctx[r].last, ctx'[r].last_sender_id = ctx[r].last_sender_id,
         LineTyped', faults' >= faults
  PROVE  ReceiversKept
<1>1. OnlyReceiver(r)
  BY DEF OnlyReceiver, DataInv, DiskShape, LineTyped, Counted
<1>2. ReceiverInv(r) /\ Counted /\ Counted'
  BY DEF DataInv, LineTyped
<1>3. ReceiverTyped(r)'
  BY <1>2 DEF ReceiverInv, ReceiverTyped, Remembers
<1>4. ASSUME DiskKept(r)
      PROVE  DiskKept(r)'
  BY <1>2, <1>4 DEF DiskKept, Holds, Counted
<1> QED
  BY <1>1, <1>2, <1>3, <1>4, OneReceiver DEF ReceiverInv

LEMMA BeaconContext ==
  ASSUME ContextShape, NEW r \in ReceiverIds, NEW f, NEW intact,
         R!HandleBeacon(r, f, intact)
  PROVE  /\ DOMAIN ctx' = ReceiverIds
         /\ \A q \in ReceiverIds \ {r} : ctx'[q] = ctx[q]
         /\ ctx'[r].pending = R!BeaconBatch(f) /\ ctx'[r].state = "WAIT_UPDATE"
         /\ ctx'[r].retries = 0
         /\ ctx'[r].local_dataset_version = ctx[r].local_dataset_version
         /\ ctx'[r].last = ctx[r].last
         /\ ctx'[r].last_sender_id = ctx[r].last_sender_id
<1>1. ctx' = [ctx EXCEPT ![r].pending = R!BeaconBatch(f),
                         ![r].state = "WAIT_UPDATE", ![r].retries = 0]
  BY DEF R!HandleBeacon
<1>2. DOMAIN ctx' = ReceiverIds /\ \A q \in ReceiverIds \ {r} : ctx'[q] = ctx[q]
  BY <1>1 DEF ContextShape
<1>3. ctx'[r] = [[[ctx[r] EXCEPT !.pending = R!BeaconBatch(f)]
                         EXCEPT !.state = "WAIT_UPDATE"] EXCEPT !.retries = 0]
  BY <1>1 DEF ContextShape
<1> QED
  BY <1>2, <1>3 DEF ContextShape, ContextFields

LEMMA HearsTyped ==
  ASSUME DataInv, NEW r \in ReceiverIds, Hears(r)
  PROVE  ReceiversKept
<1>1. PICK p \in net :
         \/ /\ R!HandleBeacon(r, p[2], TRUE)
            /\ Exchange(p, R!RequestFrames(r, p[2].sender_id, p[2].update_id))
         \/ Exchange(p, {}) /\ UNCHANGED receiverVars
  BY DEF Hears
<1>2. UNCHANGED <<senderVars, stored, outbox, confirmed, restarts>> /\ NoFault
  BY DEF Hears
<1> DEFINE f == p[2]
           frames == R!RequestFrames(r, f.sender_id, f.update_id)
<1>3. Genuine(f) /\ ContextShape /\ ReceiverInv(r)
  BY DEF DataInv, LineTyped, NetTyped, IInv, Shape
<1>4. CASE R!HandleBeacon(r, f, TRUE) /\ Exchange(p, frames)
  <2>1. f.type = "BEACON" /\ R!Trusts(f)
    BY <1>4 DEF R!HandleBeacon, R!TakesBeacon
  <2>2. f.sender_id = SenderId /\ \E u : Sendable(u) /\ R!BeaconBatch(f) = Announcement(u)
    BY <1>3, <2>1 DEF Genuine
  <2>3. Trusting
    BY <2>1, <2>2 DEF R!Trusts, Trusting
  <2>4. ContextTyped(ctx'[r])
    <3>1. ContextTyped(ctx[r])
      BY <1>3 DEF ReceiverInv, ReceiverTyped
    <3>2. /\ ctx'[r].pending = R!BeaconBatch(f) /\ ctx'[r].state = "WAIT_UPDATE"
          /\ ctx'[r].retries = 0
          /\ ctx'[r].local_dataset_version = ctx[r].local_dataset_version
          /\ ctx'[r].last = ctx[r].last
      BY <1>3, <1>4, BeaconContext
    <3>3. \E u : Sendable(u) /\ ctx'[r].pending = Announcement(u)
      BY <2>2, <3>2
    <3>4. 0 \in 0..MaxRetries
      BY LegacyAssumption
    <3> QED
      BY <2>3, <3>1, <3>2, <3>3, <3>4 DEF ContextTyped
  <2>5. \A g \in frames : Genuine(g)
    BY <2>2, RequestGenuine
  <2>6. net' \subseteq net \cup OnAir(frames)
    BY <1>4 DEF Exchange
  <2>7. LineTyped' /\ faults' >= faults
    <3> HIDE DEF frames
    <3> QED
      BY <1>2, <2>5, <2>6, ReceiverSends DEF DataInv
  <2>8. UNCHANGED <<engine, flushed>>
    BY <1>4 DEF R!HandleBeacon
  <2> QED
    BY <1>2, <1>3, <1>4, <2>4, <2>7, <2>8, BeaconContext, Listens
<1>5. CASE Exchange(p, {}) /\ UNCHANGED receiverVars
  <2>1. net' \subseteq net \cup OnAir({})
    BY <1>5 DEF Exchange
  <2>2. LineTyped' /\ faults' >= faults
    BY <1>2, <2>1, ReceiverSends DEF DataInv
  <2>3. UNCHANGED <<ctx, engine, flushed>> /\ DOMAIN ctx = ReceiverIds
    BY <1>3, <1>5 DEF receiverVars, ContextShape
  <2> QED
    BY <1>2, <1>3, <2>2, <2>3, Listens DEF ReceiverInv, ReceiverTyped
<1> QED
  BY <1>1, <1>4, <1>5

LEMMA TimeoutContext ==
  ASSUME ContextShape, NEW r \in ReceiverIds, R!GiveUp(r) \/ R!Retry(r),
         ContextTyped(ctx[r])
  PROVE  /\ DOMAIN ctx' = ReceiverIds
         /\ \A q \in ReceiverIds \ {r} : ctx'[q] = ctx[q]
         /\ ContextTyped(ctx'[r])
         /\ ctx'[r].local_dataset_version = ctx[r].local_dataset_version
         /\ ctx'[r].last = ctx[r].last
         /\ ctx'[r].last_sender_id = ctx[r].last_sender_id
<1>1. CASE R!GiveUp(r)
  <2>1. ctx' = [ctx EXCEPT ![r].state = "SCAN"]
    BY <1>1 DEF R!GiveUp
  <2>2. DOMAIN ctx' = ReceiverIds /\ \A q \in ReceiverIds \ {r} : ctx'[q] = ctx[q]
    BY <2>1 DEF ContextShape
  <2>3. ctx'[r] = [ctx[r] EXCEPT !.state = "SCAN"]
    BY <2>1 DEF ContextShape
  <2> QED
    BY <2>2, <2>3 DEF ContextShape, ContextFields, ContextTyped
<1>2. CASE R!Retry(r)
  <2>1. ctx' = [ctx EXCEPT ![r].retries = @ + 1] /\ ctx[r].retries < MaxRetries
    BY <1>2 DEF R!Retry
  <2>2. DOMAIN ctx' = ReceiverIds /\ \A q \in ReceiverIds \ {r} : ctx'[q] = ctx[q]
    BY <2>1 DEF ContextShape
  <2>3. ctx'[r] = [ctx[r] EXCEPT !.retries = @ + 1]
    BY <2>1 DEF ContextShape
  <2> QED
    BY <2>1, <2>2, <2>3, LegacyAssumption DEF ContextShape, ContextFields, ContextTyped
<1> QED
  BY <1>1, <1>2

LEMMA UpdateTimeoutTyped ==
  ASSUME DataInv, NEW r \in ReceiverIds, UpdateTimeout(r) \/ UpdateTimeoutUnwritten(r)
  PROVE  ReceiversKept
<1> DEFINE frames == IF R!Retry(r) THEN R!RetryFrames(r) ELSE {}
<1>1. /\ UNCHANGED <<senderVars, stored, outbox, confirmed, restarts>>
      /\ R!GiveUp(r) \/ R!Retry(r)
      /\ Fault \/ NoFault
      /\ net' \subseteq net \cup OnAir(frames)
  BY DEF UpdateTimeout, UpdateTimeoutUnwritten, Send
<1>2. ContextTyped(ctx[r]) /\ ContextShape
  BY DEF DataInv, IInv, Shape, ReceiverInv, ReceiverTyped
<1>3. \A f \in frames : Genuine(f)
  <2>1. R!Retry(r) => ExpectedSender \in {NoId, SenderId}
    BY <1>2 DEF R!Retry, ContextTyped, Trusting
  <2> QED
    BY <2>1, RequestGenuine DEF R!RetryFrames
<1> HIDE DEF frames
<1>4. LineTyped' /\ faults' >= faults
  BY <1>1, <1>3, ReceiverSends DEF DataInv
<1>5. UNCHANGED <<engine, flushed>>
  BY <1>1 DEF R!GiveUp, R!Retry
<1> QED
  BY <1>1, <1>2, <1>4, <1>5, TimeoutContext, Listens

-----------------------------------------------------------------------------
(* UPDATE_DATA. *)

\* A receiver that owes no answer has its version on file.
LEMMA NothingOwed ==
  ASSUME IInv, NEW r \in ReceiverIds, outbox[r] = {}
  PROVE  stored[r].dataset_version = ctx[r].local_dataset_version
BY DEF IInv, AnswersOwed, Saved, Reported

\* What a step that answers p with frames is to everybody else.
LEMMA AnswersOnly ==
  ASSUME DataInv, NEW r \in ReceiverIds, NEW p, NEW frames, Answers(r, p, frames),
         Fault \/ NoFault, DiskShape',
         \A q \in ReceiverIds \ {r} :
           ctx'[q] = ctx[q] /\ engine'[q] = engine[q] /\ flushed'[q] = flushed[q]
  PROVE  /\ OnlyReceiver(r)
         /\ outbox'[r] = frames /\ UNCHANGED <<stored, restarts>>
<1>1. /\ UNCHANGED <<senderVars, stored, confirmed, restarts>>
      /\ outbox' = [outbox EXCEPT ![r] = frames]
      /\ net' \subseteq net \cup OnAir({})
  BY DEF Answers, Exchange
<1>2. LineTyped' /\ faults' >= faults /\ restarts' >= restarts
  BY <1>1, ReceiverSends DEF DataInv
<1>3. DOMAIN outbox = ReceiverIds
  BY DEF DataInv, IInv, Shape
<1> QED
  BY <1>1, <1>2, <1>3 DEF OnlyReceiver

\* An answer that changes nothing else.
LEMMA AnswersTyped ==
  ASSUME DataInv, NEW r \in ReceiverIds, UNCHANGED <<ctx, engine, flushed>>,
         NEW p, NEW frames, Answers(r, p, frames), OutboxTyped(r, frames),
         Fault \/ NoFault
  PROVE  ReceiversKept
<1>1. OnlyReceiver(r) /\ outbox'[r] = frames /\ UNCHANGED <<stored, restarts>>
  BY AnswersOnly DEF DataInv, DiskShape
<1>2. ReceiverInv(r) /\ Counted /\ Counted' /\ faults' >= faults
  BY <1>1 DEF DataInv, LineTyped, OnlyReceiver
<1>3. ReceiverTyped(r)'
  BY <1>1, <1>2 DEF ReceiverInv, ReceiverTyped, OutboxTyped
<1>4. ASSUME DiskKept(r)
      PROVE  DiskKept(r)'
  BY <1>1, <1>2, <1>4 DEF DiskKept, Holds, Counted
<1> QED
  BY <1>1, <1>2, <1>3, <1>4, OneReceiver DEF ReceiverInv

\* What is accepted is the batch of an update, and the one announced last.
LEMMA AcceptedBatch ==
  ASSUME DataInv, NEW r \in ReceiverIds, NEW p \in DataFor(r),
         R!Accepts(r, p[2], TRUE)
  PROVE  /\ p[2].sender_id = SenderId /\ Trusting
         /\ \E u : /\ Sendable(u) /\ IsBatch(p[2], u)
                   /\ u.from = ctx[r].local_dataset_version
                   /\ ctx[r].pending.crc = PayloadCrc(u)
<1> DEFINE f == p[2]
<1>1. f.type = "DATA" /\ Genuine(f) /\ ContextTyped(ctx[r])
  BY DEF DataFor, DataInv, LineTyped, NetTyped, ReceiverInv, ReceiverTyped
<1>2. PICK u : Sendable(u) /\ IsBatch(f, u)
  BY <1>1 DEF Genuine
<1>3. /\ ctx[r].state = "WAIT_UPDATE" /\ f.from = ctx[r].local_dataset_version
      /\ R!CrcFits(r, f)
  BY DEF R!Accepts, R!Verdict, R!VersionFits
<1>4. PICK t : Sendable(t) /\ ctx[r].pending = Announcement(t)
  BY <1>1, <1>3 DEF ContextTyped
<1>5. ctx[r].pending.crc = PayloadCrc(t)
  BY <1>4 DEF Announcement, R!Batch
<1>6. PayloadCrc(t) # R!NoCrc
  BY DEF PayloadCrc, R!NoCrc
<1>7. PayloadCrc(f) = ctx[r].pending.crc
  BY <1>3, <1>5, <1>6, SameRules DEF R!CrcFits
<1>8. PayloadCrc(f) = PayloadCrc(u)
  BY <1>2 DEF IsBatch, PayloadCrc
<1>9. f.sender_id = SenderId /\ Trusting
  BY <1>1, <1>3 DEF Genuine, ContextTyped
<1> QED
  BY <1>2, <1>3, <1>7, <1>8, <1>9 DEF IsBatch

LEMMA ApplyContext ==
  ASSUME ContextShape, NEW r \in ReceiverIds, NEW f, R!Apply(r, f, TRUE)
  PROVE  /\ DOMAIN ctx' = ReceiverIds
         /\ \A q \in ReceiverIds \ {r} : ctx'[q] = ctx[q]
         /\ ctx'[r].state = "SCAN" /\ ctx'[r].retries = ctx[r].retries
         /\ ctx'[r].local_dataset_version = f.to
         /\ ctx'[r].last = R!Batch(f.update_id, f.from, f.to, Len(f.removes),
                                   Len(f.adds), ctx[r].pending.crc)
         /\ ctx'[r].last_sender_id = f.sender_id
<1> DEFINE last == R!Batch(f.update_id, f.from, f.to, Len(f.removes), Len(f.adds),
                           ctx[r].pending.crc)
<1>1. ctx' = [ctx EXCEPT ![r].local_dataset_version = f.to, ![r].last = last,
                         ![r].last_sender_id = f.sender_id, ![r].state = "SCAN"]
  BY DEF R!Apply
<1> HIDE DEF last
<1>2. DOMAIN ctx' = ReceiverIds /\ \A q \in ReceiverIds \ {r} : ctx'[q] = ctx[q]
  BY <1>1 DEF ContextShape
<1>3. ctx'[r] = [[[[ctx[r] EXCEPT !.local_dataset_version = f.to]
                          EXCEPT !.last = last]
                          EXCEPT !.last_sender_id = f.sender_id]
                          EXCEPT !.state = "SCAN"]
  BY <1>1 DEF ContextShape
<1> QED
  BY <1>2, <1>3 DEF ContextShape, ContextFields, last

LEMMA ApplyTyped ==
  ASSUME DataInv, NEW r \in ReceiverIds, NEW p \in DataFor(r),
         R!Apply(r, p[2], TRUE), Answers(r, p, R!ApplyFrames(r, p[2])), NoFault
  PROVE  ReceiversKept
<1> DEFINE f == p[2]
           frames == R!ApplyFrames(r, f)
           numbers == R!AfterChanges(engine[r], f, R!Changes(f))
<1>1. PICK u : /\ Sendable(u) /\ IsBatch(f, u)
               /\ u.from = ctx[r].local_dataset_version
               /\ ctx[r].pending.crc = PayloadCrc(u)
  BY AcceptedBatch DEF R!Apply
<1>2. f.sender_id = SenderId /\ Trusting
  BY AcceptedBatch DEF R!Apply
<1>3. ReceiverInv(r) /\ ContextShape /\ DiskShape
  BY DEF DataInv, IInv, Shape
<1>4. /\ DOMAIN ctx' = ReceiverIds
      /\ \A q \in ReceiverIds \ {r} : ctx'[q] = ctx[q]
      /\ ctx'[r].state = "SCAN" /\ ctx'[r].retries = ctx[r].retries
      /\ ctx'[r].local_dataset_version = u.to
      /\ ctx'[r].last = Announcement(u)
      /\ ctx'[r].last_sender_id = SenderId
  <2>1. /\ DOMAIN ctx' = ReceiverIds
        /\ \A q \in ReceiverIds \ {r} : ctx'[q] = ctx[q]
        /\ ctx'[r].state = "SCAN" /\ ctx'[r].retries = ctx[r].retries
        /\ ctx'[r].local_dataset_version = f.to
        /\ ctx'[r].last = R!Batch(f.update_id, f.from, f.to, Len(f.removes),
                                  Len(f.adds), ctx[r].pending.crc)
        /\ ctx'[r].last_sender_id = f.sender_id
    BY <1>3, ApplyContext
  <2>2. ctx'[r].last = Announcement(u)
    BY <1>1, <2>1 DEF IsBatch, Announcement
  <2> QED
    BY <1>1, <1>2, <2>1, <2>2 DEF IsBatch
<1>5. /\ engine' = [engine EXCEPT ![r] = numbers]
      /\ flushed' = [flushed EXCEPT ![r] = engine'[r]]
  BY DEF R!Apply
<1>6. OutboxTyped(r, frames)
  BY <1>2, AckTyped DEF R!ApplyFrames
<1> HIDE DEF frames, numbers
<1>7. /\ DiskShape' /\ engine'[r] = numbers /\ flushed'[r] = numbers
      /\ \A q \in ReceiverIds \ {r} : engine'[q] = engine[q] /\ flushed'[q] = flushed[q]
  BY <1>3, <1>5 DEF DiskShape
<1>8. OnlyReceiver(r) /\ outbox'[r] = frames /\ UNCHANGED <<stored, restarts>>
  <2>1. Answers(r, p, frames)
    BY DEF frames
  <2> QED
    BY <1>4, <1>7, <2>1, AnswersOnly
<1>9. ReceiverTyped(r)'
  <2>1. ContextTyped(ctx[r]) /\ FileTyped(stored[r])
    BY <1>3 DEF ReceiverInv, ReceiverTyped
  <2>2. u \in Elements(Updates) /\ u.to \in Versions /\ u.update_id \in UpdateIds
    BY <1>1 DEF Sendable, Versions, UpdateIds
  <2>3. ctx'[r].last.update_id = u.update_id
    BY <1>4 DEF Announcement, R!Batch
  <2>4. ContextTyped(ctx'[r])
    BY <1>4, <2>1, <2>2, <2>3 DEF ContextTyped
  <2>5. Remembers(ctx'[r])
    BY <1>2, <1>4, <2>2 DEF Remembers
  <2> QED
    BY <1>6, <1>8, <2>1, <2>4, <2>5 DEF ReceiverTyped, OutboxTyped
<1>10. ASSUME Chained
       PROVE  DiskKept(r)'
  <2>1. u \in Elements(Updates)
    BY <1>1 DEF Sendable
  <2>2. engine[r] = Numbers[u.from] \/ HalfWay(engine[r], u.from)
    BY <1>1, <1>3, <1>10 DEF ReceiverInv, DiskKept, Holds
  <2>3. numbers = Numbers[u.to]
    BY <1>1, <1>10, <2>1, <2>2, BatchRepairs DEF numbers
  <2>4. stored[r].dataset_version = u.from
    BY <1>1, NothingOwed DEF DataInv, DataFor
  <2> QED
    BY <1>4, <1>7, <1>8, <2>1, <2>3, <2>4 DEF DiskKept, Holds
<1> QED
  BY <1>8, <1>9, <1>10, OneReceiver DEF ReceiverInv

LEMMA ApplyFailTyped ==
  ASSUME DataInv, NEW r \in ReceiverIds, NEW p \in DataFor(r), NEW n,
         R!ApplyFail(r, p[2], TRUE, n),
         Answers(r, p, R!ApplyFailFrames(r, p[2])), Fault
  PROVE  ReceiversKept
<1> DEFINE f == p[2]
           frames == R!ApplyFailFrames(r, f)
           numbers == R!AfterChanges(engine[r], f, n)
<1>1. PICK u : /\ Sendable(u) /\ IsBatch(f, u)
               /\ u.from = ctx[r].local_dataset_version
  BY AcceptedBatch DEF R!ApplyFail
<1>2. f.sender_id = SenderId
  BY AcceptedBatch DEF R!ApplyFail
<1>3. ReceiverInv(r) /\ DiskShape /\ Counted
  BY DEF DataInv, LineTyped
<1>4. /\ n \in 0..R!Changes(f) /\ UNCHANGED <<ctx, flushed>>
      /\ engine' = [engine EXCEPT ![r] = numbers]
  BY DEF R!ApplyFail
<1>5. OutboxTyped(r, frames)
  BY <1>2, NackTyped DEF R!ApplyFailFrames
<1> HIDE DEF frames, numbers
<1>6. /\ DiskShape' /\ engine'[r] = numbers
      /\ \A q \in ReceiverIds \ {r} : engine'[q] = engine[q]
  BY <1>3, <1>4 DEF DiskShape
<1>7. OnlyReceiver(r) /\ outbox'[r] = frames /\ UNCHANGED <<stored, restarts>>
  <2>1. Answers(r, p, frames)
    BY DEF frames
  <2> QED
    BY <1>4, <1>6, <2>1, AnswersOnly
<1>8. ReceiverTyped(r)'
  BY <1>3, <1>4, <1>5, <1>7 DEF ReceiverInv, ReceiverTyped, OutboxTyped
<1>9. ASSUME Chained
      PROVE  DiskKept(r)'
  <2>1. u \in Elements(Updates) /\ NumbersError(u) = "NONE"
    BY <1>1 DEF Sendable
  <2>2. /\ engine[r] = Numbers[u.from] \/ HalfWay(engine[r], u.from)
        /\ flushed[r] = Numbers[u.from] \/ HalfWay(flushed[r], u.from)
    BY <1>1, <1>3, <1>9 DEF ReceiverInv, DiskKept, Holds
  <2>3. HalfWay(numbers, u.from)
    BY <1>1, <1>4, <1>9, <2>1, <2>2, BatchPart DEF numbers
  <2>4. stored[r].dataset_version = ctx[r].local_dataset_version
    BY NothingOwed DEF DataInv, DataFor
  <2>5. faults' > 0
    BY <1>3 DEF Counted, Fault
  <2> QED
    BY <1>1, <1>4, <1>6, <1>7, <2>2, <2>3, <2>4, <2>5 DEF DiskKept, Holds
<1> QED
  BY <1>7, <1>8, <1>9, OneReceiver DEF ReceiverInv

LEMMA GetsTyped ==
  ASSUME DataInv, NEW r \in ReceiverIds, Gets(r)
  PROVE  ReceiversKept
<1>1. PICK p \in DataFor(r) :
        \/ R!Refuse(r, p[2], TRUE) /\ Answers(r, p, R!RefusalFrames(r, p[2], TRUE))
        \/ R!Repeat(r, p[2], TRUE) /\ Answers(r, p, R!RepeatFrames(r, p[2]))
        \/ R!Apply(r, p[2], TRUE) /\ Answers(r, p, R!ApplyFrames(r, p[2]))
  BY DEF Gets
<1>2. NoFault
  BY DEF Gets
<1>3. p[2].sender_id = SenderId
  BY DEF DataFor, DataInv, LineTyped, NetTyped, Genuine
<1>4. CASE R!Refuse(r, p[2], TRUE) /\ Answers(r, p, R!RefusalFrames(r, p[2], TRUE))
  <2>1. UNCHANGED <<ctx, engine, flushed>>
    BY <1>4 DEF R!Refuse, R!vars
  <2>2. OutboxTyped(r, R!RefusalFrames(r, p[2], TRUE))
    BY <1>3, NackTyped DEF R!RefusalFrames
  <2> QED
    BY <1>2, <1>4, <2>1, <2>2, AnswersTyped
<1>5. CASE R!Repeat(r, p[2], TRUE) /\ Answers(r, p, R!RepeatFrames(r, p[2]))
  <2>1. UNCHANGED <<ctx, engine, flushed>>
    BY <1>5 DEF R!Repeat, R!vars
  <2>2. OutboxTyped(r, R!RepeatFrames(r, p[2]))
    BY <1>3, AckTyped DEF R!RepeatFrames
  <2> QED
    BY <1>2, <1>5, <2>1, <2>2, AnswersTyped
<1>6. CASE R!Apply(r, p[2], TRUE) /\ Answers(r, p, R!ApplyFrames(r, p[2]))
  BY <1>2, <1>6, ApplyTyped
<1> QED
  BY <1>1, <1>4, <1>5, <1>6

LEMMA GetsFaultyTyped ==
  ASSUME DataInv, NEW r \in ReceiverIds, GetsFaulty(r)
  PROVE  ReceiversKept
<1>1. PICK p \in DataFor(r) :
        \/ \E frames \in {{}, R!RefusalFrames(r, p[2], FALSE)} :
             R!Refuse(r, p[2], FALSE) /\ Answers(r, p, frames)
        \/ \E n : R!ApplyFail(r, p[2], TRUE, n)
                  /\ Answers(r, p, R!ApplyFailFrames(r, p[2]))
  BY DEF GetsFaulty
<1>2. Fault
  BY DEF GetsFaulty
<1>3. p[2].sender_id = SenderId
  BY DEF DataFor, DataInv, LineTyped, NetTyped, Genuine
<1>4. CASE \E frames \in {{}, R!RefusalFrames(r, p[2], FALSE)} :
             R!Refuse(r, p[2], FALSE) /\ Answers(r, p, frames)
  <2>1. PICK frames \in {{}, R!RefusalFrames(r, p[2], FALSE)} :
          R!Refuse(r, p[2], FALSE) /\ Answers(r, p, frames)
    BY <1>4
  <2>2. UNCHANGED <<ctx, engine, flushed>>
    BY <2>1 DEF R!Refuse, R!vars
  <2>3. OutboxTyped(r, {}) /\ OutboxTyped(r, R!RefusalFrames(r, p[2], FALSE))
    BY <1>3, NackTyped DEF R!RefusalFrames, OutboxTyped
  <2> QED
    BY <1>2, <2>1, <2>2, <2>3, AnswersTyped
<1>5. CASE \E n : R!ApplyFail(r, p[2], TRUE, n)
                  /\ Answers(r, p, R!ApplyFailFrames(r, p[2]))
  BY <1>2, <1>5, ApplyFailTyped
<1> QED
  BY <1>1, <1>4, <1>5

-----------------------------------------------------------------------------
(* Store, Reply, Restart *)

LEMMA StoreTyped ==
  ASSUME DataInv, NEW r \in ReceiverIds, Store(r)
  PROVE  ReceiversKept
<1>1. /\ UNCHANGED <<senderVars, ctx, engine, flushed, outbox, net, confirmed, restarts>>
      /\ stored' = [stored EXCEPT ![r] = Progress(r)] /\ NoFault
  BY DEF Store, receiverVars
<1>2. DOMAIN stored = ReceiverIds /\ ReceiverInv(r) /\ Counted /\ DiskShape
  BY DEF DataInv, IInv, Shape, LineTyped
<1>3. LineTyped' /\ faults' >= faults /\ restarts' >= restarts
  <2>1. net' \subseteq net \cup OnAir({})
    BY <1>1
  <2> QED
    BY <1>1, <2>1, ReceiverSends DEF DataInv
<1>4. OnlyReceiver(r)
  BY <1>1, <1>2, <1>3 DEF OnlyReceiver, DiskShape
<1>5. /\ stored'[r].dataset_version = ctx[r].local_dataset_version
      /\ stored'[r].last_applied_update_id = ctx[r].last.update_id
  BY <1>1, <1>2 DEF Progress, Metadata
<1>6. ReceiverTyped(r)'
  BY <1>1, <1>2, <1>5 DEF ReceiverInv, ReceiverTyped, FileTyped, ContextTyped, OutboxTyped
<1>7. ASSUME DiskKept(r)
      PROVE  DiskKept(r)'
  BY <1>1, <1>5, <1>7 DEF DiskKept, Holds, NoFault
<1> QED
  BY <1>2, <1>4, <1>6, <1>7, OneReceiver DEF ReceiverInv

LEMMA ReplyTyped ==
  ASSUME DataInv, NEW r \in ReceiverIds, Reply(r)
  PROVE  ReceiversKept
<1>1. /\ UNCHANGED <<senderVars, ctx, engine, flushed, stored, confirmed, restarts>>
      /\ outbox' = [outbox EXCEPT ![r] = {}] /\ NoFault
      /\ net' \subseteq net \cup OnAir(outbox[r])
  BY DEF Reply, Send, receiverVars
<1>2. DOMAIN outbox = ReceiverIds /\ ReceiverInv(r) /\ DiskShape
  BY DEF DataInv, IInv, Shape
<1>3. \A f \in outbox[r] : Genuine(f)
  BY <1>2 DEF ReceiverInv, ReceiverTyped, OutboxTyped
<1>4. LineTyped' /\ faults' >= faults /\ restarts' >= restarts
  BY <1>1, <1>3, ReceiverSends DEF DataInv
<1>5. OnlyReceiver(r)
  BY <1>1, <1>2, <1>4 DEF OnlyReceiver, DiskShape
<1>6. ReceiverTyped(r)'
  BY <1>1, <1>2 DEF ReceiverInv, ReceiverTyped, OutboxTyped
<1>7. ASSUME DiskKept(r)
      PROVE  DiskKept(r)'
  BY <1>1, <1>7 DEF DiskKept, Holds, NoFault
<1> QED
  BY <1>2, <1>5, <1>6, <1>7, OneReceiver DEF ReceiverInv

\* What a restart finds on disk: each unflushed change, or not.
LEMMA DiskAfterCrash ==
  ASSUME NEW v, NEW held, held = Numbers[v] \/ HalfWay(held, v),
         NEW disk, disk = Numbers[v] \/ HalfWay(disk, v), Chained,
         NEW kept \in SUBSET ((held \ disk) \cup (disk \ held))
  PROVE  LET numbers == (disk \ kept) \cup (kept \cap held)
         IN  numbers = Numbers[v] \/ HalfWay(numbers, v)
<1>1. CASE held = Numbers[v] /\ disk = Numbers[v]
  BY <1>1
<1>2. CASE HalfWay(held, v) \/ HalfWay(disk, v)
  <2>1. PICK u \in Elements(Updates) : u.from = v
    BY <1>2 DEF HalfWay
  <2>2. /\ Numbers[v] \cap Numbers[u.to] \subseteq held
        /\ held \subseteq Numbers[v] \cup Numbers[u.to]
        /\ Numbers[v] \cap Numbers[u.to] \subseteq disk
        /\ disk \subseteq Numbers[v] \cup Numbers[u.to]
    BY <2>1 DEF HalfWay, Chained
  <2> QED
    BY <2>1, <2>2 DEF HalfWay
<1> QED
  BY <1>1, <1>2

LEMMA RestartTyped ==
  ASSUME DataInv, NEW r \in ReceiverIds, Restart(r)
  PROVE  ReceiversKept
<1> DEFINE reported == ctx[r].local_dataset_version
           saved == stored[r].dataset_version
<1>1. /\ UNCHANGED <<senderVars, stored, net, confirmed>> /\ NoFault
      /\ outbox' = [outbox EXCEPT ![r] = {}] /\ restarts' = restarts + 1
      /\ ctx' = [ctx EXCEPT ![r] =
                   R!InitialContext(saved, stored[r].last_applied_update_id)]
  BY DEF Restart, R!Restart
<1>2. PICK kept \in SUBSET ((engine[r] \ flushed[r]) \cup (flushed[r] \ engine[r])) :
        LET numbers == (flushed[r] \ kept) \cup (kept \cap engine[r])
        IN  /\ engine' = [engine EXCEPT ![r] = numbers]
            /\ flushed' = [flushed EXCEPT ![r] = numbers]
  BY DEF Restart, R!Restart
<1> DEFINE numbers == (flushed[r] \ kept) \cup (kept \cap engine[r])
<1>3. /\ DOMAIN outbox = ReceiverIds /\ DOMAIN ctx = ReceiverIds
      /\ ReceiverInv(r) /\ Counted /\ DiskShape
  BY DEF DataInv, IInv, Shape, ContextShape, LineTyped
<1>4. LineTyped' /\ faults' >= faults /\ restarts' >= restarts
  <2>1. net' \subseteq net \cup OnAir({})
    BY <1>1
  <2> QED
    BY <1>1, <2>1, ReceiverSends DEF DataInv
<1>5. /\ engine' = [engine EXCEPT ![r] = numbers]
      /\ flushed' = [flushed EXCEPT ![r] = numbers]
  BY <1>2
<1> HIDE DEF numbers
<1>6. DiskShape' /\ engine'[r] = numbers /\ flushed'[r] = numbers
  BY <1>3, <1>5 DEF DiskShape
<1>7. OnlyReceiver(r)
  BY <1>1, <1>3, <1>4, <1>5, <1>6 DEF OnlyReceiver, DiskShape
<1>8. restarts' > 0
  BY <1>1, <1>3 DEF Counted
<1>9. ReceiverTyped(r)'
  <2>1. FileTyped(stored[r])
    BY <1>3 DEF ReceiverInv, ReceiverTyped
  <2>2. ctx'[r] = R!InitialContext(saved, stored[r].last_applied_update_id)
    BY <1>1, <1>3
  <2>3. ContextTyped(ctx'[r])
    BY <2>1, <2>2, LegacyAssumption DEF R!InitialContext, R!Batch, FileTyped, ContextTyped
  <2>4. outbox'[r] = {}
    BY <1>1, <1>3
  <2> QED
    BY <1>1, <1>8, <2>1, <2>3, <2>4 DEF ReceiverTyped, OutboxTyped
<1>10. ASSUME Chained
       PROVE  DiskKept(r)'
  <2>1. DiskKept(r)
    BY <1>3, <1>10 DEF ReceiverInv
  <2>2. numbers = Numbers[saved] \/ HalfWay(numbers, saved)
    <3>1. CASE saved = reported
      <4>1. /\ engine[r] = Numbers[saved] \/ HalfWay(engine[r], saved)
            /\ flushed[r] = Numbers[saved] \/ HalfWay(flushed[r], saved)
        BY <2>1, <3>1 DEF DiskKept, Holds
      <4> QED
        BY <1>10, <4>1, DiskAfterCrash DEF numbers
    <3>2. CASE saved # reported
      <4>1. PICK u \in Elements(Updates) : u.from = saved /\ u.to = reported
        BY <2>1, <3>2 DEF DiskKept
      <4>2. numbers = Numbers[u.to]
        BY <2>1, <3>2, <4>1 DEF DiskKept, numbers
      <4> QED
        BY <4>1, <4>2 DEF HalfWay
    <3> QED
      BY <3>1, <3>2
  <2>3. ctx'[r].local_dataset_version = saved /\ stored'[r].dataset_version = saved
    BY <1>1, <1>3 DEF R!InitialContext
  <2> QED
    BY <1>6, <1>8, <2>2, <2>3 DEF DiskKept, Holds
<1> QED
  BY <1>7, <1>9, <1>10, OneReceiver DEF ReceiverInv

-----------------------------------------------------------------------------
(* All together. *)

LEMMA DataInit == Init => DataInv
<1> SUFFICES ASSUME Init
             PROVE  DataInv
  OBVIOUS
<1>1. /\ ctx = [r \in ReceiverIds |-> R!InitialContext(FirstVersion, 0)]
      /\ engine = [r \in ReceiverIds |-> FirstNumbers] /\ flushed = engine
      /\ stored = [r \in ReceiverIds |-> Metadata(FirstVersion, 0)]
      /\ outbox = [r \in ReceiverIds |-> {}]
      /\ net = {} /\ confirmed = {} /\ faults = 0 /\ restarts = 0
  BY DEF Init, R!Init
<1>2. SenderTyped
  BY SameRules, LegacyAssumption DEF Init, S!Init, SenderTyped
<1>3. LineTyped /\ DiskShape
  BY <1>1, <1>2 DEF LineTyped, NetTyped, Counted, DiskShape
<1>4. ASSUME NEW r \in ReceiverIds
      PROVE  ReceiverInv(r)
  <2>1. /\ ctx[r].state = "SCAN" /\ ctx[r].retries = 0
        /\ ctx[r].local_dataset_version = FirstVersion
        /\ ctx[r].last.update_id = 0
        /\ stored[r].dataset_version = FirstVersion
        /\ stored[r].last_applied_update_id = 0
    BY <1>1 DEF R!InitialContext, R!Batch, Metadata
  <2>2. ReceiverTyped(r)
    BY <1>1, <2>1, LegacyAssumption
    DEF ReceiverTyped, ContextTyped, FileTyped, OutboxTyped, Remembers, Versions
  <2>3. Chained => DiskKept(r)
    BY <1>1, <2>1, NumbersFirst DEF DiskKept, Holds
  <2> QED
    BY <2>2, <2>3 DEF ReceiverInv
<1> QED
  BY <1>3, <1>4, InitHolds DEF DataInv

\* A step of the sender or the radio.
LEMMA AloneKeeps ==
  ASSUME DataInv, LineTyped', ReceiversAlone
  PROVE  ReceiversKept
<1>1. DiskShape'
  BY DEF DataInv, DiskShape, ReceiversAlone
<1>2. ASSUME NEW r \in ReceiverIds
      PROVE  ReceiverInv(r)'
  <2>1. ReceiverInv(r) /\ Counted /\ Counted'
    BY DEF DataInv, LineTyped
  <2> QED
    BY <2>1, ReceiverAlone DEF ReceiversAlone, Counted
<1> QED
  BY <1>1, <1>2 DEF ReceiversKept

LEMMA DataNext == DataInv /\ [Next]_vars => DataInv'
<1> SUFFICES ASSUME DataInv, [Next]_vars
             PROVE  DataInv'
  OBVIOUS
<1>1. IInv'
  BY NextKeeps DEF DataInv
<1>2. CASE Offers \/ Beacon \/ Receives \/ AckTimeout \/ AckTimeoutUnwritten \/ Lose
  <2>1. LineTyped' /\ ReceiversAlone
    BY <1>2, OfferTyped, BeaconTyped, SenderReceivesTyped, AckTimeoutTyped, LoseTyped
    DEF Offers, Receives, DataInv
  <2> QED
    BY <1>1, <2>1, AloneKeeps DEF ReceiversKept, DataInv
<1>3. CASE \E r \in ReceiverIds : ReceiverStep(r)
  <2>1. PICK r \in ReceiverIds : ReceiverStep(r)
    BY <1>3
  <2>2. ReceiversKept
    BY <2>1, HearsTyped, UpdateTimeoutTyped, GetsTyped, GetsFaultyTyped, StoreTyped,
       ReplyTyped, RestartTyped
    DEF ReceiverStep
  <2> QED
    BY <1>1, <2>2 DEF ReceiversKept, DataInv
<1>4. CASE UNCHANGED vars
  <2>1. /\ UNCHANGED <<senderVars, ctx, engine, flushed, stored, outbox, net,
                       confirmed, restarts>>
        /\ NoFault
    BY <1>4 DEF vars, receiverVars, NoFault
  <2>2. net' \subseteq net \cup OnAir({})
    BY <2>1
  <2>3. LineTyped' /\ ReceiversAlone
    BY <2>1, <2>2, SenderUnchanged, Sent DEF DataInv, LineTyped
  <2> QED
    BY <1>1, <2>3, AloneKeeps DEF ReceiversKept, DataInv
<1> QED
  BY <1>2, <1>3, <1>4 DEF Next

LEMMA DataInvariance == Spec => []DataInv
<1>1. Init => DataInv
  BY DataInit
<1>2. DataInv /\ [Next]_vars => DataInv'
  BY DataNext
<1> QED
  BY <1>1, <1>2, PTL DEF Spec

\* Every variable is in its type, and nothing is on the air that no decoder takes.
THEOREM LegacyTypeCorrect == Spec => []TypeOK
<1>1. DataInv => TypeOK
  <2> SUFFICES ASSUME DataInv
               PROVE  TypeOK
    OBVIOUS
  <2>1. /\ state \in {"IDLE", "WAIT_REQUEST", "WAIT_ACK"}
        /\ update \in Elements(Updates) \cup {NoUpdate}
        /\ retries \in 0..MaxRetries
    BY DEF DataInv, LineTyped, SenderTyped, Sendable
  <2>2. state # "IDLE" => update # NoUpdate
    BY DEF DataInv, LineTyped, SenderTyped, NoUpdate
  <2>3. ASSUME NEW r \in ReceiverIds
        PROVE  /\ ctx[r].state \in {"SCAN", "WAIT_UPDATE"}
               /\ ctx[r].retries \in 0..MaxRetries
               /\ ctx[r].local_dataset_version \in Versions
               /\ ctx[r].last.update_id \in UpdateIds \cup {0}
               /\ stored[r].dataset_version \in Versions
               /\ \A f \in outbox[r] : f.sender_id = r /\ Decodable(f)
    BY DEF DataInv, ReceiverInv, ReceiverTyped, ContextTyped, FileTyped, OutboxTyped,
           Genuine
  <2>4. \A p \in net : p[1] \in ReceiverIds \cup {SenderId} /\ Decodable(p[2])
    BY DEF DataInv, LineTyped, NetTyped, Genuine
  <2>5. confirmed \subseteq UpdateIds
    BY DEF DataInv, LineTyped
  <2> QED
    BY <2>1, <2>2, <2>3, <2>4, <2>5 DEF TypeOK
<1> QED
  BY <1>1, DataInvariance, PTL

\* If the updates follow each other, the numbers a receiver holds are those of the
\* version it reports, or between those and the next after a failure or a restart.
THEOREM DatasetsFollowVersions ==
  ASSUME Chained
  PROVE  Spec => []DatasetIsVersion
<1>1. DataInv => DatasetIsVersion
  BY DEF DataInv, ReceiverInv, DiskKept, Holds, HalfWay, DatasetIsVersion
<1> QED
  BY <1>1, DataInvariance, PTL

LEMMA NeverRestarts ==
  ASSUME MaxRestarts = 0, restarts = 0, [Next]_vars
  PROVE  restarts' = 0
<1>1. CASE Offers \/ Receives
  BY <1>1 DEF Offers, Offer, Receives, SenderReceives
<1>2. CASE Beacon \/ AckTimeout \/ AckTimeoutUnwritten \/ Lose \/ UNCHANGED vars
  BY <1>2 DEF Beacon, AckTimeout, AckTimeoutUnwritten, Lose, vars
<1>3. CASE \E r \in ReceiverIds : ReceiverStep(r)
  <2>1. PICK r \in ReceiverIds : ReceiverStep(r)
    BY <1>3
  <2>2. CASE Hears(r) \/ UpdateTimeout(r) \/ UpdateTimeoutUnwritten(r)
    BY <2>2 DEF Hears, UpdateTimeout, UpdateTimeoutUnwritten
  <2>3. CASE Gets(r) \/ GetsFaulty(r)
    BY <2>3 DEF Gets, GetsFaulty, Answers
  <2>4. CASE Store(r) \/ Reply(r) \/ Restart(r)
    BY <2>4 DEF Store, Reply, Restart
  <2> QED
    BY <2>1, <2>2, <2>3, <2>4 DEF ReceiverStep
<1> QED
  BY <1>1, <1>2, <1>3 DEF Next

\* If no receiver restarts, UPDATE_DATA of the update a receiver applied last is
\* recognised and acknowledged, whatever has been announced since.
THEOREM DuplicatesAnswered ==
  ASSUME MaxRestarts = 0, Identified
  PROVE  Spec => []DuplicatesTolerated
<1>1. DataInv /\ restarts = 0 => DuplicatesTolerated
  <2> SUFFICES ASSUME DataInv, restarts = 0, NEW p \in net, NEW r \in ReceiverIds,
                      p[2].type = "DATA", p[2].receiver_id = r,
                      p[2].update_id = ctx[r].last.update_id
               PROVE  R!Repeats(r, p[2], TRUE)
    BY DEF DuplicatesTolerated
  <2> DEFINE f == p[2]
  <2>1. Genuine(f) /\ Remembers(ctx[r])
    BY DEF DataInv, LineTyped, NetTyped, ReceiverInv, ReceiverTyped
  <2>2. PICK t : Sendable(t) /\ IsBatch(f, t)
    BY <2>1 DEF Genuine
  <2>3. /\ Decodable(f) /\ f.sender_id = SenderId
        /\ ctx[r].last.update_id # 0
    BY <2>1 DEF Genuine, Decodable
  <2>4. PICK u \in Elements(Updates) : ctx[r].last = Announcement(u)
    BY <2>1, <2>3 DEF Remembers
  <2>5. Trusting /\ ctx[r].last_sender_id = SenderId
    BY <2>1, <2>3 DEF Remembers
  <2>6. t = u
    <3>1. ctx[r].last.update_id = u.update_id
      BY <2>4 DEF Announcement, R!Batch
    <3>2. f.update_id = t.update_id
      BY <2>2 DEF IsBatch
    <3> QED
      BY <2>2, <2>4, <3>1, <3>2 DEF Identified, Sendable
  <2>7. R!DataBatch(f) = ctx[r].last
    <3>1. R!PayloadCrc(f) = PayloadCrc(t)
      BY <2>2, SameRules DEF IsBatch, PayloadCrc
    <3> QED
      BY <2>2, <2>4, <2>6, <3>1 DEF R!DataBatch, IsBatch, Announcement
  <2>8. R!Trusts(f)
    BY <2>3, <2>5 DEF R!Trusts, Trusting
  <2>9. R!NumbersError(f) = "NONE"
    <3>1. NumbersError(f) = NumbersError(t)
      BY <2>2 DEF IsBatch, NumbersError
    <3> QED
      BY <2>2, <3>1, SameRules DEF Sendable
  <2>10. R!Classify(f, TRUE, r, {"DATA"}) = "NONE"
    BY DEF R!Classify
  <2>11. R!Decodable(f)
    BY <2>3, SameRules
  <2> QED
    BY <2>3, <2>5, <2>7, <2>8, <2>9, <2>10, <2>11
    DEF R!Repeats, R!Verdict, R!IsLastApplied
<1>2. Init => restarts = 0
  BY DEF Init
<1>3. restarts = 0 /\ [Next]_vars => (restarts = 0)'
  BY NeverRestarts
<1> QED
  BY <1>1, <1>2, <1>3, DataInvariance, PTL DEF Spec

=============================================================================
