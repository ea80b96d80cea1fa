---------------------- MODULE Num8LegacyReceiverProofs ----------------------
(***************************************************************************)
(* What a receiver of Num8LegacyReceiver does with any frames, whoever     *)
(* sends them and in whatever order.  The argument: a receiver that waits  *)
(* for an update knows the checksum of it (Waiting), so the content of     *)
(* what it accepts is the one that was announced, and its lists are free   *)
(* of numbers outside the domain.                                          *)
(***************************************************************************)
EXTENDS Num8LegacyReceiver, TLAPS

-----------------------------------------------------------------------------
(* Lists of numbers. *)

\* The first n of a list's elements are some of them, and all if n is large.
LEMMA FirstElements ==
  ASSUME NEW list \in Seq(Nat), NEW n \in Int
  PROVE  /\ First(list, n) \subseteq Elements(list)
         /\ n >= Len(list) => First(list, n) = Elements(list)
         /\ n <= 0 => First(list, n) = {}
BY DEF First, Elements

\* A list without an error holds numbers of the domain only.
LEMMA ListInDomain ==
  ASSUME NEW list \in Seq(Nat), ListError(list) = "NONE"
  PROVE  Elements(list) \subseteq 0..MAX_VALUE
<1>1. Faulty(list) = {}
  BY DEF ListError
<1>2. \A i \in DOMAIN list : list[i] \in Nat /\ list[i] <= MAX_VALUE
  BY <1>1, MaxValueAssumption DEF Faulty, OutOfRange
<1> QED
  BY <1>2, MaxValueAssumption DEF Elements

\* All changes together, and how far any number of them goes.
LEMMA ChangedNumbers ==
  ASSUME NEW f, f.removes \in Seq(Nat), f.adds \in Seq(Nat), NEW numbers
  PROVE  /\ AfterChanges(numbers, f, Changes(f))
              = (numbers \ Elements(f.removes)) \cup Elements(f.adds)
         /\ \A n \in 0..Changes(f) :
              /\ AfterChanges(numbers, f, n) \subseteq numbers \cup Elements(f.adds)
              /\ numbers \ Elements(f.removes) \subseteq AfterChanges(numbers, f, n)
<1>1. /\ Len(f.removes) \in Nat /\ Len(f.adds) \in Nat
      /\ Changes(f) \in Nat /\ Changes(f) >= Len(f.removes)
      /\ Changes(f) - Len(f.removes) = Len(f.adds)
  <2> DEFINE removed == Len(f.removes)
             added == Len(f.adds)
  <2>1. removed \in Nat /\ added \in Nat
    OBVIOUS
  <2>2. Changes(f) = removed + added
    BY DEF Changes
  <2> HIDE DEF removed, added
  <2>3. Changes(f) \in Nat /\ Changes(f) >= removed /\ Changes(f) - removed = added
    BY <2>1, <2>2
  <2> QED
    BY <2>1, <2>3 DEF removed, added
<1>2. /\ First(f.removes, Changes(f)) = Elements(f.removes)
      /\ First(f.adds, Changes(f) - Len(f.removes)) = Elements(f.adds)
  BY <1>1, FirstElements
<1>3. \A n \in 0..Changes(f) :
        /\ First(f.adds, n - Len(f.removes)) \subseteq Elements(f.adds)
        /\ First(f.removes, n) \subseteq Elements(f.removes)
  BY <1>1, FirstElements
<1> QED
  BY <1>2, <1>3 DEF AfterChanges

-----------------------------------------------------------------------------
(* What is accepted. *)

LEMMA AcceptedNumbers ==
  ASSUME NEW r \in ReceiverIds, NEW f \in Frames, f.type = "DATA", NEW intact,
         Accepts(r, f, intact)
  PROVE  Elements(f.adds) \subseteq 0..MAX_VALUE
<1>1. NumbersError(f) = "NONE"
  BY DEF Accepts, Verdict
<1>2. ListError(f.adds) = "NONE"
  BY <1>1 DEF NumbersError
<1> QED
  BY <1>2, ListInDomain, ReceiverAssumption

LEMMA AcceptedFits ==
  ASSUME NEW r \in ReceiverIds, NEW f, NEW intact, Accepts(r, f, intact)
  PROVE  /\ ctx[r].state = "WAIT_UPDATE"
         /\ f.from = ctx[r].local_dataset_version
         /\ CrcFits(r, f)
BY DEF Accepts, Verdict, VersionFits

-----------------------------------------------------------------------------
(* The inductive invariant. *)

ContextFields == {"state", "retries", "local_dataset_version", "last",
                  "last_sender_id", "pending"}

ContextTyped(c) ==
  /\ DOMAIN c = ContextFields
  /\ c.state \in {"SCAN", "WAIT_UPDATE"}
  /\ c.retries \in 0..MaxRetries
  /\ c.local_dataset_version \in Nat
  /\ c.pending.to >= c.pending.from
  /\ c.state = "WAIT_UPDATE" => c.pending.crc # NoCrc

Waiting ==
  /\ DOMAIN ctx = ReceiverIds
  /\ \A r \in ReceiverIds : ContextTyped(ctx[r])

NumbersTyped ==
  /\ engine \in [ReceiverIds -> SUBSET (0..MAX_VALUE)]
  /\ flushed \in [ReceiverIds -> SUBSET (0..MAX_VALUE)]

Inv == Waiting /\ NumbersTyped

LEMMA InitialContextTyped ==
  ASSUME NEW version \in Nat, NEW id
  PROVE  ContextTyped(InitialContext(version, id))
BY ReceiverAssumption DEF ContextTyped, ContextFields, InitialContext, Batch

\* A step that gives one context another typed value.
LEMMA OneContext ==
  ASSUME Waiting, NEW r \in ReceiverIds, NEW c, ContextTyped(c),
         ctx' = [ctx EXCEPT ![r] = c]
  PROVE  Waiting'
BY DEF Waiting

LEMMA InitInv == Init => Inv
<1> SUFFICES ASSUME Init PROVE Inv
  OBVIOUS
<1>1. Waiting
  BY InitialContextTyped, ReceiverAssumption DEF Init, Waiting
<1>2. NumbersTyped
  BY ReceiverAssumption DEF Init, NumbersTyped
<1> QED
  BY <1>1, <1>2 DEF Inv

LEMMA BeaconKeeps ==
  ASSUME Inv, NEW r \in ReceiverIds, NEW f \in Frames, f.type = "BEACON",
         NEW intact, HandleBeacon(r, f, intact)
  PROVE  Inv'
<1> DEFINE c == [[[ctx[r] EXCEPT !.pending = BeaconBatch(f)]
                         EXCEPT !.state = "WAIT_UPDATE"] EXCEPT !.retries = 0]
<1>1. ContextTyped(ctx[r])
  BY DEF Inv, Waiting
<1>2. f.to > f.from /\ f.from \in Nat /\ f.to \in Nat /\ f.crc # NoCrc
  BY ReceiverAssumption DEF HandleBeacon, TakesBeacon, Decodable
<1>3. BeaconBatch(f).to = f.to /\ BeaconBatch(f).from = f.from
      /\ BeaconBatch(f).crc = f.crc
  BY DEF BeaconBatch, Batch
<1>4. ContextTyped(c)
  <2>1. DOMAIN c = ContextFields
    BY <1>1 DEF ContextTyped
  <2>2. /\ c.pending = BeaconBatch(f) /\ c.state = "WAIT_UPDATE" /\ c.retries = 0
        /\ c.local_dataset_version = ctx[r].local_dataset_version
    BY <1>1 DEF ContextTyped, ContextFields
  <2> HIDE DEF c
  <2> QED
    BY <1>1, <1>2, <1>3, <2>1, <2>2, ReceiverAssumption DEF ContextTyped
<1>5. ctx' = [ctx EXCEPT ![r] = c]
  BY DEF HandleBeacon, Inv, Waiting
<1>6. Waiting'
  <2> HIDE DEF c
  <2> QED
    BY <1>4, <1>5, OneContext DEF Inv
<1> QED
  BY <1>6 DEF HandleBeacon, Inv, NumbersTyped

LEMMA TimeoutKeeps ==
  ASSUME Inv, NEW r \in ReceiverIds, GiveUp(r) \/ Retry(r)
  PROVE  Inv'
<1>1. ContextTyped(ctx[r]) /\ DOMAIN ctx = ReceiverIds
  BY DEF Inv, Waiting
<1>2. CASE GiveUp(r)
  <2> DEFINE c == [ctx[r] EXCEPT !.state = "SCAN"]
  <2>1. ContextTyped(c)
    BY <1>1 DEF ContextTyped, ContextFields
  <2>2. ctx' = [ctx EXCEPT ![r] = c]
    BY <1>1, <1>2 DEF GiveUp
  <2> HIDE DEF c
  <2> QED
    BY <1>2, <2>1, <2>2, OneContext DEF GiveUp, Inv, NumbersTyped
<1>3. CASE Retry(r)
  <2> DEFINE c == [ctx[r] EXCEPT !.retries = @ + 1]
  <2>1. ContextTyped(c)
    BY <1>1, <1>3, ReceiverAssumption DEF ContextTyped, ContextFields, Retry
  <2>2. ctx' = [ctx EXCEPT ![r] = c]
    BY <1>1, <1>3 DEF Retry
  <2> HIDE DEF c
  <2> QED
    BY <1>3, <2>1, <2>2, OneContext DEF Retry, Inv, NumbersTyped
<1> QED
  BY <1>2, <1>3

LEMMA RestartKeeps ==
  ASSUME Inv, NEW r \in ReceiverIds, NEW version \in Nat, NEW id,
         Restart(r, version, id)
  PROVE  Inv'
<1>1. Waiting'
  BY InitialContextTyped, OneContext DEF Restart, Inv
<1>2. PICK kept \in SUBSET ((engine[r] \ flushed[r]) \cup (flushed[r] \ engine[r])) :
        LET numbers == (flushed[r] \ kept) \cup (kept \cap engine[r])
        IN  /\ engine' = [engine EXCEPT ![r] = numbers]
            /\ flushed' = [flushed EXCEPT ![r] = numbers]
  BY DEF Restart
<1>3. (flushed[r] \ kept) \cup (kept \cap engine[r]) \in SUBSET (0..MAX_VALUE)
  BY DEF Inv, NumbersTyped
<1>4. NumbersTyped'
  BY <1>2, <1>3 DEF Inv, NumbersTyped
<1> QED
  BY <1>1, <1>4 DEF Inv

\* The version an applied update leads to, and what is flushed of it.
LEMMA ApplyKeeps ==
  ASSUME Inv, NEW r \in ReceiverIds, NEW f \in Frames, f.type = "DATA",
         NEW intact, Apply(r, f, intact)
  PROVE  /\ Inv'
         /\ ctx'[r].local_dataset_version = f.to
         /\ \A q \in ReceiverIds \ {r} : ctx'[q] = ctx[q]
         /\ flushed'[r] = (engine[r] \ Elements(f.removes)) \cup Elements(f.adds)
<1> DEFINE last == Batch(f.update_id, f.from, f.to, Len(f.removes), Len(f.adds),
                         ctx[r].pending.crc)
           c == [[[[ctx[r] EXCEPT !.local_dataset_version = f.to]
                          EXCEPT !.last = last]
                          EXCEPT !.last_sender_id = f.sender_id]
                          EXCEPT !.state = "SCAN"]
           numbers == AfterChanges(engine[r], f, Changes(f))
<1>1. ContextTyped(ctx[r]) /\ DOMAIN ctx = ReceiverIds
  BY DEF Inv, Waiting
<1>2. /\ DOMAIN c = ContextFields /\ c.state = "SCAN"
      /\ c.retries = ctx[r].retries /\ c.pending = ctx[r].pending
      /\ c.local_dataset_version = f.to
  BY <1>1 DEF ContextTyped, ContextFields
<1>3. ctx' = [ctx EXCEPT ![r] = c]
  BY <1>1 DEF Apply
<1>4. f.to \in Nat /\ f.removes \in Seq(Nat) /\ f.adds \in Seq(Nat)
  BY ReceiverAssumption
<1>5. numbers = (engine[r] \ Elements(f.removes)) \cup Elements(f.adds)
  BY <1>4, ChangedNumbers
<1>6. numbers \in SUBSET (0..MAX_VALUE)
  BY <1>5, AcceptedNumbers DEF Apply, Inv, NumbersTyped
<1>7. engine' = [engine EXCEPT ![r] = numbers]
      /\ flushed' = [flushed EXCEPT ![r] = engine'[r]]
  BY DEF Apply
<1> HIDE DEF c, numbers
<1>8. ContextTyped(c)
  BY <1>1, <1>2, <1>4 DEF ContextTyped
<1>9. Waiting' /\ ctx'[r] = c /\ \A q \in ReceiverIds \ {r} : ctx'[q] = ctx[q]
  BY <1>1, <1>3, <1>8, OneContext DEF Inv
<1>10. engine'[r] = numbers /\ flushed'[r] = numbers /\ NumbersTyped'
  BY <1>6, <1>7 DEF Inv, NumbersTyped
<1> QED
  BY <1>2, <1>5, <1>9, <1>10 DEF Inv

LEMMA ApplyFailKeeps ==
  ASSUME Inv, NEW r \in ReceiverIds, NEW f \in Frames, f.type = "DATA",
         NEW intact, NEW n, ApplyFail(r, f, intact, n)
  PROVE  Inv'
<1>1. f.removes \in Seq(Nat) /\ f.adds \in Seq(Nat)
  BY ReceiverAssumption
<1>2. AfterChanges(engine[r], f, n) \subseteq engine[r] \cup Elements(f.adds)
  BY <1>1, ChangedNumbers DEF ApplyFail
<1>3. AfterChanges(engine[r], f, n) \in SUBSET (0..MAX_VALUE)
  BY <1>2, AcceptedNumbers DEF ApplyFail, Inv, NumbersTyped
<1> QED
  BY <1>3 DEF ApplyFail, Inv, Waiting, NumbersTyped

-----------------------------------------------------------------------------
\* What a receiver's version may change by.
AnnouncedStep ==
  \A r \in ReceiverIds :
    ctx'[r].local_dataset_version # ctx[r].local_dataset_version =>
      \E f \in Frames :
        /\ f.type = "DATA"
        /\ ctx[r].pending.crc = PayloadCrc(f)
        /\ f.from = ctx[r].local_dataset_version
        /\ f.to = ctx'[r].local_dataset_version
        /\ flushed'[r] = (engine[r] \ Elements(f.removes)) \cup Elements(f.adds)

LEMMA NextInv ==
  ASSUME Inv, [Next]_vars
  PROVE  Inv' /\ AnnouncedStep
<1> DEFINE SameVersions ==
             \A q \in ReceiverIds :
               ctx'[q].local_dataset_version = ctx[q].local_dataset_version
<1>1. SameVersions => AnnouncedStep
  BY DEF AnnouncedStep
<1>2. ASSUME UNCHANGED vars
      PROVE  Inv' /\ SameVersions
  BY <1>2 DEF vars, Inv, Waiting, NumbersTyped
<1>3. ASSUME NEW r \in ReceiverIds, GiveUp(r) \/ Retry(r)
      PROVE  Inv' /\ SameVersions
  BY <1>3, TimeoutKeeps DEF GiveUp, Retry, Inv, Waiting, ContextTyped, ContextFields
<1>4. ASSUME NEW r \in ReceiverIds,
             Restart(r, ctx[r].local_dataset_version, ctx[r].last.update_id)
      PROVE  Inv' /\ SameVersions
  <2>1. ctx[r].local_dataset_version \in Nat
    BY DEF Inv, Waiting, ContextTyped
  <2> QED
    BY <1>4, <2>1, RestartKeeps DEF Restart, InitialContext, Inv, Waiting
<1>5. ASSUME NEW r \in ReceiverIds, NEW f \in Frames, f.type = "BEACON",
             NEW intact \in BOOLEAN, HandleBeacon(r, f, intact)
      PROVE  Inv' /\ SameVersions
  <2>1. \A q \in ReceiverIds :
          ctx'[q].local_dataset_version = ctx[q].local_dataset_version
    BY <1>5 DEF HandleBeacon, Inv, Waiting, ContextTyped, ContextFields
  <2> QED
    BY <1>5, <2>1, BeaconKeeps
<1>6. ASSUME NEW r \in ReceiverIds, NEW f \in Frames, f.type = "DATA",
             NEW intact \in BOOLEAN, HandleData(r, f, intact)
      PROVE  Inv' /\ AnnouncedStep
  <2>1. CASE Refuse(r, f, intact) \/ Repeat(r, f, intact)
    BY <1>1, <1>2, <2>1 DEF Refuse, Repeat
  <2>2. CASE Apply(r, f, intact)
    <3>1. /\ Inv'
          /\ ctx'[r].local_dataset_version = f.to
          /\ \A q \in ReceiverIds \ {r} : ctx'[q] = ctx[q]
          /\ flushed'[r] = (engine[r] \ Elements(f.removes)) \cup Elements(f.adds)
      BY <1>6, <2>2, ApplyKeeps
    <3>2. /\ f.from = ctx[r].local_dataset_version
          /\ ctx[r].pending.crc = PayloadCrc(f)
      BY <2>2, AcceptedFits DEF Apply, CrcFits, Inv, Waiting, ContextTyped
    <3> QED
      BY <1>6, <3>1, <3>2 DEF AnnouncedStep
  <2>3. CASE \E n \in 0..Changes(f) : ApplyFail(r, f, intact, n)
    <3>1. UNCHANGED ctx
      BY <2>3 DEF ApplyFail
    <3> QED
      BY <1>1, <1>6, <2>3, <3>1, ApplyFailKeeps
  <2> QED
    BY <1>6, <2>1, <2>2, <2>3 DEF HandleData
<1> HIDE DEF SameVersions
<1> QED
  BY <1>1, <1>2, <1>3, <1>4, <1>5, <1>6 DEF Next

LEMMA Invariance == Spec => []Inv
<1>1. Inv /\ [Next]_vars => Inv'
  BY NextInv
<1> QED
  BY <1>1, InitInv, PTL DEF Spec

\* Whatever frames arrive, no number outside the domain is ever stored.
THEOREM ReceiverTypeCorrect == Spec => []TypeOK
<1>1. Inv => TypeOK
  BY DEF Inv, Waiting, ContextTyped, NumbersTyped, TypeOK
<1> QED
  BY <1>1, Invariance, PTL

\* Whatever frames arrive, a receiver changes its version only by the batch that
\* was announced to it last, from the version it was made for, all flushed.
THEOREM AnnouncedIsApplied == Spec => AppliesWhatWasAnnounced
<1>1. Inv /\ [Next]_vars => [AnnouncedStep]_vars
  BY NextInv
<1> QED
  BY <1>1, Invariance, PTL DEF Spec, AppliesWhatWasAnnounced, AnnouncedStep
=============================================================================
