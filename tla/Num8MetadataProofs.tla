------------------------- MODULE Num8MetadataProofs -------------------------
(***************************************************************************)
(* Num8Metadata implements Num8Progress, for every size of a record and    *)
(* whatever earlier runs left on the disk.  The argument: what is renamed  *)
(* is always the whole record of the receiver's progress (Saving), and a   *)
(* whole record loads as what it was made from (ResumedRecord).            *)
(***************************************************************************)
EXTENDS Num8Metadata, TLAPS, SequenceTheorems

\* Two records with a common unit are the same.
LEMMA EncodedInjective ==
  ASSUME NEW a, NEW b, NEW k \in Nat,
         Encoded(a, RecordSize) = Encoded(b, k)
  PROVE  a = b
<1>1. 1 \in 1..RecordSize
  BY MetadataAssumption
<1>2. 1..RecordSize = 1..k
  BY DEF Encoded
<1>3. Encoded(a, RecordSize)[1] = <<a, 1>> /\ Encoded(b, k)[1] = <<b, 1>>
  BY <1>1, <1>2 DEF Encoded
<1> QED
  BY <1>3

\* A saved record loads as the progress it was saved at.
LEMMA ResumedRecord ==
  ASSUME NEW n \in 0..MaxOpId
  PROVE  Resumed(Encoded(RecordAt(n), RecordSize)) = n
<1> DEFINE content == Encoded(RecordAt(n), RecordSize)
           usable == {rec \in LoadFile(content) : MatchesStream(rec)}
<1>1. RecordAt(n) \in usable
  <2>1. Len(content) = RecordSize
    BY MetadataAssumption DEF Encoded
  <2>2. RecordAt(n) \in DecodeRecord(content)
    BY DEF DecodeRecord, Records, RecordAt
  <2> QED
    BY <2>1, <2>2 DEF LoadFile, RecordAt, MatchesStream
<1>2. \A rec \in usable : rec = RecordAt(n)
  BY EncodedInjective, MetadataAssumption DEF LoadFile, DecodeRecord
<1>3. (CHOOSE rec \in usable : TRUE) = RecordAt(n)
  <2> HIDE DEF usable
  <2> QED
    BY <1>1, <1>2
<1>4. RecordAt(n).last_applied_op_id = n
  BY DEF RecordAt
<1> QED
  BY <1>1, <1>3, <1>4 DEF Resumed

\* What earlier runs left is not resumed from.
LEMMA ResumedLeftover ==
  ASSUME NEW content \in Leftovers \cup {<<>>}
  PROVE  Resumed(content) = 0
<1>1. SUFFICES ASSUME NEW rec \in LoadFile(content), MatchesStream(rec)
               PROVE  FALSE
  BY DEF Resumed
<1>2. content = Encoded(rec, RecordSize)
  BY DEF LoadFile, DecodeRecord
<1>3. content # <<>>
  <2>1. 1 \in DOMAIN content
    BY <1>2, MetadataAssumption DEF Encoded
  <2> QED
    BY <2>1
<1>4. PICK s \in Strangers, k \in 0..RecordSize : content = Encoded(s, k)
  BY <1>3 DEF Leftovers
<1>5. s = rec
  <2>1. k \in Nat
    BY MetadataAssumption
  <2> QED
    BY <1>2, <1>4, <2>1, EncodedInjective
<1> QED
  BY <1>1, <1>5, MetadataAssumption

\* What is written of a record to an empty file is all that is in it.
LEMMA WritePart ==
  ASSUME NEW rec, NEW k \in 0..RecordSize
  PROVE  <<>> \o Encoded(rec, k) = Encoded(rec, k)
<1> DEFINE Unit == {<<rec, i>> : i \in 1..RecordSize}
<1>1. Encoded(rec, k) \in Seq(Unit)
  BY MetadataAssumption DEF Encoded
<1> QED
  BY <1>1

\* What a file may hold.
Content == {Encoded(rec, k) : rec \in Records, k \in 0..RecordSize} \cup {<<>>}

-----------------------------------------------------------------------------
\* A save in progress writes the receiver's progress, and what it is about to
\* rename is whole.
Saving ==
  /\ pc \in {"idle", "opened", "written", "failed", "closed"}
  /\ pc # "idle" => record = RecordAt(last_applied_op_id)
  /\ pc = "opened" => temp = <<>>
  /\ pc \in {"written", "closed"} => temp = Encoded(record, RecordSize)

\* The inductive invariant.
MetadataInv ==
  /\ last_applied_op_id \in 0..MaxOpId
  /\ reported \in 0..MaxOpId /\ Resumed(path) \in 0..MaxOpId
  /\ Saving
  /\ SuccessIsDurable

LEMMA MetadataInit == Init => MetadataInv /\ P!Init
<1> SUFFICES ASSUME Init PROVE MetadataInv /\ P!Init
  OBVIOUS
<1>1. Resumed(path) = 0
  BY ResumedLeftover DEF Init
<1> QED
  BY <1>1, MetadataAssumption DEF Init, MetadataInv, Saving, SuccessIsDurable, P!Init

\* Every step keeps the invariant and is a step of Num8Progress or none.
LEMMA MetadataStep ==
  ASSUME MetadataInv, [Next]_vars
  PROVE  MetadataInv' /\ [P!Next]_P!vars
<1> USE MetadataAssumption DEF MetadataInv, Saving
<1>1. CASE Apply
  BY <1>1 DEF Apply, SuccessIsDurable, P!Next, P!Apply
<1>2. CASE Restart
  BY <1>2 DEF Restart, SuccessIsDurable, P!Next, P!Crash
<1>3. CASE Open
  BY <1>3 DEF Open, SuccessIsDurable, P!vars
<1>4. CASE Write
  <2>1. pc' = "written" => temp' = Encoded(record, RecordSize)
    BY <1>4, WritePart DEF Write
  <2> QED
    BY <1>4, <2>1 DEF Write, SuccessIsDurable, P!vars
<1>5. CASE Close
  BY <1>5 DEF Close, SuccessIsDurable, P!vars
<1>6. CASE Replace
  <2>1. record = RecordAt(last_applied_op_id)
        /\ path' = Encoded(record, RecordSize)
    BY <1>6 DEF Replace
  <2>2. Resumed(path)' = last_applied_op_id
    BY <2>1, ResumedRecord
  <2>3. reported' = last_applied_op_id
    BY <1>6, <2>1 DEF Replace, RecordAt
  <2>4. MetadataInv'
    BY <1>6, <2>2, <2>3 DEF Replace, SuccessIsDurable
  <2>5. P!Store
    BY <1>6, <2>2 DEF Replace, P!Store
  <2> QED
    BY <2>4, <2>5 DEF P!Next
<1>7. CASE ReplaceFails
  BY <1>7 DEF ReplaceFails, SuccessIsDurable, P!vars
<1>8. CASE GiveUp
  BY <1>8 DEF GiveUp, SuccessIsDurable, P!vars
<1>9. CASE UNCHANGED vars
  BY <1>9 DEF vars, SuccessIsDurable, P!vars
<1> QED
  BY <1>1, <1>2, <1>3, <1>4, <1>5, <1>6, <1>7, <1>8, <1>9 DEF Next

\* Only an empty file is written to, so no file ever holds more than a record.
Filed == path \in Content /\ temp \in Content /\ record \in Records

LEMMA FiledInit == Init => Filed
<1> SUFFICES ASSUME Init PROVE Filed
  OBVIOUS
<1>1. Leftovers \cup {<<>>} \subseteq Content
  BY DEF Leftovers, Content, Records
<1>2. record \in Records
  BY MetadataAssumption DEF Init, Records
<1> QED
  BY <1>1, <1>2 DEF Init, Filed

LEMMA FiledStep ==
  ASSUME MetadataInv, Filed, [Next]_vars
  PROVE  Filed'
<1>1. <<>> \in Content
  BY DEF Content
<1>2. RecordAt(last_applied_op_id) \in Records
  BY DEF MetadataInv, Records
<1>3. CASE Write
  <2>1. PICK k \in 0..RecordSize : temp' = temp \o Encoded(record, k)
    BY <1>3 DEF Write
  <2>2. temp' = Encoded(record, k)
    BY <1>3, <2>1, WritePart DEF Write, MetadataInv, Saving
  <2>3. temp' \in Content
    BY <2>2 DEF Filed, Content
  <2>4. UNCHANGED <<path, record>>
    BY <1>3 DEF Write
  <2> QED
    BY <2>3, <2>4 DEF Filed
<1> HIDE DEF Content
<1>4. CASE Open
  BY <1>1, <1>2, <1>4 DEF Open, Filed, Records
<1>5. CASE Replace \/ GiveUp
  BY <1>1, <1>5 DEF Replace, GiveUp, Filed
<1>6. CASE \/ Apply \/ Restart \/ Close \/ ReplaceFails \/ UNCHANGED vars
  BY <1>6 DEF Apply, Restart, Close, ReplaceFails, vars, Filed
<1> QED
  BY <1>3, <1>4, <1>5, <1>6 DEF Next

\* Whatever is cut short, a file never holds more than a record, and the progress
\* resumed from one is in range.
THEOREM MetadataTypeCorrect == Spec => []TypeOK
<1>1. Init => MetadataInv /\ Filed
  BY MetadataInit, FiledInit
<1>2. MetadataInv /\ Filed /\ [Next]_vars => (MetadataInv /\ Filed)'
  BY MetadataStep, FiledStep
<1>3. MetadataInv /\ Filed => TypeOK
  BY DEF MetadataInv, Saving, Filed, TypeOK, Content
<1> QED
  BY <1>1, <1>2, <1>3, PTL DEF Spec

\* What a save reported as stored survives every crash and every failed save.
THEOREM SavesAreDurable == Spec => []SuccessIsDurable
<1>1. MetadataInv /\ [Next]_vars => MetadataInv'
  BY MetadataStep
<1>2. MetadataInv => SuccessIsDurable
  BY DEF MetadataInv
<1> QED
  BY <1>1, <1>2, MetadataInit, PTL DEF Spec

\* The file in steps implements progress that is stored in one.
THEOREM ImplementsProgress == Spec => StoresAtomically
<1>1. MetadataInv /\ [Next]_vars => MetadataInv' /\ [P!Next]_P!vars
  BY MetadataStep
<1> QED
  BY <1>1, MetadataInit, PTL DEF Spec, StoresAtomically, P!Spec
=============================================================================
