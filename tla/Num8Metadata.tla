---------------------------- MODULE Num8Metadata ----------------------------
(***************************************************************************)
(* A receiver's metadata record and the file it is kept in                 *)
(* (src/src/num8lora_metadata.c, src/src/num8lora_meta.c): num8lora_       *)
(* metadata_save_file writes <path>.tmp and renames it, one step per call  *)
(* into the C library, any of which may fail; the process may stop between *)
(* any two of them.  The receiver is reduced to its progress.              *)
(*                                                                         *)
(* A file is the sequence of the units written to it, each a record and a  *)
(* position in it.  A missing file is an empty one: both fail to load.     *)
(* The magic and the CRC are taken to tell a record from anything else.    *)
(* Field reserved0 is always 0 and left out.                               *)
(***************************************************************************)
EXTENDS Naturals, Sequences

CONSTANTS
  RecordSize,            \* num8lora_metadata_record_size, in units
  FORMAT_VERSION,        \* NUM8LORA_METADATA_FORMAT_VERSION
  StreamId, StreamEpoch, \* the stream the application follows
  Strangers,             \* other records that may be on the disk at first
  MaxOpId                \* bound: operations applied

VARIABLES
  last_applied_op_id,    \* the receiver's progress
  path, temp,            \* contents of the two files
  pc,                    \* where num8lora_metadata_save_file is
  record,                \* the record it writes
  reported               \* largest progress a save returned SUCCESS for

vars == <<last_applied_op_id, path, temp, pc, record, reported>>

\* The record the application saves at progress n
RecordAt(n) == [format_version |-> FORMAT_VERSION, stream_id |-> StreamId,
                stream_epoch |-> StreamEpoch, last_applied_op_id |-> n]

Records == {RecordAt(n) : n \in 0..MaxOpId} \cup Strangers

\* num8lora_metadata_record_matches_stream
MatchesStream(rec) == /\ rec.format_version = FORMAT_VERSION
                      /\ rec.stream_id = StreamId
                      /\ rec.stream_epoch = StreamEpoch

ASSUME MetadataAssumption ==
  /\ RecordSize \in Nat \ {0} /\ MaxOpId \in Nat
  /\ \A rec \in Strangers : ~MatchesStream(rec)

\* The first k units of a record: all of them are what encode_record writes
Encoded(rec, k) == [i \in 1..k |-> <<rec, i>>]

\* The record num8lora_metadata_decode_record accepts, {} when it refuses
DecodeRecord(content) ==
  {rec \in Records : /\ content = Encoded(rec, RecordSize)
                     /\ rec.format_version = FORMAT_VERSION}

\* num8lora_metadata_load_file: nothing may be missing and nothing may follow
LoadFile(content) ==
  {rec \in DecodeRecord(content) : Len(content) = RecordSize}

\* The progress a restarted application gives num8lora_receiver_init
Resumed(content) ==
  LET usable == {rec \in LoadFile(content) : MatchesStream(rec)}
  IN  IF usable = {} THEN 0
      ELSE (CHOOSE rec \in usable : TRUE).last_applied_op_id

\* What earlier runs may have left on the disk
Leftovers == {Encoded(rec, k) : rec \in Strangers, k \in 0..RecordSize}

Init ==
  /\ last_applied_op_id = 0
  /\ path \in Leftovers \cup {<<>>}
  /\ temp \in Leftovers \cup {<<>>}
  /\ pc = "idle"
  /\ record = RecordAt(0)
  /\ reported = 0

-----------------------------------------------------------------------------
\* An operation is applied; the application does not run during a save
Apply ==
  /\ pc = "idle"
  /\ last_applied_op_id < MaxOpId
  /\ last_applied_op_id' = last_applied_op_id + 1
  /\ UNCHANGED <<path, temp, pc, record, reported>>

\* Slip: the temporary file is opened for appending
OpenAppending ==
  /\ pc = "idle"
  /\ pc' = "opened"
  /\ record' = RecordAt(last_applied_op_id)
  /\ UNCHANGED <<last_applied_op_id, path, temp, reported>>

\* The record is encoded, fopen(temp_path, "wb") truncates
Open ==
  /\ pc = "idle"
  /\ pc' = "opened"
  /\ record' = RecordAt(last_applied_op_id)
  /\ temp' = <<>>
  /\ UNCHANGED <<last_applied_op_id, path, reported>>

\* Slip: a short write is not noticed
WriteUnchecked ==
  /\ pc = "opened"
  /\ \E k \in 0..RecordSize : temp' = temp \o Encoded(record, k)
  /\ pc' = "written"
  /\ UNCHANGED <<last_applied_op_id, path, record, reported>>

\* fwrite and fflush: what arrives is some part of the record, and they only
\* succeed when it is all of it
Write ==
  /\ pc = "opened"
  /\ \E k \in 0..RecordSize :
       /\ temp' = temp \o Encoded(record, k)
       /\ pc' \in {"failed"} \cup (IF k = RecordSize THEN {"written"} ELSE {})
  /\ UNCHANGED <<last_applied_op_id, path, record, reported>>

\* fclose
Close ==
  /\ pc = "written"
  /\ pc' \in {"closed", "failed"}
  /\ UNCHANGED <<last_applied_op_id, path, temp, record, reported>>

\* rename, and SUCCESS ...
Replace ==
  /\ pc = "closed"
  /\ path' = temp
  /\ temp' = <<>>
  /\ pc' = "idle"
  /\ reported' = record.last_applied_op_id
  /\ UNCHANGED <<last_applied_op_id, record>>

\* ... or not
ReplaceFails ==
  /\ pc = "closed"
  /\ pc' = "failed"
  /\ UNCHANGED <<last_applied_op_id, path, temp, record, reported>>

\* remove(temp_path), whether it works or not, and FAILURE
GiveUp ==
  /\ pc = "failed"
  /\ temp' \in {temp, <<>>}
  /\ pc' = "idle"
  /\ UNCHANGED <<last_applied_op_id, path, record, reported>>

\* The process stops anywhere and starts again: load_file, the test whether
\* the record is of this stream, num8lora_receiver_init
Restart ==
  /\ last_applied_op_id' = Resumed(path)
  /\ pc' = "idle"
  /\ UNCHANGED <<path, temp, record, reported>>

Next ==
  \/ Apply \/ Restart
  \/ Open \/ Write \/ Close \/ Replace \/ ReplaceFails \/ GiveUp

Spec == Init /\ [][Next]_vars
-----------------------------------------------------------------------------
\* Every variable is in its type, and no file is longer than a record.
TypeOK ==
  /\ last_applied_op_id \in 0..MaxOpId
  /\ {path, temp} \subseteq
       {Encoded(rec, k) : rec \in Records, k \in 0..RecordSize} \cup {<<>>}
  /\ pc \in {"idle", "opened", "written", "failed", "closed"}
  /\ record \in Records
  /\ reported \in 0..MaxOpId

\* What a save reported as stored is there after a restart, whatever later
\* saves were cut short; and a restart never gets ahead of what was applied.
SuccessIsDurable ==
  reported <= Resumed(path) /\ Resumed(path) <= last_applied_op_id

P == INSTANCE Num8Progress WITH stored <- Resumed(path)

\* The file behaves as one cell that is replaced in one step: no failure and
\* no crash during a save makes a restart resume from anything but the old or
\* the new progress.
StoresAtomically == P!Spec
=============================================================================
