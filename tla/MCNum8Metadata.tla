--------------------------- MODULE MCNum8Metadata ---------------------------
(* A small instance of Num8Metadata. *)
EXTENDS Num8Metadata

\* Records of another stream, another epoch and another format version, each
\* ahead of this stream
MCStrangers ==
  {[RecordAt(MaxOpId) EXCEPT !.stream_id = StreamId + 1],
   [RecordAt(MaxOpId) EXCEPT !.stream_epoch = StreamEpoch + 1],
   [RecordAt(MaxOpId) EXCEPT !.format_version = FORMAT_VERSION + 1]}
=============================================================================
