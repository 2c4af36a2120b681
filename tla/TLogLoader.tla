------------------------------ MODULE TLogLoader ------------------------------
(***************************************************************************)
(* tlog_load_flight_data of tlog.c with the functions it calls: one step   *)
(* is one turn of its loop, which reads one record, tests it, decodes it   *)
(* and stores it in the array of its message type (flight_data.c).         *)
(*                                                                         *)
(* A frame is a record: msgid, crc (the checksum in it is right), length   *)
(* (of its payload; a MAVLink 2 sender may cut trailing zero bytes off)    *)
(* and seq, its sequence number, which tells frames apart.                 *)
(***************************************************************************)
EXTENDS TelemetryLog

CONSTANTS
  LocalPosition,        \* message 32
  KnownMessages,        \* the messages mavlink_crc_extra_for knows
  MinimumPayload,       \* for every stored message the payload its decoder
                        \* demands, 0 where it restores the zero bytes
  MaxUnknownTypes,      \* TLOG_MAX_UNKNOWN_MESSAGE_TYPES
  InitialCapacity       \* 256

StoredMessages == DOMAIN MinimumPayload

ASSUME LoaderAssumption ==
  /\ StoredMessages \subseteq KnownMessages
  /\ MinimumPayload \in [StoredMessages -> Nat]
  /\ LocalPosition \in StoredMessages
  /\ MaxUnknownTypes \in Nat
  /\ InitialCapacity \in Nat \ {0}
  /\ \A f \in Frames : f.crc \in BOOLEAN /\ f.length \in Nat

VARIABLES
  result,             \* "loading", "ok" or "error"
  stats,              \* TLogLoadStats_t without the table
  unknown_messages,   \* its table of unknown message types
  samples,            \* FlightData_t: the array of every stored message
  capacity            \* and its capacity

loader == <<result, stats, unknown_messages, samples, capacity>>
loaderVars == <<loader, tlog>>

-----------------------------------------------------------------------------
(* mavlink_crc_extra_for, mavlink_frame_crc_valid *)
KnownFrame(f) == f.msgid \in KnownMessages
ValidFrame(f) == KnownFrame(f) /\ f.crc

(* The decoder of the frame's message: frame_matches demands the whole      *)
(* payload, but copy_zero_padded_payload makes do with less.               *)
Decodes(f) == f.length >= MinimumPayload[f.msgid]

(* flight_data_add_...: there is room, or the capacity is doubled. *)
Full(m) == Len(samples[m]) = capacity[m]

(* Variant: the array grows one element late. *)
GrownLate(m) ==
  IF Len(samples[m]) > capacity[m] THEN 2 * capacity[m] ELSE capacity[m]

GrownCapacity(m) ==
  IF ~Full(m) THEN capacity[m]
  ELSE IF capacity[m] = 0 THEN InitialCapacity ELSE 2 * capacity[m]

Add(f) ==
  /\ samples' = [samples EXCEPT ![f.msgid] = Append(@, f)]
  /\ capacity' = [capacity EXCEPT ![f.msgid] = GrownCapacity(f.msgid)]

(* tlog_count_unknown_message; a new type is dropped when the table is full. *)
Listed(msgid) == \E i \in DOMAIN unknown_messages :
                   unknown_messages[i].msgid = msgid

(* Variant: the type is entered again although it is listed. *)
EnterAlways(msgid) ==
  IF Len(unknown_messages) < MaxUnknownTypes
  THEN Append(unknown_messages, [msgid |-> msgid, count |-> 1])
  ELSE unknown_messages

CountUnknown(msgid) ==
  IF Listed(msgid)
  THEN [i \in DOMAIN unknown_messages |->
          IF unknown_messages[i].msgid = msgid
          THEN [unknown_messages[i] EXCEPT !.count = @ + 1]
          ELSE unknown_messages[i]]
  ELSE IF Len(unknown_messages) < MaxUnknownTypes
  THEN Append(unknown_messages, [msgid |-> msgid, count |-> 1])
  ELSE unknown_messages

(* Variant: every frame is counted as valid. *)
CountedAsValid(outcomes) ==
  [c \in DOMAIN stats |->
     stats[c]
       + IF c \in outcomes \cup {"records_read", "valid_frames"} THEN 1 ELSE 0]

(* The record and its outcomes are counted. *)
Counted(outcomes) ==
  [c \in DOMAIN stats |->
     stats[c] + IF c \in outcomes \cup {"records_read"} THEN 1 ELSE 0]

-----------------------------------------------------------------------------
Counters == {"records_read", "valid_frames", "invalid_crc", "unknown_crc",
             "decode_failures"}

LoaderInit ==
  /\ result = "loading"
  /\ stats = [c \in Counters |-> 0]
  /\ unknown_messages = <<>>
  /\ samples = [m \in StoredMessages |-> <<>>]
  /\ capacity = [m \in StoredMessages |-> 0]

(* The record that tlog_read reads next *)
Record == file[stats.records_read + 1]

More == result = "loading" /\ stats.records_read < Len(file)

UnknownRecord ==
  /\ More
  /\ ~KnownFrame(Record)
  /\ stats' = Counted({"unknown_crc"})
  /\ unknown_messages' = CountUnknown(Record.msgid)
  /\ UNCHANGED <<result, samples, capacity, tlog>>

CorruptRecord ==
  /\ More
  /\ KnownFrame(Record) /\ ~ValidFrame(Record)
  /\ stats' = Counted({"invalid_crc"})
  /\ UNCHANGED <<result, unknown_messages, samples, capacity, tlog>>

(* tlog_decode_and_store does not want the message and returns true. *)
UnwantedRecord ==
  /\ More
  /\ ValidFrame(Record) /\ Record.msgid \notin StoredMessages
  /\ stats' = Counted({"valid_frames"})
  /\ UNCHANGED <<result, unknown_messages, samples, capacity, tlog>>

StoredRecord ==
  /\ More
  /\ ValidFrame(Record) /\ Record.msgid \in StoredMessages
  /\ Decodes(Record)
  /\ Add(Record)
  /\ stats' = Counted({"valid_frames"})
  /\ UNCHANGED <<result, unknown_messages, tlog>>

(* It returns false: the frame does not decode, or realloc fails. *)
UnstoredRecord ==
  /\ More
  /\ ValidFrame(Record) /\ Record.msgid \in StoredMessages
  /\ ~Decodes(Record) \/ Full(Record.msgid)
  /\ stats' = Counted({"valid_frames", "decode_failures"})
  /\ UNCHANGED <<result, unknown_messages, samples, capacity, tlog>>

EndResult == IF tail = NoFrame THEN "ok" ELSE "error"

(* tlog_read finds the end of the file, or a record that ends too early. *)
EndOfLog ==
  /\ result = "loading" /\ ~More
  /\ result' = EndResult
  /\ UNCHANGED <<stats, unknown_messages, samples, capacity, tlog>>

(* fread fails. *)
ReadError ==
  /\ result = "loading"
  /\ result' = "error"
  /\ UNCHANGED <<stats, unknown_messages, samples, capacity, tlog>>

Load ==
  \/ UnknownRecord
  \/ CorruptRecord
  \/ UnwantedRecord
  \/ StoredRecord
  \/ UnstoredRecord
  \/ EndOfLog
  \/ ReadError

-----------------------------------------------------------------------------
(* Correctness *)

(* What of the file has been read, and the records in it with property P *)
Read == SubSeq(file, 1, stats.records_read)
Records(P(_)) == {i \in 1..stats.records_read : P(file[i])}

Wanted(m, f) == f.msgid = m /\ ValidFrame(f) /\ Decodes(f)

(* The wanted ones of frames, in order *)
Selection(m, frames) ==
  LET kept[n \in 0..Len(frames)] ==
        IF n = 0 THEN <<>>
        ELSE IF Wanted(m, frames[n]) THEN Append(kept[n - 1], frames[n])
        ELSE kept[n - 1]
  IN  kept[Len(frames)]

(* Every variable stays in its range; the samples fit their array.          *)
LoaderTypeOK ==
  /\ result \in {"loading", "ok", "error"}
  /\ stats \in [Counters -> 0..Len(file)]
  /\ Len(unknown_messages) <= MaxUnknownTypes
  /\ samples \in [StoredMessages -> Seq(Frames)]
  /\ capacity \in [StoredMessages -> Nat]
  /\ \A m \in StoredMessages : Len(samples[m]) <= capacity[m]

(* decoded_total of the validator's summary: the samples of all messages *)
Decoded == UNION {{m} \X DOMAIN samples[m] : m \in StoredMessages}
DecodedTotal == Cardinality(Decoded)

(* The validator's summary accounts for every record: unknown, corrupt or    *)
(* valid, and a valid one is decoded, not wanted or a failure.  Without    *)
(* failures every array holds its message's records, complete and in       *)
(* order (tlog.c 171-215, validator.c 10-43).                              *)
StatsAddUp ==
  /\ stats.records_read =
       stats.unknown_crc + stats.invalid_crc + stats.valid_frames
  /\ stats.valid_frames = DecodedTotal + stats.decode_failures
       + Cardinality(Records(LAMBDA f :
           ValidFrame(f) /\ f.msgid \notin StoredMessages))
  /\ stats.decode_failures = 0 =>
       \A m \in StoredMessages :
         samples[m] = Selection(m, Read)

(* The table of unknown types lists each type once and, although it may be   *)
(* full, with the number of all its records: a type is listed from its     *)
(* first record on or never (tlog.c 155-169).                              *)
UnknownCountsExact ==
  /\ \A i, j \in DOMAIN unknown_messages :
       unknown_messages[i].msgid = unknown_messages[j].msgid => i = j
  /\ \A i \in DOMAIN unknown_messages :
       unknown_messages[i].count =
         Cardinality(Records(LAMBDA f : f.msgid = unknown_messages[i].msgid))
  /\ Len(unknown_messages) < MaxUnknownTypes =>
       \A i \in 1..stats.records_read : KnownFrame(file[i]) \/ Listed(file[i].msgid)
-----------------------------------------------------------------------------
(* Why they hold: a type that the table does not list was not seen while    *)
(* the table had room, and what is read once is never read again.          *)
LoaderInv ==
  /\ LoaderTypeOK
  /\ \A c \in Counters : stats[c] <= stats.records_read
  /\ unknown_messages \in
       Seq([msgid : {f.msgid : f \in Frames} \ KnownMessages, count : Nat])
  /\ IsFiniteSet(Decoded)
  /\ StatsAddUp
  /\ UnknownCountsExact
  /\ result = "ok" => stats.records_read = Len(file) /\ tail = NoFrame
=============================================================================
