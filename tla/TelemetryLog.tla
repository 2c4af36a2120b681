----------------------------- MODULE TelemetryLog -----------------------------
(***************************************************************************)
(* telemetry.tlog: records of an 8-byte time stamp and a frame, written by *)
(* log_write_frame and read by tlog_read.  The last record of a file may   *)
(* be torn: some of its bytes are there, but not all.                      *)
(***************************************************************************)
EXTENDS Integers, Sequences, FiniteSets, SequencesExt

CONSTANTS
  Frames,     \* the frames the parser completes
  NoFrame     \* no torn record

ASSUME LogAssumption == NoFrame \notin Frames

VARIABLES
  file,       \* the frames of the whole records
  tail,       \* the frame of the torn record at the end, or NoFrame
  buffer      \* the frame that the stdio buffer still holds, or NoFrame

tlog == <<file, tail, buffer>>

EmptyLog == file = <<>> /\ tail = NoFrame /\ buffer = NoFrame

(* The time stamp, the frame and the flush all succeed. *)
WriteRecord(f) == file' = Append(file, f) /\ UNCHANGED <<tail, buffer>>

(* The flush fails part-way: nothing or a part of the record is in the      *)
(* file, and the C library may keep the rest or give it up.                *)
WriteFails(f) ==
  /\ tail' \in {NoFrame, f}
  /\ buffer' \in {NoFrame, f}
  /\ UNCHANGED file

(* log_tlog_close: fclose writes what the buffer holds, or fails again. *)
CloseLog ==
  /\ buffer' = NoFrame
  /\ \/ buffer # NoFrame /\ file' = Append(file, buffer) /\ tail' = NoFrame
     \/ buffer # NoFrame /\ tail' = buffer /\ UNCHANGED file
     \/ UNCHANGED <<file, tail>>

(* The process is killed: the file keeps what the kernel has. *)
LoseBuffer == buffer' = NoFrame /\ UNCHANGED <<file, tail>>

(* What a power cut leaves: fflush hands the bytes to the kernel, and       *)
(* nothing makes the kernel write them out.                                *)
LosePower ==
  /\ buffer' = NoFrame
  /\ \E n \in 0..Len(file) :
       /\ file' = SubSeq(file, 1, n)
       /\ IF n = Len(file) THEN tail' \in {NoFrame, tail}
                           ELSE tail' \in {NoFrame, file[n + 1]}
=============================================================================
