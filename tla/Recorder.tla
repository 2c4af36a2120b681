------------------------------- MODULE Recorder -------------------------------
(***************************************************************************)
(* The recorder's main loop, recorder/main.c: a blocking read, the parser  *)
(* over the bytes that were read, one record per completed frame, and a    *)
(* signal handler that asks the loop to stop.                              *)
(*                                                                         *)
(* The parser is modelled in MavlinkParser; here a read hands over the     *)
(* frames that its bytes complete, which may be none.                      *)
(***************************************************************************)
EXTENDS TelemetryLog

CONSTANTS
  Seconds,          \* the times of day, to the second, a run may start at
  NoLog,            \* no session directory
  MaxFrames,        \* bound: frames received, and kept of earlier runs
  MaxBatch          \* bound: frames that one 256-byte read completes

ASSUME RecorderAssumption ==
  /\ MaxFrames \in Nat /\ MaxBatch \in Nat
  /\ NoLog \notin Nat

VARIABLES
  pc,               \* "open", "check", "enter", "read", "write", "close",
                    \* "closed", "refused" or "dead"
  stop_requested,
  running,          \* cleared when a record cannot be written
  pending,          \* completed frames of the last read, not written yet
  received,         \* history: all completed frames
  archive,          \* out/: the number of records in each session's log, by
                    \* the second it is named after; see session
  session           \* the log that is in file, not in archive, or NoLog

recorder == <<pc, stop_requested, running, pending, received, archive, session>>
disk == <<archive, session>>
recorderVars == <<recorder, tlog>>

-----------------------------------------------------------------------------
RecorderInit ==
  /\ EmptyLog
  /\ pc = "open"
  /\ stop_requested = FALSE
  /\ running = TRUE
  /\ pending = <<>>
  /\ received = <<>>
  /\ archive = [d \in Seconds |-> NoLog]
  /\ session = NoLog

(* The port cannot be opened, or out/ cannot be made. *)
PortFails ==
  /\ pc = "open"
  /\ pc' = "refused"
  /\ UNCHANGED <<stop_requested, running, pending, received, disk, tlog>>

(* Variant: a session directory that exists will do, as out/ does. *)
AnyDirectory(d) == TRUE

NewDirectory(d) == archive[d] = NoLog

(* log_tlog_open at the second d: create_session_directory, whose mkdir     *)
(* must not find the directory, then fopen in mode "wb".                   *)
Open(d) ==
  /\ pc = "open"
  /\ \/ /\ NewDirectory(d)
        /\ pc' = "check"
        /\ session' = d
        /\ archive' = [archive EXCEPT ![d] = NoLog]  \* "wb": now in file
     \/ /\ NewDirectory(d)                \* fopen fails in the new directory
        /\ pc' = "refused"
        /\ archive' = [archive EXCEPT ![d] = 0]
        /\ UNCHANGED session
     \/ ~NewDirectory(d) /\ pc' = "refused" /\ UNCHANGED disk
  /\ UNCHANGED <<stop_requested, running, pending, received, tlog>>

(* Variant: only a failure ends the loop. *)
KeepRunningUntilFailure == running

KeepRunning == running /\ ~stop_requested

(* The condition of the while loop *)
Check ==
  /\ pc = "check"
  /\ pc' = IF KeepRunning THEN "enter" ELSE "close"
  /\ UNCHANGED <<stop_requested, running, pending, received, disk, tlog>>

(* read() is called and blocks. *)
EnterRead ==
  /\ pc = "enter"
  /\ pc' = "read"
  /\ UNCHANGED <<stop_requested, running, pending, received, disk, tlog>>

(* For the bound only: the frames in the logs of earlier sessions *)
Archived ==
  FoldSet(LAMBDA d, total : total + IF archive[d] = NoLog THEN 0 ELSE archive[d],
          0, Seconds)

(* read() returns bytes that complete the frames batch; an empty batch also *)
(* stands for a read of 0 bytes, which the loop does not tell apart.       *)
ReadBytes ==
  /\ pc = "read"
  /\ \E n \in 0..MaxBatch : \E batch \in [1..n -> Frames] :
       /\ Archived + Len(received) + n <= MaxFrames
       /\ pending' = batch
       /\ received' = received \o batch
       /\ pc' = IF batch = <<>> THEN "check" ELSE "write"
  /\ UNCHANGED <<stop_requested, running, disk, tlog>>

(* read() fails with anything but EINTR. *)
ReadFails ==
  /\ pc = "read"
  /\ pc' = "close"
  /\ UNCHANGED <<stop_requested, running, pending, received, disk, tlog>>

(* Variant: a batch is left as soon as the loop is asked to stop. *)
AfterRecordUnlessStopped ==
  IF Tail(pending) = <<>> \/ stop_requested THEN "check" ELSE "write"

(* The next step once the first pending frame is written *)
AfterRecord == IF Tail(pending) = <<>> THEN "check" ELSE "write"

(* Variant: the frames after a failed record are still written. *)
ContinueAfterFailure ==
  /\ UNCHANGED running
  /\ pending' = Tail(pending)
  /\ pc' = AfterRecord

(* running = false and break: the rest of the batch is dropped. *)
StopAfterFailure ==
  /\ running' = FALSE
  /\ pending' = <<>>
  /\ pc' = "check"

(* log_write_frame for the first pending frame *)
WriteFrame ==
  /\ pc = "write"
  /\ \/ /\ WriteRecord(Head(pending))
        /\ pending' = Tail(pending)
        /\ pc' = AfterRecord
        /\ UNCHANGED running
     \/ WriteFails(Head(pending)) /\ StopAfterFailure
  /\ UNCHANGED <<stop_requested, received, disk>>

(* The end of main: log_tlog_close and the port's close *)
Close ==
  /\ pc = "close"
  /\ pc' = "closed"
  /\ CloseLog
  /\ UNCHANGED <<stop_requested, running, pending, received, disk>>

(* handle_sigint; a read() that is blocked fails with EINTR. *)
Interrupt ==
  /\ pc \in {"open", "check", "enter", "read", "write", "close"}
  /\ stop_requested' = TRUE
  /\ pc' = IF pc = "read" THEN "check" ELSE pc
  /\ UNCHANGED <<running, pending, received, disk, tlog>>

(* The process is killed: what the kernel has stays. *)
Kill ==
  /\ pc \in {"check", "enter", "read", "write", "close"}
  /\ pc' = "dead"
  /\ LoseBuffer
  /\ UNCHANGED <<stop_requested, running, pending, received, disk>>

(* What a power cut may leave of the logs of earlier sessions *)
Cut(n) == IF n = NoLog THEN {NoLog} ELSE {NoLog} \cup 0..n

Cuts ==
  {a \in [Seconds -> {NoLog} \cup UNION {Cut(archive[d]) : d \in Seconds}] :
     \A d \in Seconds : a[d] \in Cut(archive[d])}

(* The battery is unplugged, be it after an orderly stop: nothing makes the *)
(* kernel write files out, so every log may lose its end.                  *)
PowerCut ==
  /\ pc # "dead"
  /\ pc' = "dead"
  /\ LosePower
  /\ archive' \in Cuts
  /\ \/ UNCHANGED session
     \/ file' = <<>> /\ tail' = NoFrame /\ session' = NoLog
  /\ UNCHANGED <<stop_requested, running, pending, received>>

RecorderStopped == pc \in {"closed", "refused", "dead"}

(* The recorder is started again; its log so far stays in its directory. *)
Restart ==
  /\ RecorderStopped
  /\ pc' = "open"
  /\ stop_requested' = FALSE /\ running' = TRUE
  /\ pending' = <<>> /\ received' = <<>>
  /\ archive' = IF session = NoLog THEN archive
                ELSE [archive EXCEPT ![session] = Len(file)]
  /\ session' = NoLog
  /\ file' = <<>> /\ tail' = NoFrame /\ buffer' = NoFrame

RecorderStep ==
  \/ PortFails
  \/ \E d \in Seconds : Open(d)
  \/ Check
  \/ EnterRead
  \/ ReadBytes
  \/ ReadFails
  \/ WriteFrame
  \/ Close

RecorderNext == RecorderStep \/ Interrupt \/ Kill \/ PowerCut \/ Restart

RecorderSpec == RecorderInit /\ [][RecorderNext]_recorderVars

(* The program runs, but nothing promises that read() ever returns. *)
ProgramFairness ==
  /\ WF_recorderVars(PortFails \/ \E d \in Seconds : Open(d))
  /\ WF_recorderVars(Check \/ EnterRead \/ WriteFrame \/ Close)

SilentSpec == RecorderSpec /\ ProgramFairness

-----------------------------------------------------------------------------
(* Correctness *)

(* Every variable stays in its range, and frames are pending only while     *)
(* they are being written.                                                 *)
RecorderTypeOK ==
  /\ pc \in {"open", "check", "enter", "read", "write", "close", "closed",
             "refused", "dead"}
  /\ stop_requested \in BOOLEAN /\ running \in BOOLEAN
  /\ pending \in Seq(Frames) /\ received \in Seq(Frames)
  /\ pc = "write" => pending # <<>>
  /\ file \in Seq(Frames)
  /\ tail \in Frames \cup {NoFrame} /\ buffer \in Frames \cup {NoFrame}
  /\ buffer # NoFrame => ~running
  /\ archive \in [Seconds -> Nat \cup {NoLog}]
  /\ session \in Seconds \cup {NoLog}

(* Whatever fails and whenever the process dies, the file holds the first   *)
(* frames received, in order and without a gap; a torn record is the one   *)
(* that comes next, so nothing follows it (recorder/main.c 115-126).       *)
LogIsPrefix ==
  IF tail = NoFrame THEN IsPrefix(file, received)
                    ELSE IsPrefix(Append(file, tail), received)

(* Every frame is in the file before the next read, so an orderly stop      *)
(* loses none, even if it is requested in the middle of a batch, and a     *)
(* dead process no more than one batch (log.c 221, recorder/main.c 97-148).*)
NothingUnwritten ==
  /\ pc \in {"check", "enter", "read"} /\ running => file = received
  /\ pc = "closed" /\ running => file = received /\ tail = NoFrame
  /\ pc = "write" => file \o pending = received

(* CONFIGURATION.md 45: the recorder "stops cleanly with Ctrl+C".  It does    *)
(* while the vehicle keeps sending (FlightTrafficSpec).  If it is silent    *)
(* (SilentSpec) a signal between the test of stop_requested and read() is   *)
(* not noticed (recorder/main.c 97-98).                                    *)
StopsOnInterrupt == stop_requested ~> RecorderStopped

(* No run of the recorder touches the log of an earlier one, although they  *)
(* share out/, sessions are named after a clock that may be set back by a  *)
(* restart, and the file is opened for writing from its start.  Only a     *)
(* power cut may shorten it (log.c 25-54, 70-100).                         *)
EarlierLogsKept ==
  [][\A d \in Seconds :
       archive[d] # NoLog =>
         archive'[d] = archive[d] \/ (PowerCut /\ archive'[d] \in Cut(archive[d]))
    ]_recorderVars

(* How far a session is *)
Phase ==
  CASE pc \in {"open", "refused"} -> "ready"
    [] pc = "closed" /\ running -> "complete"
    [] pc = "dead" \/ (pc = "closed" /\ ~running) -> "over"
    [] OTHER -> IF running THEN "recording" ELSE "failing"

L == INSTANCE FlightLog WITH
  phase <- Phase,
  log <- file,
  current <- session,
  logs <- archive

(* The recorder does what FlightLog says: whatever fails and whenever it is  *)
(* stopped, nothing is read before everything is written, and a log grows  *)
(* by the next frame only, is given up at the first failure, and is not    *)
(* touched by later sessions (recorder/main.c 93-155, log.c 25-100, 188-227).*)
ImplementsFlightLog == L!Spec

-----------------------------------------------------------------------------
(* Why the invariants hold *)

(* As long as no record has failed, file and batch together are what was    *)
(* received; the loop goes no further than its test after a failure, when  *)
(* the stdio buffer may hold the record that comes next.                   *)
WrittenInv ==
  /\ running /\ pc # "dead" =>
       tail = NoFrame /\ buffer = NoFrame /\ file \o pending = received
  /\ pc \notin {"write", "dead"} => pending = <<>>
  /\ pc \in {"open", "refused", "enter", "read", "write"} => running
  /\ pc \in {"closed", "dead"} => buffer = NoFrame
  /\ buffer # NoFrame => IsPrefix(Append(file, buffer), received)

(* The log that is in file has no copy in archive, and there is none before *)
(* it is opened.                                                           *)
ArchiveInv ==
  /\ session # NoLog => archive[session] = NoLog
  /\ pc \in {"open", "refused"} => session = NoLog

RecorderInv ==
  /\ RecorderTypeOK
  /\ WrittenInv
  /\ ArchiveInv
  /\ LogIsPrefix
=============================================================================
