------------------------------ MODULE FlightLog ------------------------------
(***************************************************************************)
(* What the recorder promises of its logs, without reads, batches, signals *)
(* or stdio buffers: a log grows by the next frame that was received, and  *)
(* nothing more is received before all of it is in the log.  Recorder      *)
(* implements it.                                                          *)
(***************************************************************************)
EXTENDS Integers, Sequences, SequencesExt

CONSTANTS
  Frames,
  Seconds,      \* the names of the sessions
  NoLog

VARIABLES
  phase,        \* "ready", "recording", "failing", "complete" or "over"
  received,     \* the frames received in this session
  log,          \* the records that are whole in its log
  current,      \* its name, or NoLog
  logs          \* the number of records in the log of every other session

flightLog == <<phase, received, log, current, logs>>

Init ==
  /\ phase = "ready"
  /\ received = <<>> /\ log = <<>>
  /\ current = NoLog
  /\ logs = [d \in Seconds |-> NoLog]

(* A session has a new name. *)
Begin(d) ==
  /\ phase = "ready" /\ logs[d] = NoLog
  /\ phase' = "recording" /\ current' = d
  /\ UNCHANGED <<received, log, logs>>

(* It does not get further than its directory. *)
BeginFails(d) ==
  /\ phase = "ready" /\ logs[d] = NoLog
  /\ logs' = [logs EXCEPT ![d] = 0]
  /\ UNCHANGED <<phase, received, log, current>>

Receive ==
  /\ phase = "recording" /\ log = received
  /\ received' \in Seq(Frames) /\ IsPrefix(received, received')
  /\ UNCHANGED <<phase, log, current, logs>>

StoreNext ==
  /\ Len(log) < Len(received)
  /\ log' = Append(log, received[Len(log) + 1])

Store ==
  /\ phase = "recording" /\ StoreNext
  /\ UNCHANGED <<phase, received, current, logs>>

Fail ==
  /\ phase = "recording" /\ log # received
  /\ phase' = "failing"
  /\ UNCHANGED <<received, log, current, logs>>

Complete ==
  /\ phase = "recording" /\ log = received
  /\ phase' = "complete"
  /\ UNCHANGED <<received, log, current, logs>>

(* After a failure the log is given up; the frame that failed may be in it. *)
GiveUp ==
  /\ phase = "failing"
  /\ phase' = "over"
  /\ StoreNext \/ UNCHANGED log
  /\ UNCHANGED <<received, current, logs>>

Die ==
  /\ phase \in {"recording", "failing"}
  /\ phase' = "over"
  /\ UNCHANGED <<received, log, current, logs>>

(* Every log may lose its end, or altogether, at any time. *)
LoseEnds ==
  /\ phase' = "over"
  /\ \E n \in 0..Len(log) : log' = SubSeq(log, 1, n)
  /\ current' = current \/ (current' = NoLog /\ log' = <<>>)
  /\ logs' \in [Seconds -> Nat \cup {NoLog}]
  /\ \A d \in Seconds : logs'[d] # NoLog => logs[d] # NoLog /\ logs'[d] <= logs[d]
  /\ UNCHANGED received

(* The next session; the log of this one is kept. *)
StartOver ==
  /\ phase \in {"ready", "complete", "over"}
  /\ phase' = "ready"
  /\ received' = <<>> /\ log' = <<>>
  /\ current' = NoLog
  /\ logs' = IF current = NoLog THEN logs
             ELSE [logs EXCEPT ![current] = Len(log)]

Next ==
  \/ \E d \in Seconds : Begin(d) \/ BeginFails(d)
  \/ Receive
  \/ Store
  \/ Fail
  \/ Complete
  \/ GiveUp
  \/ Die
  \/ LoseEnds
  \/ StartOver

Spec == Init /\ [][Next]_flightLog
=============================================================================
