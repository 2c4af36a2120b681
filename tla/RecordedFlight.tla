---------------------------- MODULE RecordedFlight ----------------------------
(***************************************************************************)
(* A flight from the recorder to the controller: the recorder writes       *)
(* telemetry.tlog until it stops, fails, is killed or loses its power;     *)
(* then the file is loaded for the replay.                                 *)
(***************************************************************************)
EXTENDS Recorder, TLogLoader

flightVars == <<recorder, loader, tlog>>

FlightInit == RecorderInit /\ LoaderInit

Loading == result # "loading" \/ stats.records_read > 0

RecordStep == ~Loading /\ RecorderNext /\ UNCHANGED loader

(* The log of the last run is loaded. *)
LoadStep ==
  RecorderStopped /\ session # NoLog /\ Load /\ UNCHANGED recorder

FlightNext == RecordStep \/ LoadStep

FlightSpec == FlightInit /\ [][FlightNext]_flightVars

(* The vehicle keeps sending while it is recorded. *)
FlightTrafficSpec ==
  FlightSpec /\ ProgramFairness /\ WF_recorderVars(ReadBytes)

(* prepare_replay_trajectory goes on with the loaded positions. *)
Accepted == result = "ok"

(* Every variable of the recorder and of the loader stays in its range, and *)
(* the samples fit their arrays (tlog.c 171-215, flight_data.c 83-98).      *)
FlightTypeOK == RecorderTypeOK /\ LoaderTypeOK

(* The usable local positions among frames *)
Positions(frames) == Selection(LocalPosition, frames)

(* What is replayed is what the vehicle reported: the positions of a loaded  *)
(* recording are the valid local positions of an initial part of the       *)
(* flight, in order and complete up to where the recording ends, as long   *)
(* as memory lasts.  After an orderly stop they are those of all frames    *)
(* received (recorder/main.c 93-155, log.c 188-227, tlog.c 171-215).       *)
ReplaysTheFlight ==
  Accepted /\ stats.decode_failures = 0 =>
    /\ \E n \in 0..Len(received) :
         samples[LocalPosition] = Positions(SubSeq(received, 1, n))
    /\ pc = "closed" /\ running =>
         samples[LocalPosition] = Positions(received)

(* The recorder is done when its log is loaded, so the log stays as it is. *)
FlightInv ==
  /\ RecorderInv
  /\ LoaderInv
  /\ Loading => RecorderStopped /\ session # NoLog
=============================================================================
