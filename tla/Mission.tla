-------------------------------- MODULE Mission --------------------------------
(***************************************************************************)
(* What the flight controller promises, without clock, messages, retries   *)
(* or program states: which positions the vehicle is sent to and which     *)
(* commands are given, in which order.  ControlLoop implements it.         *)
(***************************************************************************)
EXTENDS Integers, Sequences

CONSTANTS
  Trajectory,      \* the samples, relative to the first
  Origins,         \* the positions the vehicle may report at the start
  FiniteLimit,     \* positions beyond it cannot be commanded
  PrestreamCount,  \* setpoints the vehicle needs before Offboard
  NoPosition

VARIABLES
  phase,       \* how far the mission is
  origin,      \* where the trajectory starts in the vehicle's frame
  goal,        \* the position the vehicle was last sent to
  streamed,    \* setpoints sent before Offboard was requested
  flown,       \* samples of the trajectory flown
  requested    \* the commands given at least once

mission == <<phase, origin, goal, streamed, flown, requested>>

Sample(i) == Trajectory[i] + origin

Init ==
  /\ phase = "preparing"
  /\ origin = NoPosition
  /\ goal = NoPosition
  /\ streamed = 0
  /\ flown = 0
  /\ requested = {}

(* The trajectory is moved, as a whole, to where the vehicle is. *)
Place(o) ==
  /\ phase = "preparing"
  /\ \A i \in DOMAIN Trajectory :
       Trajectory[i] + o \in -FiniteLimit..FiniteLimit
  /\ phase' = "startup"
  /\ origin' = o
  /\ UNCHANGED <<goal, streamed, flown, requested>>

(* The first sample may be sent, and counts until Offboard is requested. *)
StreamFirst ==
  \/ UNCHANGED <<goal, streamed>>
  \/ /\ goal' = Sample(1)
     /\ streamed' \in {streamed, streamed + 1}

(* Offboard after enough setpoints, Arm after Offboard, each at most once. *)
RequestNext ==
  \/ UNCHANGED requested
  \/ requested = {} /\ streamed' = PrestreamCount /\ requested' = {"offboard"}
  \/ requested = {"offboard"} /\ requested' = {"offboard", "arm"}

GetReady ==
  /\ phase = "startup"
  /\ StreamFirst
  /\ RequestNext
  /\ \/ UNCHANGED phase
     \/ requested = {"offboard", "arm"} /\ phase' = "flying"
  /\ UNCHANGED <<origin, flown>>

FlySample ==
  /\ phase = "flying"
  /\ flown < Len(Trajectory)
  /\ goal' = Sample(flown + 1)
  /\ flown' = flown + 1
  /\ UNCHANGED <<phase, origin, streamed, requested>>

Hold ==
  /\ phase = "flying"
  /\ flown = Len(Trajectory)
  /\ phase' = "holding"
  /\ UNCHANGED <<origin, goal, streamed, flown, requested>>

StartLanding ==
  /\ phase = "holding"
  /\ phase' = "landing"
  /\ UNCHANGED <<origin, goal, streamed, flown, requested>>

RequestLand ==
  /\ phase = "landing"
  /\ requested' = requested \cup {"land"}
  /\ UNCHANGED <<phase, origin, goal, streamed, flown>>

Finish ==
  /\ phase = "landing"
  /\ "land" \in requested
  /\ phase' = "done"
  /\ UNCHANGED <<origin, goal, streamed, flown, requested>>

(* The mission may fail until it is done, also in the middle of a step that *)
(* has sent the first sample; no command is given by a step that fails.    *)
Abort ==
  /\ phase \notin {"done", "failed"}
  /\ phase' = "failed"
  /\ IF phase = "startup" THEN StreamFirst ELSE UNCHANGED <<goal, streamed>>
  /\ UNCHANGED <<origin, flown, requested>>

Next ==
  \/ \E o \in Origins : Place(o)
  \/ GetReady
  \/ FlySample
  \/ Hold
  \/ StartLanding
  \/ RequestLand
  \/ Finish
  \/ Abort

Spec == Init /\ [][Next]_mission
=============================================================================
