-------------------------------- MODULE Replay --------------------------------
(***************************************************************************)
(* From the recorded local positions to the trajectory that is flown.      *)
(* Two programs prepare it with the same three functions of replay.c: the  *)
(* replay tool (replay/main.c), which prints it for the operator, and the  *)
(* controller (prepare_replay_trajectory of control_replay.c), which flies *)
(* it.  One step is one iteration of a loop.                               *)
(*                                                                         *)
(* A position has a horizontal coordinate x (x and y of the program are    *)
(* treated alike) and z, which points down.  Indices start at 1, where the *)
(* program's start at 0.                                                   *)
(***************************************************************************)
EXTENDS Integers, Sequences, FiniteSets

CONSTANTS
  Recordings,                 \* possible flight_data.local_positions
  NonFinite,                  \* a coordinate that is NaN or infinite
  Interval,                   \* interval_us, 100000
  WordSize,                   \* 2^64: time stamps wrap around
  MaximumAltitude,            \* the fields of TrajectorySafetyLimit_t
  MaximumHorizontalDistance,
  Speed,                      \* distance per microsecond
  TotalDuration,              \* the controller's, 30 s
  PreviewDuration             \* the replay tool's, 25 s

Coordinates == Int \cup {NonFinite}
Positions ==
  [timestamp_us : 0..(WordSize - 1), x : Coordinates, z : Coordinates]

ASSUME ReplayAssumption ==
  /\ NonFinite \notin Int
  /\ Interval \in Nat \ {0}
  /\ WordSize \in Nat \ {0}
  /\ Recordings \subseteq Seq(Positions)
  /\ Speed \in Nat
  /\ PreviewDuration \in Nat /\ TotalDuration \in Nat
  /\ PreviewDuration <= TotalDuration

VARIABLES
  program,          \* "tool" or "controller"
  recording,        \* the local positions in the log
  exit_status,      \* of the tool, if it gets to its end
  shown,            \* what a tool that exited with 0 has printed, else <<>>
  phase,            \* "start", "load", "resample", "validate", "ready" or
                    \* "failed"
  local_positions,  \* flight_data.local_positions
  trajectory,       \* elapsed_us, x, z of every recorded sample
  output,           \* the resampled trajectory
  upper,            \* first sample that is not before the target time
  checked           \* samples of output that validate has accepted

context == <<program, recording, shown>>
data == <<local_positions, trajectory, output, upper, checked>>
vars == <<context, exit_status, phase, data>>

-----------------------------------------------------------------------------
(* replay_trajectory_from_flight_data *)

Minus(a, b) == IF NonFinite \in {a, b} THEN NonFinite ELSE a - b

(* Variant: signed arithmetic. *)
SignedTrajectory(p) ==
  [i \in DOMAIN p |->
     [elapsed_us |-> p[i].timestamp_us - p[1].timestamp_us,
      x |-> Minus(p[i].x, p[1].x), z |-> Minus(p[i].z, p[1].z)]]

(* Unsigned subtraction: an earlier time stamp gives a huge elapsed time. *)
RelativeTrajectory(p) ==
  [i \in DOMAIN p |->
     [elapsed_us |-> (p[i].timestamp_us - p[1].timestamp_us) % WordSize,
      x |-> Minus(p[i].x, p[1].x), z |-> Minus(p[i].z, p[1].z)]]

-----------------------------------------------------------------------------
(* replay_trajectory_resample *)

(* Variant: one sample past the end of the recording. *)
OutputCountTooLong(t) == t[Len(t)].elapsed_us \div Interval + 2

OutputCount(t) == t[Len(t)].elapsed_us \div Interval + 1

(* target_us of the iteration that is under way *)
Target == Len(output) * Interval

Searching ==
  upper <= Len(trajectory) /\ trajectory[upper].elapsed_us < Target

Exact == trajectory[upper].elapsed_us = Target

(* a + t * (b - a) with t = n / d; the float is rounded, here downwards. *)
Between(a, b, n, d) ==
  IF NonFinite \in {a, b} THEN NonFinite ELSE a + (n * (b - a)) \div d

(* Variant: the samples are taken to be one interval apart. *)
InterpolatedOverInterval(target, a, b) ==
  LET n == target - a.elapsed_us
  IN  [elapsed_us |-> target,
       x |-> Between(a.x, b.x, n, Interval),
       z |-> Between(a.z, b.z, n, Interval)]

Interpolated(target, a, b) ==
  LET n == target - a.elapsed_us
      d == b.elapsed_us - a.elapsed_us
  IN  [elapsed_us |-> target,
       x |-> Between(a.x, b.x, n, d), z |-> Between(a.z, b.z, n, d)]

-----------------------------------------------------------------------------
(* replay_trajectory_validate *)

IsFinite(p) == p.x # NonFinite /\ p.z # NonFinite

Abs(n) == IF n < 0 THEN -n ELSE n

InsideLimits(p) ==
  /\ -p.z <= MaximumAltitude
  /\ Abs(p.x) <= MaximumHorizontalDistance

(* distance / dt > speed, both sides squared *)
SlowEnough(p, q) ==
  (q.x - p.x) * (q.x - p.x) + (q.z - p.z) * (q.z - p.z)
    <= (Speed * (q.elapsed_us - p.elapsed_us))
         * (Speed * (q.elapsed_us - p.elapsed_us))

(* Variant: the two limits are swapped. *)
SwappedDurationLimit ==
  IF program = "tool" THEN TotalDuration ELSE PreviewDuration

DurationLimit == IF program = "tool" THEN PreviewDuration ELSE TotalDuration

ShortEnough == output[Len(output)].elapsed_us < DurationLimit

(* Variant: no check of the speed. *)
AcceptableAtAnySpeed(s, i) ==
  /\ IsFinite(s[i])
  /\ InsideLimits(s[i])
  /\ i > 1 => s[i].elapsed_us > s[i - 1].elapsed_us

(* Sample i of the trajectory s passes every check of the loop. *)
Acceptable(s, i) ==
  /\ IsFinite(s[i])
  /\ InsideLimits(s[i])
  /\ i > 1 =>
       /\ s[i].elapsed_us > s[i - 1].elapsed_us
       /\ SlowEnough(s[i - 1], s[i])

-----------------------------------------------------------------------------
(* The pipeline *)

Init ==
  /\ program \in {"tool", "controller"}
  /\ recording \in Recordings
  /\ exit_status = 0
  /\ shown = <<>>
  /\ phase = "start"
  /\ local_positions = <<>>
  /\ trajectory = <<>>
  /\ output = <<>>
  /\ upper = 1
  /\ checked = 0

(* A step of the pipeline fails: everything is freed. *)
Reject ==
  /\ phase' = "failed"
  /\ trajectory' = <<>>
  /\ output' = <<>>
  /\ UNCHANGED <<context, exit_status, local_positions, upper, checked>>

(* tlog_load_flight_data *)
LoadLog ==
  /\ phase = "start"
  /\ phase' = "load"
  /\ local_positions' = recording
  /\ UNCHANGED <<context, exit_status, trajectory, output, upper, checked>>

(* The log cannot be opened, is torn or cannot be read.  The tool will exit *)
(* with 1, but goes on with the positions before.                          *)
LoadFails ==
  /\ phase = "start"
  /\ \/ Reject
     \/ /\ program = "tool"
        /\ phase' = "load"
        /\ exit_status' = 1
        /\ \E n \in 0..Len(recording) : local_positions' = SubSeq(recording, 1, n)
        /\ UNCHANGED <<context, trajectory, output, upper, checked>>

(* replay_trajectory_from_flight_data *)
FromFlightData ==
  /\ phase = "load"
  /\ local_positions # <<>>
  /\ phase' = "resample"
  /\ trajectory' = RelativeTrajectory(local_positions)
  /\ UNCHANGED <<context, exit_status, local_positions, output, upper, checked>>

(* The log holds no position, or an allocation fails. *)
PreparationFails ==
  /\ \/ phase = "load"
     \/ phase = "resample" /\ output = <<>> /\ upper = 1
  /\ Reject

(* upper++ of the inner loop *)
Advance ==
  /\ phase = "resample"
  /\ Len(output) < OutputCount(trajectory)
  /\ Searching
  /\ upper' = upper + 1
  /\ UNCHANGED <<context, exit_status, phase, local_positions, trajectory, output, checked>>

(* The rest of the outer loop's body *)
Sample ==
  /\ phase = "resample"
  /\ Len(output) < OutputCount(trajectory)
  /\ ~Searching
  /\ output' = Append(output,
       IF Exact THEN trajectory[upper]
       ELSE Interpolated(Target, trajectory[upper - 1], trajectory[upper]))
  /\ UNCHANGED <<context, exit_status, phase, local_positions, trajectory, upper, checked>>

(* The resampled trajectory is complete; its duration is checked first. *)
StartValidate ==
  /\ phase = "resample"
  /\ Len(output) = OutputCount(trajectory)
  /\ IF ShortEnough
     THEN /\ phase' = "validate"
          /\ UNCHANGED <<context, exit_status, data>>
     ELSE Reject

Validate ==
  /\ phase = "validate"
  /\ checked < Len(output)
  /\ IF Acceptable(output, checked + 1)
     THEN /\ checked' = checked + 1
          /\ UNCHANGED <<context, exit_status, phase, local_positions,
                         trajectory, output, upper>>
     ELSE Reject

(* The controller hands the resampled trajectory over, unless the log       *)
(* cannot be closed; the tool prints it, and then closes the log.          *)
Finish ==
  /\ phase = "validate"
  /\ checked = Len(output)
  /\ \/ /\ phase' = "ready"
        /\ exit_status' \in IF program = "tool" THEN {exit_status, 1}
                                               ELSE {exit_status}
        /\ UNCHANGED <<context, data>>
     \/ program = "controller" /\ Reject

(* The operator has seen the trajectory, and starts the controller with the *)
(* same log.                                                               *)
FlyPreviewed ==
  /\ program = "tool" /\ phase = "ready" /\ exit_status = 0
  /\ program' = "controller"
  /\ shown' = output
  /\ phase' = "start"
  /\ local_positions' = <<>>
  /\ trajectory' = <<>>
  /\ output' = <<>>
  /\ upper' = 1
  /\ checked' = 0
  /\ UNCHANGED <<recording, exit_status>>

Done ==
  /\ phase \in {"ready", "failed"}
  /\ UNCHANGED vars

Next ==
  \/ LoadLog
  \/ LoadFails
  \/ FromFlightData
  \/ PreparationFails
  \/ Advance
  \/ Sample
  \/ StartValidate
  \/ Validate
  \/ Finish
  \/ FlyPreviewed
  \/ Done

Spec == Init /\ [][Next]_vars

-----------------------------------------------------------------------------
(* Correctness *)

Recorded == [elapsed_us : 0..(WordSize - 1), x : Coordinates, z : Coordinates]
Resampled == [elapsed_us : Nat, x : Coordinates, z : Coordinates]

(* Every variable stays in its range; upper passes the last sample by one   *)
(* at most.                                                                *)
TypeOK ==
  /\ phase \in {"start", "load", "resample", "validate", "ready", "failed"}
  /\ recording \in Seq(Positions)
  /\ shown \in Seq(Resampled)
  /\ exit_status \in {0, 1}
  /\ local_positions \in Seq(Positions)
  /\ trajectory \in Seq(Recorded)
  /\ output \in Seq(Resampled)
  /\ upper \in Nat \ {0}
  /\ checked \in Nat /\ (phase \in {"validate", "ready"} => checked <= Len(output))

(* When the inner loop ends, positions[upper] exists, and unless it hits    *)
(* the target time positions[upper - 1] exists too and lies before it: no  *)
(* read out of bounds and no division by zero, although nothing checks     *)
(* that the recorded time stamps ascend (replay.c 88-106).                 *)
BracketExists ==
  phase = "resample" /\ Len(output) < OutputCount(trajectory) /\ ~Searching =>
    /\ upper <= Len(trajectory)
    /\ ~Exact =>
         /\ upper > 1
         /\ trajectory[upper - 1].elapsed_us < Target
         /\ Target < trajectory[upper].elapsed_us

(* v lies between a and b, or one of them is not finite. *)
InHull(v, a, b) ==
  IF NonFinite \in {a, b} THEN v = NonFinite
  ELSE (a <= v /\ v <= b) \/ (b <= v /\ v <= a)

(* Output p is a recorded sample or lies between two neighbours around it. *)
Supported(p) ==
  \/ \E k \in DOMAIN trajectory : p = trajectory[k]
  \/ \E k \in 2..Len(trajectory) :
       /\ trajectory[k - 1].elapsed_us < p.elapsed_us
       /\ p.elapsed_us < trajectory[k].elapsed_us
       /\ InHull(p.x, trajectory[k - 1].x, trajectory[k].x)
       /\ InHull(p.z, trajectory[k - 1].z, trajectory[k].z)

(* Interpolation never leaves the recorded path: every position that can be *)
(* flown was recorded or lies between two consecutive recorded ones, at    *)
(* the time on the 10 Hz grid that its index stands for (replay.c 82-113). *)
OnRecordedPath ==
  phase # "failed" =>
    \A i \in DOMAIN output :
      output[i].elapsed_us = (i - 1) * Interval /\ Supported(output[i])

(* A trajectory shown or handed over starts where the vehicle is, and       *)
(* between any two of its samples, not only consecutive ones, the vehicle  *)
(* is never asked to be faster than the limit (control_replay.c 56-85).    *)
ReadyIsFlyable ==
  phase = "ready" =>
    /\ output # <<>>
    /\ output[1].x = 0 /\ output[1].z = 0
    /\ (Len(output) - 1) * Interval < DurationLimit
    /\ \A i \in DOMAIN output : IsFinite(output[i]) /\ InsideLimits(output[i])
    /\ \A i, j \in DOMAIN output : i < j => SlowEnough(output[i], output[j])

(* The tool tells the truth: if it has exited with 0, the controller         *)
(* computes what was shown from the same log, and none of its checks        *)
(* refuses it, although the limits are written down twice and the tool      *)
(* shows what it can of a log that does not load (replay/main.c 37-100,     *)
(* control_replay.c 38-66).                                                *)
PreviewHolds ==
  shown # <<>> =>
    /\ Len(output) <= Len(shown) /\ output = SubSeq(shown, 1, Len(output))
    /\ phase = "resample" /\ Len(output) = OutputCount(trajectory) =>
         output = shown /\ ShortEnough
    /\ phase = "validate" => \A i \in DOMAIN output : Acceptable(output, i)
    /\ phase = "ready" => output = shown

-----------------------------------------------------------------------------
(* Why the search stays in bounds: the first sample lies at 0, every sample *)
(* that was passed lies before the target, and no target lies after the    *)
(* last sample.  Nothing is assumed of the samples in between.             *)
SearchInv ==
  /\ phase \in {"start", "load"} =>
       trajectory = <<>> /\ output = <<>> /\ upper = 1
  /\ phase \in {"start", "load", "resample"} => checked = 0
  /\ phase = "resample" =>
       /\ trajectory # <<>>
       /\ trajectory[1].elapsed_us = 0
       /\ upper <= Len(trajectory) + 1
       /\ upper > 1 => trajectory[upper - 1].elapsed_us < Target
       /\ Len(output) < OutputCount(trajectory) =>
            Target <= trajectory[Len(trajectory)].elapsed_us

IndInv == TypeOK /\ SearchInv /\ OnRecordedPath

-----------------------------------------------------------------------------
(* Why the preview holds: sample p of the output, for the i-th target time, *)
(* is made at the first recorded sample that is not before its target,     *)
(* wherever the search for it began, so it depends on the recording only.  *)
Resamples(t, i, p) ==
  LET target == (i - 1) * Interval IN
  \E u \in DOMAIN t :
    /\ \A j \in 1..(u - 1) : t[j].elapsed_us < target
    /\ t[u].elapsed_us >= target
    /\ p = IF t[u].elapsed_us = target THEN t[u]
           ELSE Interpolated(target, t[u - 1], t[u])

Prepared(s, t) == \A i \in DOMAIN s : Resamples(t, i, s[i])

PipelineInv ==
  /\ phase \in {"load", "resample", "validate", "ready"} =>
       local_positions = recording \/ (program = "tool" /\ exit_status = 1)
  /\ phase \in {"resample", "validate", "ready"} =>
       /\ local_positions # <<>>
       /\ trajectory = RelativeTrajectory(local_positions)
       /\ Prepared(output, trajectory)
  /\ phase = "resample" =>
       /\ Len(output) <= OutputCount(trajectory)
       /\ \A j \in 1..(upper - 1) : trajectory[j].elapsed_us < Target
  /\ phase \in {"validate", "ready"} =>
       /\ Len(output) = OutputCount(trajectory) /\ ShortEnough
       /\ \A i \in 1..checked : Acceptable(output, i)
  /\ phase = "ready" => checked = Len(output)
  /\ phase = "failed" => output = <<>>

(* What the operator has seen is all of the recording. *)
ShownInv ==
  shown # <<>> =>
    LET t == RelativeTrajectory(recording) IN
    /\ program = "controller" /\ recording # <<>>
    /\ Prepared(shown, t) /\ Len(shown) = OutputCount(t)
    /\ shown[Len(shown)].elapsed_us < PreviewDuration
    /\ \A i \in DOMAIN shown : Acceptable(shown, i)

FlyInv == IndInv /\ PipelineInv /\ ShownInv
=============================================================================
