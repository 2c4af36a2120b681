------------------------------ MODULE ControlLoop ------------------------------
(***************************************************************************)
(* The event loop of the flight controller client, control/main.c.         *)
(*                                                                         *)
(* One turn of the while loop (poll, read the clock, receive, run the      *)
(* handler of the current state, move the setpoint deadline) is one step.  *)
(* Between two turns the process sits in poll() and time passes (Tick).    *)
(*                                                                         *)
(* Time is kept as ages: where the program stores a time stamp t of the    *)
(* monotonic clock and compares now - t with a limit, the model keeps      *)
(* now - t.  A turn reads the clock several times; the model takes these   *)
(* readings to be equal, and a turn that takes long shows as a later next  *)
(* turn, at most MaxLate time units after poll() should have returned.     *)
(***************************************************************************)
EXTENDS Px4Messages

CONSTANTS
  SetpointInterval,     \* 100 ms: distance of two setpoint deadlines
  RetryInterval,        \* command_retry_interval_ms
  HeartbeatTimeout,     \* heartbeat_timeout_ms
  LocalPositionPoll,    \* the poll timeout of CONTROL_WAIT_LOCAL_POSITION
  DisarmTimeout,        \* disarm_wait_timeout_ms
  MaxLate,              \* how late the scheduler and the handler make a turn
  MaxAttempts,          \* command_max_attempts
  PrestreamCount,       \* 20 setpoints before Offboard is requested
  Trajectory,           \* the prepared replay: positions relative to its start
  FiniteLimit,          \* a coordinate beyond it stands for inf or NaN
  SendOutcomes          \* what sending may report: {TRUE} on a perfect link

ASSUME TimingAssumption ==
  /\ SetpointInterval \in Nat \ {0}
  /\ RetryInterval \in Nat \ {0}
  /\ HeartbeatTimeout \in Nat \ {0}
  /\ LocalPositionPoll \in Nat \ {0}
  /\ DisarmTimeout \in Nat \ {0}
  /\ MaxLate \in Nat

ASSUME CountAssumption ==
  /\ MaxAttempts \in Nat \ {0}
  /\ PrestreamCount \in Nat \ {0}

(* prepare_replay_trajectory gives at least one sample or fails. *)
ASSUME TrajectoryAssumption ==
  /\ Trajectory \in Seq(Int)
  /\ Len(Trajectory) > 0
  /\ FiniteLimit \in Nat

ASSUME SendAssumption == SendOutcomes \subseteq BOOLEAN

VARIABLES
  state,                    \* the CONTROL_ constant, without its prefix
  target,                   \* target_system, target_component
  resample,                 \* resample.positions, moved in place by the origin
  setpoint_count,
  replay_index,
  last_commanded_position,  \* NoPosition: has_last_commanded_position is false
  attempts,                 \* offboard_attempts, arm_attempts, land_attempts
  heartbeat_age,            \* now - last_heartbeat_ms
  send_age,                 \* now - <awaited command>_last_send_ms
  disarm_age,               \* now - disarm_wait_start_ms
  until_setpoint,           \* next_setpoint_ms - now, 0 or less when due
  poll_age,                 \* time spent in the current poll()
  outbox,                   \* what the last turn transmitted
  (* History of the run, read by no action. *)
  origin,                   \* the position the trajectory was moved to
  commanded,                \* the last setpoint transmitted
  commanded_age,            \* now - the time of that transmission
  heard_age,                \* now - the time a heartbeat was last received
  command_age               \* now - the time a command was last transmitted

clocks == <<heartbeat_age, send_age, disarm_age, until_setpoint, poll_age>>
progress == <<target, resample, setpoint_count, replay_index,
              last_commanded_position, attempts>>
sent == <<outbox, commanded, commanded_age, command_age>>
vars == <<state, progress, clocks, sent, origin, heard_age>>

-----------------------------------------------------------------------------
(* The states, grouped by what the loop does in them. *)

Streaming == {"PRESTREAM_SETPOINT", "WAIT_OFFBOARD_ACK", "WAIT_ARM_ACK",
              "REPLAY_TRAJECTORY", "HOLD_POSITION"}
Landing == {"COMMAND_LAND", "WAIT_LAND_ACK", "WAIT_DISARMED"}
Active == Streaming \cup Landing          \* setpoint deadlines are kept
Terminal == {"COMPLETE", "ERROR"}
States == {"WAIT_HEARTBEAT", "WAIT_LOCAL_POSITION"} \cup Active \cup Terminal

AwaitingAck == {"WAIT_OFFBOARD_ACK", "WAIT_ARM_ACK", "WAIT_LAND_ACK"}
Samples == 1..Len(Trajectory)

(* The first byte that read() of standard input finds: "none" when standard *)
(* input is not readable, "end" at its end (read returns 0).               *)
Inputs == {"none", "l", "other", "end"}

-----------------------------------------------------------------------------
(* Positions *)

IsFinite(p) == p \in -FiniteLimit..FiniteLimit

(* control_replay_apply_origin: all samples can be moved, or none is. *)
CanApplyOrigin(s, o) ==
  /\ IsFinite(o)
  /\ \A i \in DOMAIN s : IsFinite(s[i] + o)

ApplyOrigin(s, o) == [i \in DOMAIN s |-> s[i] + o]

(* Variant: the first sample copied before the origin is known. *)
copied_initial_position == Trajectory[1]

(* initial_position points into the samples, it is not a copy of the first. *)
initial_position == resample[1]

-----------------------------------------------------------------------------
(* The parts every turn has *)

SetpointDue == state \in Active /\ until_setpoint <= 0

(* Variant: only the heartbeat that found the vehicle is timed. *)
FirstHeartbeatAge(rx) ==
  IF state = "WAIT_HEARTBEAT" /\ rx.heartbeat # NoHeartbeat
  THEN 0 ELSE heartbeat_age

(* Variant: any message of the batch counts as a sign of life. *)
AnyMessageAge(rx) ==
  IF rx = [heartbeat |-> NoHeartbeat, position |-> NoPosition, ack |-> NoAck]
  THEN heartbeat_age ELSE 0

HeartbeatAge(rx) == IF rx.heartbeat = NoHeartbeat THEN heartbeat_age ELSE 0

Hear(rx) ==
  /\ heartbeat_age' = HeartbeatAge(rx)
  /\ heard_age' = IF rx.heartbeat = NoHeartbeat THEN heard_age ELSE 0

ConnectionLost(rx) ==
  /\ state \notin {"WAIT_HEARTBEAT"} \cup Terminal
  /\ HeartbeatAge(rx) >= HeartbeatTimeout

(* Variant: the deadline moves once, however late the turn is. *)
NextDeadlineOnce(u) == {u + SetpointInterval}

(* do next_setpoint_ms += 100 while (next_setpoint_ms <= now_ms) *)
NextDeadline(u) == {v \in 1..SetpointInterval : (v - u) % SetpointInterval = 0}

MoveDeadline ==
  IF SetpointDue THEN until_setpoint' \in NextDeadline(until_setpoint)
                 ELSE UNCHANGED until_setpoint

(* A turn in a state with deadlines that reaches its handler. *)
Turn(s, rx) ==
  /\ state = s
  /\ ~ConnectionLost(rx)
  /\ Hear(rx)
  /\ poll_age' = 0
  /\ MoveDeadline

(* send_position_setpoint succeeds: the encoder refuses a position that is *)
(* not finite, and the transport may fail.                                 *)
CanSend(p, ok) == ok /\ IsFinite(p)

(* The turn transmits setpoint p (or NoPosition) and command c (or "none"). *)
Transmit(p, c) ==
  /\ outbox' = [setpoint |-> p, command |-> c]
  /\ commanded' = IF p = NoPosition THEN commanded ELSE p
  /\ commanded_age' = IF p = NoPosition THEN commanded_age ELSE 0
  /\ command_age' = IF c = "none" THEN command_age ELSE 0

(* The turn ends in CONTROL_ERROR having transmitted setpoint p at most. *)
Fail(p) ==
  /\ state' = "ERROR"
  /\ Transmit(p, "none")
  /\ UNCHANGED <<progress, send_age, disarm_age, origin>>

(* The turn transmits setpoint p and leaves everything else alone. *)
Stay(p) ==
  /\ Transmit(p, "none")
  /\ UNCHANGED <<state, progress, send_age, disarm_age, origin>>

(* Variant: the retry timer still runs from the previous command. *)
StartCommandOldTimer(c, p, next) ==
  /\ Transmit(p, c)
  /\ attempts' = [attempts EXCEPT ![c] = 1]
  /\ UNCHANGED send_age
  /\ state' = next

(* First transmission of command c, next to setpoint p, and wait for its ack. *)
StartCommand(c, p, next) ==
  /\ Transmit(p, c)
  /\ attempts' = [attempts EXCEPT ![c] = 1]
  /\ send_age' = 0
  /\ state' = next

RetryDue == send_age >= RetryInterval

(* Variant: one attempt too many. *)
AttemptsExceeded(c) == attempts[c] > MaxAttempts

AttemptsUsedUp(c) == attempts[c] >= MaxAttempts

(* Variant: a repeated transmission is not counted. *)
SameAttempt(c) == attempts

NextAttempt(c) == [attempts EXCEPT ![c] = @ + 1]

(* The acknowledgement of c did not come in time: give up, or send c again. *)
RetryCommand(c, p) ==
  \/ AttemptsUsedUp(c) /\ Fail(p)
  \/ /\ ~AttemptsUsedUp(c)
     /\ \E ok \in SendOutcomes :
          IF ok
          THEN /\ Transmit(p, c)
               /\ attempts' = NextAttempt(c)
               /\ send_age' = 0
               /\ UNCHANGED <<state, target, resample, setpoint_count,
                    replay_index, last_commanded_position, disarm_age, origin>>
          ELSE Fail(p)

-----------------------------------------------------------------------------
(* The handlers, one action per state *)

Init ==
  /\ state = "WAIT_HEARTBEAT"
  /\ target = NoTarget
  /\ resample = Trajectory
  /\ setpoint_count = 0
  /\ replay_index = 0
  /\ last_commanded_position = NoPosition
  /\ attempts = [c \in Commands |-> 0]
  /\ heartbeat_age = 0
  /\ send_age = 0
  /\ disarm_age = 0
  /\ until_setpoint = 0       \* set again on entry to PRESTREAM_SETPOINT
  /\ poll_age = 0
  /\ outbox = [setpoint |-> NoPosition, command |-> "none"]
  /\ origin = NoPosition
  /\ commanded = NoPosition
  /\ commanded_age = 0
  /\ heard_age = 0
  /\ command_age = 0

PeerFound(rx) == rx.heartbeat.from

(* CONTROL_WAIT_HEARTBEAT: rx is the single datagram that is read; its last *)
(* heartbeat fixes the address every later frame is sent to.               *)
WaitHeartbeat(rx) ==
  /\ Turn("WAIT_HEARTBEAT", rx)
  /\ rx.heartbeat # NoHeartbeat
  /\ state' = "WAIT_LOCAL_POSITION"
  /\ target' = PeerFound(rx)
  /\ Transmit(NoPosition, "none")
  /\ UNCHANGED <<resample, setpoint_count, replay_index,
       last_commanded_position, attempts, send_age, disarm_age, origin>>

(* CONTROL_WAIT_LOCAL_POSITION with a LOCAL_POSITION_NED in the batch *)
WaitLocalPosition(rx) ==
  /\ state = "WAIT_LOCAL_POSITION"
  /\ ~ConnectionLost(rx)
  /\ Hear(rx)
  /\ poll_age' = 0
  /\ rx.position # NoPosition
  /\ until_setpoint' = 0
  /\ IF CanApplyOrigin(resample, rx.position)
     THEN /\ resample' = ApplyOrigin(resample, rx.position)
          /\ origin' = rx.position
          /\ state' = "PRESTREAM_SETPOINT"
          /\ Transmit(NoPosition, "none")
          /\ UNCHANGED <<target, setpoint_count, replay_index,
               last_commanded_position, attempts, send_age, disarm_age>>
     ELSE Fail(NoPosition)

(* A turn that finds nothing to do: no heartbeat, no position, no deadline. *)
Idle(rx) ==
  /\ \/ Turn("WAIT_HEARTBEAT", rx) /\ rx.heartbeat = NoHeartbeat
     \/ Turn("WAIT_LOCAL_POSITION", rx) /\ rx.position = NoPosition
     \/ \E s \in {"PRESTREAM_SETPOINT", "REPLAY_TRAJECTORY", "HOLD_POSITION"} :
          Turn(s, rx) /\ ~SetpointDue
  /\ Stay(NoPosition)

PrestreamComplete == setpoint_count + 1 >= PrestreamCount

(* CONTROL_PRESTREAM_SETPOINT at its deadline; the last prestreamed        *)
(* setpoint is followed by the Offboard request in the same turn.          *)
PrestreamSetpoint(rx) ==
  /\ Turn("PRESTREAM_SETPOINT", rx)
  /\ SetpointDue
  /\ \E setpoint_ok, command_ok \in SendOutcomes :
       IF ~CanSend(initial_position, setpoint_ok)
       THEN Fail(NoPosition)
       ELSE /\ setpoint_count' = setpoint_count + 1
            /\ UNCHANGED <<target, resample, replay_index,
                 last_commanded_position, disarm_age, origin>>
            /\ \/ /\ ~PrestreamComplete
                  /\ Transmit(initial_position, "none")
                  /\ UNCHANGED <<state, attempts, send_age>>
               \/ /\ PrestreamComplete /\ command_ok
                  /\ StartCommand("offboard", initial_position,
                                  "WAIT_OFFBOARD_ACK")
               \/ /\ PrestreamComplete /\ ~command_ok
                  /\ Transmit(initial_position, "none")
                  /\ state' = "ERROR"
                  /\ UNCHANGED <<attempts, send_age>>

(* Variant: the command field of the acknowledgement is not looked at. *)
AnyAcknowledges(rx, c) == rx.ack # NoAck

Acknowledges(rx, c) == rx.ack.command = c

(* Variant: an acknowledgement of another command defers the retry. *)
AwaitAnyAck(c, p, rx, OnAccept) ==
  \/ Acknowledges(rx, c) /\ rx.ack.accepted /\ OnAccept
  \/ Acknowledges(rx, c) /\ ~rx.ack.accepted /\ Fail(p)
  \/ rx.ack = NoAck /\ RetryDue /\ RetryCommand(c, p)
  \/ rx.ack # NoAck /\ ~Acknowledges(rx, c) /\ Stay(p)
  \/ rx.ack = NoAck /\ ~RetryDue /\ Stay(p)

(* The part the three acknowledgement states share: rx accepts c, refuses   *)
(* c, or says nothing of c; p is the setpoint this turn has transmitted.   *)
AwaitAck(c, p, rx, OnAccept) ==
  \/ Acknowledges(rx, c) /\ rx.ack.accepted /\ OnAccept
  \/ Acknowledges(rx, c) /\ ~rx.ack.accepted /\ Fail(p)
  \/ ~Acknowledges(rx, c) /\ RetryDue /\ RetryCommand(c, p)
  \/ ~Acknowledges(rx, c) /\ ~RetryDue /\ Stay(p)

(* Variant: no setpoints while an acknowledgement is awaited. *)
NoInitialSetpoint == NoPosition

(* The setpoint both startup states keep sending at the deadline. *)
InitialSetpoint == IF SetpointDue THEN initial_position ELSE NoPosition

(* The Offboard request was accepted: request arming in the same turn. *)
RequestArm ==
  \E command_ok \in SendOutcomes :
    IF command_ok
    THEN /\ StartCommand("arm", InitialSetpoint, "WAIT_ARM_ACK")
         /\ UNCHANGED <<target, resample, setpoint_count, replay_index,
              last_commanded_position, disarm_age, origin>>
    ELSE Fail(InitialSetpoint)

WaitOffboardAck(rx) ==
  /\ Turn("WAIT_OFFBOARD_ACK", rx)
  /\ \E setpoint_ok \in SendOutcomes :
       IF SetpointDue /\ ~CanSend(initial_position, setpoint_ok)
       THEN Fail(NoPosition)
       ELSE AwaitAck("offboard", InitialSetpoint, rx, RequestArm)

StartReplay ==
  /\ state' = "REPLAY_TRAJECTORY"
  /\ Transmit(InitialSetpoint, "none")
  /\ send_age' = 0              \* no later state reads it
  /\ UNCHANGED <<progress, disarm_age, origin>>

WaitArmAck(rx) ==
  /\ Turn("WAIT_ARM_ACK", rx)
  /\ \E setpoint_ok \in SendOutcomes :
       IF SetpointDue /\ ~CanSend(initial_position, setpoint_ok)
       THEN Fail(NoPosition)
       ELSE AwaitAck("arm", InitialSetpoint, rx, StartReplay)

ReplayComplete == replay_index >= Len(resample)

(* CONTROL_REPLAY_TRAJECTORY at its deadline: the next sample, or, after   *)
(* the last one, the change to HOLD_POSITION in a turn without a setpoint. *)
ReplayTrajectory(rx) ==
  /\ Turn("REPLAY_TRAJECTORY", rx)
  /\ SetpointDue
  /\ IF ReplayComplete
     THEN /\ state' = "HOLD_POSITION"
          /\ Transmit(NoPosition, "none")
          /\ UNCHANGED <<progress, send_age, disarm_age, origin>>
     ELSE LET position == resample[replay_index + 1] IN
          \E setpoint_ok \in SendOutcomes :
            IF ~CanSend(position, setpoint_ok)
            THEN Fail(NoPosition)
            ELSE /\ Transmit(position, "none")
                 /\ last_commanded_position' = position
                 /\ replay_index' = replay_index + 1
                 /\ UNCHANGED <<state, target, resample, setpoint_count,
                      attempts, send_age, disarm_age, origin>>

(* Variant: the vehicle is called back to the start. *)
HeldAtStart == initial_position

HeldPosition == last_commanded_position

(* CONTROL_HOLD_POSITION at its deadline, with input as the first byte that *)
(* read() finds: standard input is read only here.                         *)
HoldOrLand(rx, input) ==
  /\ Turn("HOLD_POSITION", rx)
  /\ SetpointDue
  /\ \/ /\ input = "l"
        /\ state' = "COMMAND_LAND"
        /\ Transmit(NoPosition, "none")
        /\ UNCHANGED <<progress, send_age, disarm_age, origin>>
     \/ /\ input # "l"
        /\ \E setpoint_ok \in SendOutcomes :
             IF /\ last_commanded_position # NoPosition
                /\ CanSend(HeldPosition, setpoint_ok)
             THEN Stay(HeldPosition)
             ELSE Fail(NoPosition)

HoldPosition(rx) == \E input \in Inputs : HoldOrLand(rx, input)

(* CONTROL_COMMAND_LAND: whatever woke the turn, send Land. *)
CommandLand(rx) ==
  /\ Turn("COMMAND_LAND", rx)
  /\ \E command_ok \in SendOutcomes :
       IF command_ok
       THEN /\ StartCommand("land", NoPosition, "WAIT_LAND_ACK")
            /\ UNCHANGED <<target, resample, setpoint_count, replay_index,
                 last_commanded_position, disarm_age, origin>>
       ELSE Fail(NoPosition)

AwaitDisarm ==
  /\ state' = "WAIT_DISARMED"
  /\ disarm_age' = 0
  /\ send_age' = 0              \* no later state reads it
  /\ Transmit(NoPosition, "none")
  /\ UNCHANGED <<progress, origin>>

WaitLandAck(rx) ==
  /\ Turn("WAIT_LAND_ACK", rx)
  /\ AwaitAck("land", NoPosition, rx, AwaitDisarm)

(* Variant: the zeroed structure of a turn without a heartbeat is read. *)
ZeroReportsDisarmed(rx) == ~rx.heartbeat.armed

ReportsDisarmed(rx) == rx.heartbeat # NoHeartbeat /\ ~rx.heartbeat.armed

DisarmTimedOut(rx) == ~ReportsDisarmed(rx) /\ disarm_age >= DisarmTimeout

WaitDisarmed(rx) ==
  /\ Turn("WAIT_DISARMED", rx)
  /\ \/ /\ ReportsDisarmed(rx)
        /\ state' = "COMPLETE"
        /\ Transmit(NoPosition, "none")
        /\ UNCHANGED <<progress, send_age, disarm_age, origin>>
     \/ DisarmTimedOut(rx) /\ Fail(NoPosition)
     \/ ~ReportsDisarmed(rx) /\ ~DisarmTimedOut(rx) /\ Stay(NoPosition)

-----------------------------------------------------------------------------
(* Ways out of the loop before the handler runs *)

(* now_ms - last_heartbeat_ms >= heartbeat_timeout_ms *)
LoseConnection(rx) ==
  /\ ConnectionLost(rx)
  /\ Fail(NoPosition)
  /\ UNCHANGED <<heartbeat_age, heard_age, until_setpoint, poll_age>>

(* poll() fails, reports an error or a hang-up of the transport or an      *)
(* invalid standard input; or receiving from the transport fails.          *)
IOFailure ==
  /\ state \notin Terminal
  /\ Fail(NoPosition)
  /\ UNCHANGED <<heartbeat_age, heard_age, until_setpoint, poll_age>>

(* The loop has ended. *)
Stopped == state \in Terminal /\ UNCHANGED vars

-----------------------------------------------------------------------------
(* Time *)

(* poll() has waited for its whole timeout; it has none in WAIT_HEARTBEAT. *)
PollTimedOut ==
  \/ state = "WAIT_LOCAL_POSITION" /\ poll_age >= LocalPositionPoll
  \/ SetpointDue

(* A turn is at most MaxLate late. *)
MayWait ==
  /\ state = "WAIT_LOCAL_POSITION" => poll_age < LocalPositionPoll + MaxLate
  /\ state \in Active => until_setpoint > -MaxLate

(* Ages that no handler of the current state reads stand still. *)
Older(age, readers) == IF state \in readers THEN age + 1 ELSE age

(* The age of the last setpoint counts, after the stream has ended, until   *)
(* it is too old for the promise of StreamUntilLandAccepted.               *)
StreamLimit == 2 * (SetpointInterval + MaxLate)
Streamed ==
  Streaming \cup {s \in {"COMMAND_LAND", "WAIT_LAND_ACK"} :
                   commanded_age <= StreamLimit}

Tick ==
  /\ state \in Active \cup {"WAIT_LOCAL_POSITION"}
  /\ MayWait
  /\ heartbeat_age' = heartbeat_age + 1
  /\ send_age' = Older(send_age, AwaitingAck)
  /\ disarm_age' = Older(disarm_age, {"WAIT_DISARMED"})
  /\ until_setpoint' = IF state \in Active THEN until_setpoint - 1
                                           ELSE until_setpoint
  /\ poll_age' = poll_age + 1
  /\ commanded_age' = Older(commanded_age, Streamed)
  /\ heard_age' = heard_age + 1
  /\ command_age' = Older(command_age, AwaitingAck)
  /\ outbox' = [setpoint |-> NoPosition, command |-> "none"]
  /\ UNCHANGED <<state, progress, origin, commanded>>

-----------------------------------------------------------------------------
(* One turn of the loop with the messages rx *)
Iterate(rx) ==
  \/ Idle(rx)
  \/ WaitHeartbeat(rx)
  \/ WaitLocalPosition(rx)
  \/ PrestreamSetpoint(rx)
  \/ WaitOffboardAck(rx)
  \/ WaitArmAck(rx)
  \/ ReplayTrajectory(rx)
  \/ HoldPosition(rx)
  \/ CommandLand(rx)
  \/ WaitLandAck(rx)
  \/ WaitDisarmed(rx)
  \/ LoseConnection(rx)

Next ==
  \/ \E rx \in Received : Iterate(rx)
  \/ IOFailure
  \/ Tick
  \/ Stopped

(* Weak fairness: the clock advances, and poll() returns once its timeout  *)
(* has passed.  Nothing is promised about messages, acknowledgements or    *)
(* the operator.                                                           *)
Wake == PollTimedOut /\ \E rx \in Received : Iterate(rx)

Fairness == WF_vars(Tick) /\ WF_vars(Wake)

Spec == Init /\ [][Next]_vars
FairSpec == Spec /\ Fairness
-----------------------------------------------------------------------------
(* Correctness *)

Positions == Int \cup {NoPosition}

(* Every variable stays in its range: no counter of attempts passes        *)
(* command_max_attempts and no deadline is kept further than one interval  *)
(* ahead or more than the permitted lateness behind.                       *)
TypeOK ==
  /\ state \in States
  /\ target \in Components \cup {NoTarget}
  /\ resample \in Seq(Int) /\ Len(resample) = Len(Trajectory)
  /\ setpoint_count \in 0..PrestreamCount
  /\ replay_index \in 0..Len(Trajectory)
  /\ last_commanded_position \in Positions
  /\ attempts \in [Commands -> 0..MaxAttempts]
  /\ heartbeat_age \in Nat /\ send_age \in Nat /\ disarm_age \in Nat
  /\ poll_age \in Nat
  /\ heard_age \in Nat /\ command_age \in Nat /\ commanded_age \in Nat
  /\ until_setpoint \in -MaxLate..SetpointInterval
  /\ outbox \in [setpoint : Positions, command : Commands \cup {"none"}]
  /\ origin \in Positions
  /\ commanded \in Positions

(* A link that goes silent is noticed: the loop is never in a state that    *)
(* commands the vehicle when no heartbeat has come for HeartbeatTimeout     *)
(* plus the longest poll() and the lateness of one turn, even if no other   *)
(* message wakes it (main.c 174-182 and 280-288).                          *)
ConnectionLossDetected ==
  /\ state = "WAIT_LOCAL_POSITION" =>
       heard_age < HeartbeatTimeout + LocalPositionPoll + MaxLate
  /\ state \in Active =>
       heard_age < HeartbeatTimeout + SetpointInterval + MaxLate

(* A lost command or acknowledgement is noticed within one retry interval   *)
(* and one setpoint interval, whatever other traffic keeps arriving: the    *)
(* retry check runs in every turn (main.c 474, 532, 680).                  *)
AckWaitBounded ==
  state \in AwaitingAck =>
    command_age < RetryInterval + SetpointInterval + MaxLate

(* The vehicle never gets the same command twice within a retry interval:   *)
(* every command has its own time stamp (main.c 152-158).                  *)
RetrySpacing ==
  [][\A c \in Commands :
       attempts[c] > 0 /\ attempts'[c] > attempts[c]
         => command_age >= RetryInterval]_vars

(* PX4 leaves Offboard mode when setpoints stop.  From the first setpoint   *)
(* until landing is requested the stream has no gap beyond one interval    *)
(* and the lateness of one turn, except that the change to HOLD_POSITION   *)
(* misses one deadline (main.c 602-607).                                   *)
StreamContinuity ==
  state \in Streaming /\ commanded # NoPosition =>
    IF state = "HOLD_POSITION"
    THEN commanded_age <= 2 * (SetpointInterval + MaxLate)
    ELSE commanded_age <= SetpointInterval + MaxLate

(* A turn that comes several intervals late sends one setpoint, and no      *)
(* burst of the missed ones follows at the same instant (main.c 737-743).  *)
NoBurst ==
  [][outbox'.setpoint # NoPosition
       => commanded = NoPosition \/ commanded_age > 0]_vars

(* A sample of the trajectory, moved to the origin of this run. *)
Placed(i) == Trajectory[i] + origin

(* Every setpoint is finite and a sample of the trajectory moved by the     *)
(* position the vehicle reported, the prestreamed ones included, although   *)
(* initial_position was taken before the samples were moved (main.c 104,    *)
(* 363, control_replay.c 88-120).                                          *)
SetpointsInVehicleFrame ==
  commanded # NoPosition =>
    /\ origin # NoPosition
    /\ \E i \in Samples : commanded = Placed(i)
    /\ IsFinite(commanded)

(* From one setpoint to the next the vehicle is asked to stay or to move to *)
(* the next sample: no sample is skipped, repeated out of order or left     *)
(* for an earlier one across the changes of state.                         *)
NoSetpointJump ==
  [][commanded # NoPosition /\ commanded' # commanded =>
       \E i \in 1..(Len(Trajectory) - 1) :
         commanded = Placed(i) /\ commanded' = Placed(i + 1)]_vars

(* In HOLD_POSITION, and while landing, the whole trajectory was sent and   *)
(* the vehicle was last sent to its final sample.                          *)
HoldsFinalSample ==
  state \in {"HOLD_POSITION", "COMPLETE"} \cup Landing =>
    /\ replay_index = Len(Trajectory)
    /\ commanded = Placed(Len(Trajectory))
    /\ last_commanded_position = commanded

(* The order PX4 requires: enough setpoints, then Offboard, then Arm, then  *)
(* the replay, then Land, and completion only after Land.                  *)
CommandOrder ==
  /\ attempts["offboard"] > 0 => setpoint_count >= PrestreamCount
  /\ attempts["arm"] > 0 => attempts["offboard"] > 0
  /\ replay_index > 0 => attempts["arm"] > 0
  /\ attempts["land"] > 0 => replay_index = Len(Trajectory)
  /\ state = "COMPLETE" => attempts["land"] > 0

(* How far the mission is, in terms of the loop's states *)
Phase ==
  CASE state \in {"WAIT_HEARTBEAT", "WAIT_LOCAL_POSITION"} -> "preparing"
    [] state \in {"PRESTREAM_SETPOINT", "WAIT_OFFBOARD_ACK",
                  "WAIT_ARM_ACK"} -> "startup"
    [] state = "REPLAY_TRAJECTORY" -> "flying"
    [] state = "HOLD_POSITION" -> "holding"
    [] state \in Landing -> "landing"
    [] state = "COMPLETE" -> "done"
    [] state = "ERROR" -> "failed"

(* The commands transmitted at least once *)
Requested == {c \in Commands : attempts[c] > 0}

M == INSTANCE Mission WITH
  phase <- Phase,
  goal <- commanded,
  streamed <- setpoint_count,
  flown <- replay_index,
  requested <- Requested

(* The loop with its timers, retries and messages does what Mission says:   *)
(* every turn is one step of the mission or none.  Retries, late turns and *)
(* held setpoints are invisible there; a sample sent twice or skipped, a   *)
(* command out of order, a setpoint elsewhere or a landing before the last *)
(* sample would not be (main.c 295-735).                                   *)
ImplementsMission == M!Spec

(* The startup handshake and the replay come to an end with the vehicle     *)
(* held at the final sample, or the loop ends in ERROR: lost               *)
(* acknowledgements cannot keep it waiting (main.c 474-499, 532-557).      *)
StartupEnds ==
  state \in Streaming \ {"HOLD_POSITION"} ~> state \in {"HOLD_POSITION", "ERROR"}

(* Once landing is requested the program ends, even if the Land command is  *)
(* never acknowledged or the vehicle reports to be armed for ever.         *)
LandingEnds == state \in Landing ~> state \in Terminal

(* main.c 15-17: "next 10hz deadline arrives -> send the setpoint".  Taken   *)
(* at its word until the vehicle has accepted Land, with the tolerance that *)
(* StreamContinuity grants to HOLD_POSITION.                               *)
StreamUntilLandAccepted ==
  state \in Active /\ commanded # NoPosition => commanded_age <= StreamLimit

-----------------------------------------------------------------------------
(* Why the invariants hold: what each state knows of the clocks, of the     *)
(* samples and of the commands that led to it.                             *)

Startup == {"PRESTREAM_SETPOINT", "WAIT_OFFBOARD_ACK", "WAIT_ARM_ACK"}
Unplaced == {"WAIT_HEARTBEAT", "WAIT_LOCAL_POSITION"}
Replayed == {"HOLD_POSITION", "COMPLETE"} \cup Landing

(* Every turn looks at the heartbeat and at the retry timer, so each of     *)
(* them was in time when the current poll() began; the poll() ends with    *)
(* the setpoint deadline.                                                  *)
ClockInv ==
  /\ heard_age = heartbeat_age
  /\ state \in AwaitingAck =>
       command_age = send_age /\ send_age - poll_age < RetryInterval
  /\ state = "WAIT_LOCAL_POSITION" => poll_age <= LocalPositionPoll + MaxLate
  /\ state \in Active => poll_age + until_setpoint <= SetpointInterval
  /\ state \in Active \cup {"WAIT_LOCAL_POSITION"} =>
       heartbeat_age - poll_age < HeartbeatTimeout

(* The age of the last setpoint and the time to the next deadline add up to *)
(* at least one time unit and at most one interval, after the missed       *)
(* deadline to two.                                                        *)
StreamInv ==
  commanded # NoPosition =>
    /\ state \in Streaming => commanded_age + until_setpoint >= 1
    /\ state \in Streaming \ {"HOLD_POSITION"} =>
         commanded_age + until_setpoint <= SetpointInterval
    /\ state = "HOLD_POSITION" =>
         commanded_age + until_setpoint <= 2 * SetpointInterval + MaxLate

(* The samples are moved once, and the last setpoint is the sample before   *)
(* replay_index.                                                           *)
SampleInv ==
  /\ state \in Unplaced =>
       resample = Trajectory /\ commanded = NoPosition
  /\ state \in Active \cup {"COMPLETE"} =>
       /\ origin \in Int
       /\ \A i \in Samples : resample[i] = Placed(i) /\ IsFinite(resample[i])
  /\ state \in Unplaced \cup Startup =>
       replay_index = 0 /\ last_commanded_position = NoPosition
  /\ state \in Startup => commanded \in {NoPosition, resample[1]}
  /\ state = "REPLAY_TRAJECTORY" /\ replay_index = 0 =>
       commanded \in {NoPosition, resample[1]}
  /\ state = "REPLAY_TRAJECTORY" /\ replay_index > 0 =>
       /\ commanded = resample[replay_index]
       /\ last_commanded_position = commanded
  /\ state \in Replayed =>
       /\ replay_index = Len(Trajectory)
       /\ commanded = resample[Len(Trajectory)]
       /\ last_commanded_position = commanded

(* Which commands each state has behind it *)
AttemptInv ==
  /\ state \in Unplaced => setpoint_count = 0
  /\ state = "PRESTREAM_SETPOINT" => setpoint_count < PrestreamCount
  /\ state \in Unplaced \cup {"PRESTREAM_SETPOINT"} =>
       attempts["offboard"] = 0
  /\ state \in Unplaced \cup {"PRESTREAM_SETPOINT", "WAIT_OFFBOARD_ACK"} =>
       attempts["arm"] = 0
  /\ state \in Unplaced \cup Streaming \cup {"COMMAND_LAND"} =>
       attempts["land"] = 0
  /\ state = "WAIT_OFFBOARD_ACK" => attempts["offboard"] > 0
  /\ state \in {"WAIT_ARM_ACK", "REPLAY_TRAJECTORY"} \cup Replayed =>
       attempts["offboard"] > 0 /\ attempts["arm"] > 0
  /\ state \in {"WAIT_LAND_ACK", "WAIT_DISARMED", "COMPLETE"} =>
       attempts["land"] > 0

IndInv ==
  /\ TypeOK
  /\ ClockInv
  /\ StreamInv
  /\ SampleInv
  /\ SetpointsInVehicleFrame
  /\ AttemptInv
  /\ CommandOrder
=============================================================================
