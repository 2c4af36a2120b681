-------------------------- MODULE ControlLoop_proofs --------------------------
(***************************************************************************)
(* The safety properties of ControlLoop hold for every trajectory, every   *)
(* interval, timeout and limit and every scheduling delay.  The inductive  *)
(* invariant is IndInv; each of its parts has a lemma that says which of   *)
(* the others it needs.                                                    *)
(***************************************************************************)
EXTENDS ControlLoop, TLAPS

(* The deadline always moves to at most one interval ahead. *)
LEMMA NextDeadlineRange ==
  ASSUME NEW u, NEW v \in NextDeadline(u)
  PROVE  v \in 1..SetpointInterval
  BY DEF NextDeadline

(* Moving the samples keeps their number and moves each by the origin. *)
LEMMA ApplyOriginSample ==
  ASSUME NEW o \in Int
  PROVE  /\ ApplyOrigin(Trajectory, o) \in Seq(Int)
         /\ Len(ApplyOrigin(Trajectory, o)) = Len(Trajectory)
         /\ \A i \in Samples : ApplyOrigin(Trajectory, o)[i] = Trajectory[i] + o
  BY TrajectoryAssumption DEF ApplyOrigin, Samples

(* Whatever turn is taken, its messages change the clocks this way. *)
LEMMA TurnClocks ==
  ASSUME TypeOK, NEW rx, NEW s, Turn(s, rx)
  PROVE  /\ until_setpoint' \in -MaxLate..SetpointInterval
         /\ heartbeat_age' \in Nat /\ heard_age' \in Nat /\ poll_age' = 0
  BY TimingAssumption
  DEF TypeOK, Turn, Hear, HeartbeatAge, MoveDeadline, NextDeadline

-----------------------------------------------------------------------------
USE DEF States, Active, Streaming, Landing, Terminal, Startup, Unplaced,
        Replayed, AwaitingAck, Commands

(* Every value a message can carry is one the variables may take. *)
LEMMA ReceivedTypes ==
  ASSUME NEW rx \in Received
  PROVE  /\ rx.heartbeat # NoHeartbeat => rx.heartbeat.from \in Components
         /\ rx.position \in Origins \cup {NoPosition}
  BY DEF Received, Heartbeats

(* The initial state satisfies the invariant. *)
LEMMA InitIndInv == Init => IndInv
<1> SUFFICES ASSUME Init PROVE IndInv
  OBVIOUS
<1> USE TimingAssumption, CountAssumption, TrajectoryAssumption,
        MessageAssumption DEF Init
<1>1. TypeOK
  BY DEF TypeOK, Positions
<1>2. ClockInv /\ StreamInv
  BY DEF ClockInv, StreamInv
<1>3. SampleInv /\ SetpointsInVehicleFrame
  BY DEF SampleInv, SetpointsInVehicleFrame
<1>4. AttemptInv /\ CommandOrder
  BY DEF AttemptInv, CommandOrder
<1> QED
  BY <1>1, <1>2, <1>3, <1>4 DEF IndInv

(* The clocks a turn has set are in range. *)
TurnClocksOK ==
  /\ until_setpoint \in -MaxLate..SetpointInterval
  /\ heartbeat_age \in Nat /\ heard_age \in Nat /\ poll_age \in Nat

(* What the effects shared by the handlers do to the types *)
LEMMA TransmitTypes ==
  ASSUME TypeOK, NEW p \in Positions, NEW c \in Commands \cup {"none"},
         Transmit(p, c)
  PROVE  /\ outbox' \in [setpoint : Positions,
                         command : Commands \cup {"none"}]
         /\ commanded' \in Positions
         /\ commanded_age' \in Nat /\ command_age' \in Nat
  BY DEF TypeOK, Transmit

LEMMA FailTypes ==
  ASSUME TypeOK, TurnClocksOK', NEW p \in Positions, Fail(p)
  PROVE  TypeOK'
  BY TransmitTypes DEF TypeOK, TurnClocksOK, Fail, progress

LEMMA StayTypes ==
  ASSUME TypeOK, TurnClocksOK', NEW p \in Positions, Stay(p)
  PROVE  TypeOK'
  BY TransmitTypes DEF TypeOK, TurnClocksOK, Stay, progress

LEMMA StartCommandTypes ==
  ASSUME TypeOK, TurnClocksOK', NEW p \in Positions, NEW c \in Commands,
         NEW next \in States, StartCommand(c, p, next),
         setpoint_count' \in 0..PrestreamCount,
         UNCHANGED <<target, resample, replay_index, last_commanded_position,
                     disarm_age, origin>>
  PROVE  TypeOK'
<1>1. attempts' \in [Commands -> 0..MaxAttempts]
  BY CountAssumption DEF TypeOK, StartCommand
<1> QED
  BY <1>1, TransmitTypes DEF TypeOK, TurnClocksOK, StartCommand

LEMMA RetryCommandTypes ==
  ASSUME TypeOK, TurnClocksOK', NEW p \in Positions, NEW c \in Commands,
         RetryCommand(c, p)
  PROVE  TypeOK'
<1>1. CASE Fail(p)
  BY <1>1, FailTypes
<1>2. CASE ~AttemptsUsedUp(c) /\ ~Fail(p)
  <2>1. /\ Transmit(p, c) /\ attempts' = NextAttempt(c) /\ send_age' = 0
        /\ UNCHANGED <<state, target, resample, setpoint_count,
             replay_index, last_commanded_position, disarm_age, origin>>
    BY <1>2 DEF RetryCommand
  <2>2. attempts' \in [Commands -> 0..MaxAttempts]
    BY <1>2, <2>1, CountAssumption DEF TypeOK, NextAttempt, AttemptsUsedUp
  <2> QED
    BY <2>1, <2>2, TransmitTypes DEF TypeOK, TurnClocksOK
<1> QED
  BY <1>1, <1>2 DEF RetryCommand

LEMMA InitialSetpointType ==
  ASSUME TypeOK
  PROVE  initial_position \in Int /\ InitialSetpoint \in Positions
  BY TrajectoryAssumption
  DEF TypeOK, initial_position, InitialSetpoint, Positions

(* Type correctness is preserved; the counts need AttemptInv, the samples   *)
(* SampleInv.                                                              *)
LEMMA TypeTurn ==
  ASSUME IndInv, NEW rx \in Received, Iterate(rx)
  PROVE  TypeOK'
<1> USE DEF IndInv
<1>c. ASSUME NEW s, Turn(s, rx)
      PROVE  TurnClocksOK' /\ state = s
  BY <1>c, TurnClocks DEF TurnClocksOK, Turn
<1>n. NoPosition \in Positions
  BY DEF Positions
<1>i. initial_position \in Positions /\ InitialSetpoint \in Positions
  BY InitialSetpointType DEF Positions
<1>1. CASE Idle(rx)
  BY <1>1, <1>c, <1>n, StayTypes DEF Idle
<1>2. CASE WaitHeartbeat(rx)
  <2>1. Turn("WAIT_HEARTBEAT", rx) /\ Transmit(NoPosition, "none")
    BY <1>2 DEF WaitHeartbeat
  <2> QED
    BY <1>2, <2>1, <1>c, <1>n, TransmitTypes, ReceivedTypes
    DEF WaitHeartbeat, PeerFound, TypeOK, TurnClocksOK
<1>3. CASE WaitLocalPosition(rx)
  <2>1. TurnClocksOK'
    BY <1>3, TimingAssumption
    DEF WaitLocalPosition, TurnClocksOK, TypeOK, Hear, HeartbeatAge
  <2>2. CASE Fail(NoPosition)
    BY <2>1, <2>2, <1>n, FailTypes
  <2>3. CASE ~Fail(NoPosition)
    <3>1. rx.position \in Int /\ resample = Trajectory
      BY <1>3, ReceivedTypes, MessageAssumption
      DEF WaitLocalPosition, SampleInv
    <3>2. resample' = ApplyOrigin(Trajectory, rx.position)
          /\ origin' = rx.position
      BY <1>3, <2>3, <3>1 DEF WaitLocalPosition
    <3> QED
      BY <1>3, <2>1, <2>3, <3>1, <3>2, <1>n, TransmitTypes, ApplyOriginSample
      DEF WaitLocalPosition, TypeOK, TurnClocksOK, Positions
  <2> QED
    BY <2>2, <2>3
<1>4. CASE PrestreamSetpoint(rx)
  <2>1. TurnClocksOK' /\ setpoint_count + 1 \in 0..PrestreamCount
    BY <1>4, <1>c, CountAssumption DEF PrestreamSetpoint, AttemptInv, TypeOK
  <2>2. CASE Fail(NoPosition)
    BY <2>1, <2>2, <1>n, FailTypes
  <2>3. CASE ~Fail(NoPosition)
    <3>1. /\ setpoint_count' = setpoint_count + 1
          /\ UNCHANGED <<target, resample, replay_index,
               last_commanded_position, disarm_age, origin>>
      BY <1>4, <2>3 DEF PrestreamSetpoint
    <3>2. CASE StartCommand("offboard", initial_position, "WAIT_OFFBOARD_ACK")
      BY <3>1, <3>2, <2>1, <1>i, StartCommandTypes
    <3>3. CASE /\ Transmit(initial_position, "none")
               /\ state' \in {state, "ERROR"}
               /\ UNCHANGED <<attempts, send_age>>
      BY <3>1, <3>3, <2>1, <1>i, TransmitTypes DEF TypeOK, TurnClocksOK
    <3> QED
      BY <1>4, <2>3, <3>2, <3>3 DEF PrestreamSetpoint
  <2> QED
    BY <2>2, <2>3
<1>5. CASE WaitOffboardAck(rx)
  <2>1. TurnClocksOK'
    BY <1>5, <1>c DEF WaitOffboardAck
  <2>2. CASE Fail(NoPosition) \/ Fail(InitialSetpoint)
    BY <2>1, <2>2, <1>n, <1>i, FailTypes
  <2>3. CASE Stay(InitialSetpoint)
    BY <2>1, <2>3, <1>i, StayTypes
  <2>4. CASE RetryCommand("offboard", InitialSetpoint)
    BY <2>1, <2>4, <1>i, RetryCommandTypes
  <2>5. CASE RequestArm /\ ~Fail(InitialSetpoint)
    <3>1. /\ StartCommand("arm", InitialSetpoint, "WAIT_ARM_ACK")
          /\ UNCHANGED <<target, resample, setpoint_count, replay_index,
               last_commanded_position, disarm_age, origin>>
      BY <2>5 DEF RequestArm
    <3> QED
      BY <2>1, <3>1, <1>i, StartCommandTypes DEF TypeOK
  <2> QED
    BY <1>5, <2>2, <2>3, <2>4, <2>5 DEF WaitOffboardAck, AwaitAck
<1>6. CASE WaitArmAck(rx)
  <2>1. TurnClocksOK'
    BY <1>6, <1>c DEF WaitArmAck
  <2>2. CASE Fail(NoPosition) \/ Fail(InitialSetpoint)
    BY <2>1, <2>2, <1>n, <1>i, FailTypes
  <2>3. CASE Stay(InitialSetpoint)
    BY <2>1, <2>3, <1>i, StayTypes
  <2>4. CASE RetryCommand("arm", InitialSetpoint)
    BY <2>1, <2>4, <1>i, RetryCommandTypes
  <2>5. CASE StartReplay
    BY <2>1, <2>5, <1>i, TransmitTypes
    DEF StartReplay, TypeOK, TurnClocksOK, progress
  <2> QED
    BY <1>6, <2>2, <2>3, <2>4, <2>5 DEF WaitArmAck, AwaitAck
<1>7. CASE ReplayTrajectory(rx)
  <2>1. TurnClocksOK'
    BY <1>7, <1>c DEF ReplayTrajectory
  <2>2. CASE Fail(NoPosition)
    BY <2>1, <2>2, <1>n, FailTypes
  <2>3. CASE ReplayComplete
    BY <1>7, <2>1, <2>3, <1>n, TransmitTypes
    DEF ReplayTrajectory, TypeOK, TurnClocksOK, progress
  <2>4. CASE ~ReplayComplete /\ ~Fail(NoPosition)
    <3> DEFINE position == resample[replay_index + 1]
    <3>1. position \in Positions /\ replay_index + 1 \in 0..Len(Trajectory)
      BY <2>4, TrajectoryAssumption DEF ReplayComplete, TypeOK, Positions
    <3>2. /\ Transmit(position, "none")
          /\ last_commanded_position' = position
          /\ replay_index' = replay_index + 1
          /\ UNCHANGED <<state, target, resample, setpoint_count,
               attempts, send_age, disarm_age, origin>>
      BY <1>7, <2>4 DEF ReplayTrajectory
    <3> HIDE DEF position
    <3> QED
      BY <2>1, <3>1, <3>2, TransmitTypes DEF TypeOK, TurnClocksOK
  <2> QED
    BY <2>2, <2>3, <2>4
<1>8. CASE HoldPosition(rx)
  <2>1. TurnClocksOK' /\ HeldPosition \in Positions
    BY <1>8, <1>c DEF HoldPosition, HoldOrLand, HeldPosition, TypeOK
  <2>2. CASE Fail(NoPosition)
    BY <2>1, <2>2, <1>n, FailTypes
  <2>3. CASE Stay(HeldPosition)
    BY <2>1, <2>3, StayTypes
  <2>4. CASE /\ state' = "COMMAND_LAND"
             /\ Transmit(NoPosition, "none")
             /\ UNCHANGED <<progress, send_age, disarm_age, origin>>
    BY <2>1, <2>4, <1>n, TransmitTypes DEF TypeOK, TurnClocksOK, progress
  <2> QED
    BY <1>8, <2>2, <2>3, <2>4 DEF HoldPosition, HoldOrLand
<1>9. CASE CommandLand(rx)
  <2>1. TurnClocksOK'
    BY <1>9, <1>c DEF CommandLand
  <2>2. CASE Fail(NoPosition)
    BY <2>1, <2>2, <1>n, FailTypes
  <2>3. CASE ~Fail(NoPosition)
    <3>1. /\ StartCommand("land", NoPosition, "WAIT_LAND_ACK")
          /\ UNCHANGED <<target, resample, setpoint_count, replay_index,
               last_commanded_position, disarm_age, origin>>
      BY <1>9, <2>3 DEF CommandLand
    <3> QED
      BY <2>1, <3>1, <1>n, StartCommandTypes DEF TypeOK
  <2> QED
    BY <2>2, <2>3
<1>10. CASE WaitLandAck(rx)
  <2>1. TurnClocksOK'
    BY <1>10, <1>c DEF WaitLandAck
  <2>2. CASE Fail(NoPosition)
    BY <2>1, <2>2, <1>n, FailTypes
  <2>3. CASE Stay(NoPosition)
    BY <2>1, <2>3, <1>n, StayTypes
  <2>4. CASE RetryCommand("land", NoPosition)
    BY <2>1, <2>4, <1>n, RetryCommandTypes
  <2>5. CASE AwaitDisarm
    BY <2>1, <2>5, <1>n, TransmitTypes
    DEF AwaitDisarm, TypeOK, TurnClocksOK, progress
  <2> QED
    BY <1>10, <2>2, <2>3, <2>4, <2>5 DEF WaitLandAck, AwaitAck
<1>11. CASE WaitDisarmed(rx)
  <2>1. TurnClocksOK'
    BY <1>11, <1>c DEF WaitDisarmed
  <2>2. CASE Fail(NoPosition)
    BY <2>1, <2>2, <1>n, FailTypes
  <2>3. CASE Stay(NoPosition)
    BY <2>1, <2>3, <1>n, StayTypes
  <2>4. CASE ReportsDisarmed(rx)
    BY <1>11, <2>1, <2>4, <1>n, TransmitTypes
    DEF WaitDisarmed, DisarmTimedOut, TypeOK, TurnClocksOK, progress, Fail, Stay
  <2> QED
    BY <1>11, <2>2, <2>3, <2>4 DEF WaitDisarmed
<1>12. CASE LoseConnection(rx)
  BY <1>12, <1>n, FailTypes DEF LoseConnection, TurnClocksOK, TypeOK
<1> QED
  BY <1>1, <1>2, <1>3, <1>4, <1>5, <1>6, <1>7, <1>8, <1>9, <1>10, <1>11,
     <1>12 DEF Iterate

-----------------------------------------------------------------------------
(* What every turn that reaches its handler does to the clocks *)
LEMMA TurnFacts ==
  ASSUME IndInv, NEW rx, NEW s, Turn(s, rx)
  PROVE  /\ state = s
         /\ heard_age' = heartbeat_age' /\ poll_age' = 0
         /\ s \in Active \cup {"WAIT_LOCAL_POSITION"} =>
              heartbeat_age' < HeartbeatTimeout
         /\ SetpointDue => until_setpoint' \in 1..SetpointInterval
         /\ ~SetpointDue => until_setpoint' = until_setpoint
         /\ until_setpoint' \in Int /\ until_setpoint' <= SetpointInterval
<1> USE TimingAssumption DEF IndInv, Turn
<1>1. state = s
  OBVIOUS
<1>2. heard_age' = heartbeat_age' /\ poll_age' = 0
  BY DEF Hear, HeartbeatAge, ClockInv
<1>3. s \in Active \cup {"WAIT_LOCAL_POSITION"} =>
        heartbeat_age' < HeartbeatTimeout
  BY DEF Hear, ConnectionLost, HeartbeatAge, TypeOK
<1>4. SetpointDue => until_setpoint' \in 1..SetpointInterval
  BY NextDeadlineRange DEF MoveDeadline
<1>5. ~SetpointDue => until_setpoint' = until_setpoint
  BY DEF MoveDeadline
<1> QED
  BY <1>1, <1>2, <1>3, <1>4, <1>5 DEF TypeOK

(* A turn of a state other than WAIT_LOCAL_POSITION with a position reaches *)
(* its handler or loses the connection.                                    *)
TurnOf(rx) ==
  \/ \E s \in States \ Terminal : Turn(s, rx)
  \/ WaitLocalPosition(rx)
  \/ LoseConnection(rx)

LEMMA EveryTurn ==
  ASSUME NEW rx, Iterate(rx)
  PROVE  TurnOf(rx)
  BY DEF Iterate, TurnOf, Idle, WaitHeartbeat, PrestreamSetpoint,
         WaitOffboardAck, WaitArmAck, ReplayTrajectory, HoldPosition,
         HoldOrLand, CommandLand, WaitLandAck, WaitDisarmed

(* Retrying or starting a command sets both clocks of the command to zero. *)
LEMMA RetryClock ==
  ASSUME NEW c \in Commands, NEW p, RetryCommand(c, p)
  PROVE  \/ state' = "ERROR"
         \/ command_age' = 0 /\ send_age' = 0 /\ state' = state
  BY DEF RetryCommand, Fail, Transmit

LEMMA StartClock ==
  ASSUME NEW c \in Commands, NEW p, NEW next, StartCommand(c, p, next)
  PROVE  command_age' = 0 /\ send_age' = 0 /\ state' = next
  BY DEF StartCommand, Transmit

(* Before its retry is due a waiting state keeps the clock of its command. *)
LEMMA StayClock ==
  ASSUME NEW p, Stay(p)
  PROVE  state' = state /\ command_age' = command_age /\ send_age' = send_age
  BY DEF Stay, Transmit

(* The age of the awaited command agrees with the program's time stamp. *)
LEMMA AwaitTurn ==
  ASSUME IndInv, NEW rx \in Received, Iterate(rx)
  PROVE  state' \in AwaitingAck =>
           command_age' = send_age' /\ send_age' < RetryInterval
<1> SUFFICES ASSUME state' \in AwaitingAck
             PROVE  command_age' = send_age' /\ send_age' < RetryInterval
  OBVIOUS
<1> USE TimingAssumption DEF IndInv
<1>f. ASSUME NEW p, Fail(p) PROVE FALSE
  BY <1>f DEF Fail
<1>w. ASSUME NEW c \in Commands, NEW p, NEW OnAccept, state \in AwaitingAck,
             AwaitAck(c, p, rx, OnAccept)
      PROVE  \/ command_age' = send_age' /\ send_age' < RetryInterval
             \/ OnAccept
  <2>1. CASE RetryCommand(c, p)
    BY <2>1, <1>f, RetryClock
  <2>2. CASE ~RetryDue /\ Stay(p)
    BY <1>w, <2>2, StayClock DEF RetryDue, ClockInv, TypeOK
  <2> QED
    BY <1>w, <1>f, <2>1, <2>2 DEF AwaitAck
<1>1. ~Idle(rx)
  BY DEF Idle, Stay, Turn
<1>2. ~WaitHeartbeat(rx) /\ ~WaitLocalPosition(rx)
  BY <1>f DEF WaitHeartbeat, WaitLocalPosition
<1>3. CASE PrestreamSetpoint(rx)
  BY <1>3, <1>f, StartClock DEF PrestreamSetpoint, Turn
<1>4. CASE WaitOffboardAck(rx)
  <2>1. CASE RequestArm
    BY <2>1, <1>f, StartClock DEF RequestArm
  <2> QED
    BY <1>4, <2>1, <1>f, <1>w DEF WaitOffboardAck, Turn
<1>5. CASE WaitArmAck(rx)
  <2>1. ~StartReplay
    BY DEF StartReplay
  <2> QED
    BY <1>5, <2>1, <1>f, <1>w DEF WaitArmAck, Turn
<1>6. ~ReplayTrajectory(rx) /\ ~HoldPosition(rx) /\ ~WaitDisarmed(rx)
  BY <1>f
  DEF ReplayTrajectory, HoldPosition, HoldOrLand, WaitDisarmed, Stay, Turn
<1>7. CASE CommandLand(rx)
  BY <1>7, <1>f, StartClock DEF CommandLand
<1>8. CASE WaitLandAck(rx)
  <2>1. ~AwaitDisarm
    BY DEF AwaitDisarm
  <2> QED
    BY <1>8, <2>1, <1>f, <1>w DEF WaitLandAck, Turn
<1>9. ~LoseConnection(rx)
  BY <1>f DEF LoseConnection
<1> QED
  BY <1>1, <1>2, <1>3, <1>4, <1>5, <1>6, <1>7, <1>8, <1>9 DEF Iterate

(* At the start of a poll() the time to the deadline is all that is left. *)
LEMMA FreshPoll ==
  ASSUME NEW poll, NEW until \in Int, NEW limit \in Nat,
         poll = 0, until <= limit
  PROVE  poll + until <= limit
  OBVIOUS

LEMMA FreshDeadline ==
  ASSUME NEW age, NEW until \in 1..SetpointInterval, age = 0
  PROVE  age + until >= 1
  BY TimingAssumption

(* Every turn keeps ClockInv: the clocks it has checked are in time when    *)
(* the next poll() begins.                                                 *)
LEMMA ClockTurn ==
  ASSUME IndInv, NEW rx \in Received, Iterate(rx)
  PROVE  ClockInv'
<1>1. state' \in AwaitingAck =>
        command_age' = send_age' /\ send_age' < RetryInterval
  BY AwaitTurn
<1>2. CASE LoseConnection(rx)
  BY <1>2 DEF LoseConnection, Fail, ClockInv, IndInv
<1>3. CASE WaitLocalPosition(rx)
  BY <1>1, <1>3, TimingAssumption
  DEF WaitLocalPosition, ConnectionLost, Hear, HeartbeatAge, ClockInv, IndInv,
      TypeOK, Fail
<1>4. CASE WaitHeartbeat(rx)
  BY <1>4, TimingAssumption
  DEF WaitHeartbeat, Turn, Hear, HeartbeatAge, ClockInv
<1>5. CASE \E s \in States \ Terminal : Turn(s, rx) /\ ~WaitHeartbeat(rx)
  <2>1. PICK s \in States \ Terminal : Turn(s, rx)
    BY <1>5
  <2>2. /\ state = s
        /\ heard_age' = heartbeat_age' /\ poll_age' = 0
        /\ s \in Active \cup {"WAIT_LOCAL_POSITION"} =>
             heartbeat_age' < HeartbeatTimeout
        /\ until_setpoint' \in Int /\ until_setpoint' <= SetpointInterval
    BY <2>1, TurnFacts
  <2>3. s = "WAIT_HEARTBEAT" => state' = state
    BY <2>2, <1>5 DEF Iterate, Idle, Stay, PrestreamSetpoint, WaitOffboardAck,
        WaitArmAck, ReplayTrajectory, HoldPosition, HoldOrLand, CommandLand,
        WaitLandAck,
        WaitDisarmed, Turn, WaitLocalPosition, LoseConnection, ConnectionLost
  <2>4. TypeOK'
    BY TypeTurn
  <2>5. state' \in Active \cup {"WAIT_LOCAL_POSITION"} =>
          heartbeat_age' - poll_age' < HeartbeatTimeout
    <3>1. s \notin Active \cup {"WAIT_LOCAL_POSITION"} => s = "WAIT_HEARTBEAT"
      OBVIOUS
    <3> QED
      BY <2>2, <2>3, <2>4, <3>1 DEF TypeOK
  <2>6. /\ state' = "WAIT_LOCAL_POSITION" =>
             poll_age' <= LocalPositionPoll + MaxLate
        /\ state' \in Active => poll_age' + until_setpoint' <= SetpointInterval
    <3>1. poll_age' + until_setpoint' <= SetpointInterval
      BY <2>2, FreshPoll, TimingAssumption
    <3>2. 0 <= LocalPositionPoll + MaxLate
      BY TimingAssumption
    <3> QED
      BY <2>2, <3>1, <3>2
  <2>7. state' \in AwaitingAck => send_age' - poll_age' < RetryInterval
    BY <1>1, <2>2, <2>4 DEF TypeOK
  <2> QED
    BY <1>1, <2>2, <2>5, <2>6, <2>7 DEF ClockInv
<1> QED
  BY <1>2, <1>3, <1>4, <1>5, EveryTurn DEF TurnOf

-----------------------------------------------------------------------------
(* A turn keeps StreamInv when it transmits a setpoint, leaves the stream,  *)
(* or finds the deadline still ahead.                                      *)
LEMMA StreamTransmit ==
  ASSUME IndInv, NEW rx, NEW s, Turn(s, rx),
         NEW p \in Positions, NEW c, Transmit(p, c),
         \/ state' \notin Streaming
         \/ SetpointDue /\ p # NoPosition
         \/ ~SetpointDue /\ p = NoPosition /\ state' = state
         \/ /\ ~SetpointDue /\ p = NoPosition
            /\ state \in Streaming \ {"HOLD_POSITION"}
            /\ state' \in Streaming \ {"HOLD_POSITION"}
  PROVE  StreamInv'
<1> USE TimingAssumption DEF IndInv
<1>1. CASE state' \notin Streaming
  BY <1>1 DEF StreamInv
<1>2. CASE SetpointDue /\ p # NoPosition
  <2>1. commanded_age' = 0 /\ until_setpoint' \in Int
        /\ until_setpoint' <= SetpointInterval
    BY <1>2, TurnFacts DEF Transmit
  <2>0. commanded_age' + until_setpoint' >= 1
    <3>1. until_setpoint' \in 1..SetpointInterval
      BY <1>2, TurnFacts
    <3> QED
      BY <2>1, <3>1, FreshDeadline
  <2>2. commanded_age' + until_setpoint' <= SetpointInterval
    BY <2>1, FreshPoll
  <2>3. commanded_age' + until_setpoint' <= 2 * SetpointInterval + MaxLate
    <3>1. 2 * SetpointInterval + MaxLate \in Nat
          /\ SetpointInterval <= 2 * SetpointInterval + MaxLate
      OBVIOUS
    <3>2. until_setpoint' <= 2 * SetpointInterval + MaxLate
      BY <2>1, <3>1
    <3> QED
      BY <2>1, <3>1, <3>2, FreshPoll
  <2> QED
    BY <2>0, <2>2, <2>3 DEF StreamInv
<1>3. CASE p = NoPosition /\ ~SetpointDue /\ state' = state
  BY <1>3, TurnFacts DEF StreamInv, Transmit
<1>4. CASE /\ p = NoPosition /\ ~SetpointDue
           /\ state \in Streaming \ {"HOLD_POSITION"}
           /\ state' \in Streaming \ {"HOLD_POSITION"}
  BY <1>4, TurnFacts DEF StreamInv, Transmit
<1> QED
  BY <1>1, <1>2, <1>3, <1>4

(* In the startup states a due deadline is answered with a setpoint. *)
LEMMA InitialSetpointDue ==
  ASSUME IndInv
  PROVE  /\ SetpointDue <=> InitialSetpoint # NoPosition
         /\ InitialSetpoint \in Positions
  BY InitialSetpointType, MessageAssumption DEF IndInv, InitialSetpoint

(* A failing turn leaves the stream. *)
LEMMA StreamFail == ASSUME NEW p, Fail(p) PROVE StreamInv'
  BY DEF Fail, StreamInv

(* While an acknowledgement is awaited the stream goes on. *)
LEMMA StreamAwait ==
  ASSUME IndInv, NEW rx, NEW s, Turn(s, rx),
         s \in {"WAIT_OFFBOARD_ACK", "WAIT_ARM_ACK"}, NEW c,
         \/ Stay(InitialSetpoint) \/ RetryCommand(c, InitialSetpoint)
         \/ RequestArm \/ StartReplay
  PROVE  StreamInv'
<1>1. CASE \E p : Fail(p)
  BY <1>1, StreamFail
<1>2. CASE ~ \E p : Fail(p)
  <2>1. PICK d : Transmit(InitialSetpoint, d)
    BY <1>2 DEF Stay, RetryCommand, RequestArm, StartReplay, StartCommand
  <2>2. state' \in Streaming \ {"HOLD_POSITION"} /\ state = s
    BY <1>2, TurnFacts
    DEF Stay, RetryCommand, RequestArm, StartReplay, StartCommand
  <2> QED
    BY <2>1, <2>2, InitialSetpointDue, StreamTransmit
<1> QED
  BY <1>1, <1>2

(* A turn that answers a due deadline with no setpoint *)
LEMMA MissedDeadline ==
  ASSUME NEW age \in Nat, NEW until \in -MaxLate..SetpointInterval,
         NEW next \in Int, next <= SetpointInterval,
         age + until <= SetpointInterval
  PROVE  /\ age + next <= 2 * SetpointInterval + MaxLate
         /\ next >= 1 => age + next >= 1
  BY TimingAssumption

(* Every turn keeps the bound on the age of the last setpoint. *)
LEMMA StreamTurn ==
  ASSUME IndInv, NEW rx \in Received, Iterate(rx)
  PROVE  StreamInv'
<1>n. NoPosition \in Positions
  BY DEF Positions
<1>1. CASE Idle(rx)
  <2>1. PICK s : Turn(s, rx) /\ (s \in Streaming => ~SetpointDue)
    BY <1>1 DEF Idle
  <2>2. Transmit(NoPosition, "none") /\ state' = state
    BY <1>1 DEF Idle, Stay
  <2> QED
    BY <2>1, <2>2, <1>n, StreamTransmit, TurnFacts
<1>2. CASE WaitHeartbeat(rx)
  BY <1>2 DEF WaitHeartbeat, StreamInv
<1>3. CASE WaitLocalPosition(rx)
  BY <1>3 DEF WaitLocalPosition, StreamInv, Fail, IndInv, SampleInv, Transmit
<1>4. CASE PrestreamSetpoint(rx)
  <2>1. CASE Fail(NoPosition)
    BY <2>1, StreamFail
  <2>2. CASE ~Fail(NoPosition)
    <3>1. PICK d : Transmit(initial_position, d)
      BY <1>4, <2>2 DEF PrestreamSetpoint, StartCommand
    <3>2. initial_position \in Positions /\ initial_position # NoPosition
      BY InitialSetpointType, MessageAssumption DEF IndInv, Positions
    <3>3. Turn("PRESTREAM_SETPOINT", rx) /\ SetpointDue
      BY <1>4 DEF PrestreamSetpoint
    <3> QED
      BY <3>1, <3>2, <3>3, StreamTransmit
  <2> QED
    BY <2>1, <2>2
<1>5. CASE WaitOffboardAck(rx)
  <2>1. Turn("WAIT_OFFBOARD_ACK", rx)
    BY <1>5 DEF WaitOffboardAck
  <2>2. \/ Fail(NoPosition) \/ Fail(InitialSetpoint)
        \/ Stay(InitialSetpoint) \/ RetryCommand("offboard", InitialSetpoint)
        \/ RequestArm
    BY <1>5 DEF WaitOffboardAck, AwaitAck
  <2> QED
    BY <2>1, <2>2, StreamFail, StreamAwait
<1>6. CASE WaitArmAck(rx)
  <2>1. Turn("WAIT_ARM_ACK", rx)
    BY <1>6 DEF WaitArmAck
  <2>2. \/ Fail(NoPosition) \/ Fail(InitialSetpoint)
        \/ Stay(InitialSetpoint) \/ RetryCommand("arm", InitialSetpoint)
        \/ StartReplay
    BY <1>6 DEF WaitArmAck, AwaitAck
  <2> QED
    BY <2>1, <2>2, StreamFail, StreamAwait
<1>7. CASE ReplayTrajectory(rx)
  <2>1. Turn("REPLAY_TRAJECTORY", rx)
    BY <1>7 DEF ReplayTrajectory
  <2>2. CASE Fail(NoPosition)
    BY <2>2, StreamFail
  <2>3. CASE ReplayComplete
    <3>1. /\ state = "REPLAY_TRAJECTORY" /\ state' = "HOLD_POSITION"
          /\ Transmit(NoPosition, "none")
      BY <1>7, <2>3 DEF ReplayTrajectory, Turn
    <3>2. /\ until_setpoint' \in Int /\ until_setpoint' <= SetpointInterval
          /\ until_setpoint' >= 1
      BY <1>7, <2>1, TurnFacts, TimingAssumption DEF ReplayTrajectory
    <3>3. commanded # NoPosition =>
            commanded_age + until_setpoint <= SetpointInterval
      BY <3>1 DEF IndInv, StreamInv
    <3>4. commanded' = commanded /\ commanded_age' = commanded_age
      BY <3>1 DEF Transmit
    <3>5. commanded_age \in Nat /\ until_setpoint \in -MaxLate..SetpointInterval
      BY DEF IndInv, TypeOK
    <3> QED
      BY <3>1, <3>2, <3>3, <3>4, <3>5, MissedDeadline DEF StreamInv
  <2>4. CASE ~ReplayComplete /\ ~Fail(NoPosition)
    <3> DEFINE position == resample[replay_index + 1]
    <3>1. position \in Positions /\ position # NoPosition
      BY <2>4, TrajectoryAssumption, MessageAssumption
      DEF IndInv, ReplayComplete, TypeOK, Positions
    <3>2. Transmit(position, "none") /\ SetpointDue
      BY <1>7, <2>4 DEF ReplayTrajectory
    <3> HIDE DEF position
    <3> QED
      BY <2>1, <3>1, <3>2, StreamTransmit
  <2> QED
    BY <2>2, <2>3, <2>4
<1>8. CASE HoldPosition(rx)
  <2>1. Turn("HOLD_POSITION", rx)
    BY <1>8 DEF HoldPosition, HoldOrLand
  <2>2. CASE Fail(NoPosition)
    BY <2>2, StreamFail
  <2>3. CASE state' = "COMMAND_LAND"
    BY <2>3 DEF StreamInv
  <2>4. CASE Stay(HeldPosition) /\ HeldPosition # NoPosition
    <3>1. HeldPosition \in Positions /\ Transmit(HeldPosition, "none")
          /\ SetpointDue
      BY <1>8, <2>4
      DEF HoldPosition, HoldOrLand, Stay, IndInv, TypeOK, HeldPosition
    <3> QED
      BY <2>1, <2>4, <3>1, StreamTransmit
  <2> QED
    BY <1>8, <2>2, <2>3, <2>4 DEF HoldPosition, HoldOrLand, HeldPosition
<1>9. CASE CommandLand(rx)
  BY <1>9 DEF CommandLand, StartCommand, Fail, StreamInv
<1>10. CASE WaitLandAck(rx)
  BY <1>10 DEF WaitLandAck, AwaitAck, AwaitDisarm, RetryCommand, Fail, Stay,
      StreamInv, Turn
<1>11. CASE WaitDisarmed(rx)
  BY <1>11 DEF WaitDisarmed, Fail, Stay, StreamInv, Turn
<1>12. CASE LoseConnection(rx)
  BY <1>12, StreamFail DEF LoseConnection
<1> QED
  BY <1>1, <1>2, <1>3, <1>4, <1>5, <1>6, <1>7, <1>8, <1>9, <1>10, <1>11,
     <1>12 DEF Iterate

-----------------------------------------------------------------------------
(* A turn that sends a sample, or nothing, keeps every setpoint in the      *)
(* vehicle's frame.                                                        *)
LEMMA FrameTransmit ==
  ASSUME IndInv, NEW p, NEW c, Transmit(p, c), origin' = origin,
         p # NoPosition => /\ state \in Active
                           /\ \E i \in Samples : p = resample[i]
  PROVE  SetpointsInVehicleFrame'
<1>1. CASE p = NoPosition
  BY <1>1 DEF Transmit, IndInv, SetpointsInVehicleFrame, Placed
<1>2. CASE p # NoPosition
  <2>1. PICK i \in Samples : p = resample[i]
    BY <1>2
  <2>2. origin \in Int /\ resample[i] = Placed(i) /\ IsFinite(resample[i])
    BY <1>2, <2>1 DEF IndInv, SampleInv
  <2> QED
    BY <1>2, <2>1, <2>2, MessageAssumption
    DEF Transmit, SetpointsInVehicleFrame, Placed
<1> QED
  BY <1>1, <1>2

(* The setpoints of the handlers are samples. *)
LEMMA SetpointSamples ==
  ASSUME IndInv
  PROVE  /\ initial_position = resample[1] /\ 1 \in Samples
         /\ InitialSetpoint # NoPosition => InitialSetpoint = initial_position
         /\ state = "REPLAY_TRAJECTORY" /\ ~ReplayComplete =>
              replay_index + 1 \in Samples
         /\ state \in Replayed =>
              /\ HeldPosition = resample[Len(Trajectory)]
              /\ Len(Trajectory) \in Samples
  BY TrajectoryAssumption
  DEF IndInv, TypeOK, SampleInv, initial_position, InitialSetpoint,
      ReplayComplete, HeldPosition, Samples

(* A setpoint that may follow the last one: a sample, sent at a due         *)
(* deadline, and the same sample as before or the one after it.            *)
NextSetpoint(p) ==
  p # NoPosition =>
    /\ state \in Streaming /\ SetpointDue
    /\ \E i \in Samples : p = resample[i]
    /\ commanded \notin {NoPosition, p} =>
         \E i \in 1..(Len(Trajectory) - 1) :
           commanded = resample[i] /\ p = resample[i + 1]

(* Every turn transmits at most one setpoint, and one that may follow.      *)
LEMMA TurnTransmits ==
  ASSUME IndInv, NEW rx \in Received, Iterate(rx)
  PROVE  /\ \E p, c : Transmit(p, c) /\ NextSetpoint(p)
         /\ ~WaitLocalPosition(rx) => origin' = origin
<1>n. NextSetpoint(NoPosition)
  BY DEF NextSetpoint
<1>i. state \in Startup =>
        /\ SetpointDue => NextSetpoint(initial_position)
        /\ NextSetpoint(InitialSetpoint)
  BY SetpointSamples DEF NextSetpoint, InitialSetpoint, IndInv, SampleInv
<1>f. ASSUME NEW p, Fail(p) PROVE Transmit(p, "none") /\ origin' = origin
  BY <1>f DEF Fail
<1>s. ASSUME NEW p, Stay(p) PROVE Transmit(p, "none") /\ origin' = origin
  BY <1>s DEF Stay
<1>r. ASSUME NEW p, NEW c, RetryCommand(c, p)
      PROVE  (\E d : Transmit(p, d)) /\ origin' = origin
  BY <1>r, <1>f DEF RetryCommand
<1>1. CASE Idle(rx)
  BY <1>1, <1>s, <1>n DEF Idle
<1>2. CASE WaitHeartbeat(rx)
  BY <1>2, <1>n DEF WaitHeartbeat
<1>3. CASE WaitLocalPosition(rx)
  BY <1>3, <1>n, <1>f DEF WaitLocalPosition
<1>4. CASE PrestreamSetpoint(rx)
  BY <1>4, <1>n, <1>i, <1>f DEF PrestreamSetpoint, StartCommand, Turn
<1>5. CASE WaitOffboardAck(rx)
  <2>1. \/ Fail(NoPosition) \/ Fail(InitialSetpoint)
        \/ Stay(InitialSetpoint) \/ RetryCommand("offboard", InitialSetpoint)
        \/ RequestArm
    BY <1>5 DEF WaitOffboardAck, AwaitAck
  <2>2. state \in Startup
    BY <1>5 DEF WaitOffboardAck, Turn
  <2>3. RequestArm => (\E d : Transmit(InitialSetpoint, d)) /\ origin' = origin
    BY <1>f DEF RequestArm, StartCommand
  <2> QED
    BY <2>1, <2>2, <2>3, <1>n, <1>i, <1>f, <1>s, <1>r
<1>6. CASE WaitArmAck(rx)
  <2>1. \/ Fail(NoPosition) \/ Fail(InitialSetpoint)
        \/ Stay(InitialSetpoint) \/ RetryCommand("arm", InitialSetpoint)
        \/ StartReplay
    BY <1>6 DEF WaitArmAck, AwaitAck
  <2>2. state \in Startup
    BY <1>6 DEF WaitArmAck, Turn
  <2>3. StartReplay => Transmit(InitialSetpoint, "none") /\ origin' = origin
    BY DEF StartReplay
  <2> QED
    BY <2>1, <2>2, <2>3, <1>n, <1>i, <1>f, <1>s, <1>r
<1>7. CASE ReplayTrajectory(rx)
  <2>1. state = "REPLAY_TRAJECTORY" /\ SetpointDue
    BY <1>7 DEF ReplayTrajectory, Turn
  <2>2. ~ReplayComplete => NextSetpoint(resample[replay_index + 1])
    <3> SUFFICES ASSUME ~ReplayComplete
                 PROVE  NextSetpoint(resample[replay_index + 1])
      OBVIOUS
    <3>1. replay_index + 1 \in Samples /\ replay_index \in Nat
      BY <2>1, SetpointSamples DEF IndInv, TypeOK
    <3>2. CASE replay_index = 0
      BY <2>1, <3>1, <3>2 DEF NextSetpoint, IndInv, SampleInv
    <3>3. CASE replay_index > 0
      <4>1. replay_index \in 1..(Len(Trajectory) - 1)
        BY <3>1, <3>3, TrajectoryAssumption DEF Samples
      <4>2. commanded = resample[replay_index]
        BY <2>1, <3>3 DEF IndInv, SampleInv
      <4> QED
        BY <2>1, <3>1, <4>1, <4>2 DEF NextSetpoint
    <3> QED
      BY <3>1, <3>2, <3>3
  <2> QED
    BY <1>7, <2>2, <1>n, <1>f DEF ReplayTrajectory
<1>8. CASE HoldPosition(rx)
  <2>1. NextSetpoint(HeldPosition)
    BY <1>8, SetpointSamples
    DEF NextSetpoint, HoldPosition, HoldOrLand, Turn, IndInv, SampleInv
  <2> QED
    BY <1>8, <2>1, <1>n, <1>f, <1>s DEF HoldPosition, HoldOrLand
<1>9. CASE CommandLand(rx)
  BY <1>9, <1>n, <1>f DEF CommandLand, StartCommand
<1>10. CASE WaitLandAck(rx)
  BY <1>10, <1>n, <1>f, <1>s, <1>r DEF WaitLandAck, AwaitAck, AwaitDisarm
<1>11. CASE WaitDisarmed(rx)
  BY <1>11, <1>n, <1>f, <1>s DEF WaitDisarmed
<1>12. CASE LoseConnection(rx)
  BY <1>12, <1>n, <1>f DEF LoseConnection
<1> QED
  BY <1>1, <1>2, <1>3, <1>4, <1>5, <1>6, <1>7, <1>8, <1>9, <1>10, <1>11,
     <1>12 DEF Iterate

(* Every turn keeps all setpoints in the vehicle's frame. *)
LEMMA FrameTurn ==
  ASSUME IndInv, NEW rx \in Received, Iterate(rx)
  PROVE  SetpointsInVehicleFrame'
<1>1. CASE WaitLocalPosition(rx)
  BY <1>1 DEF WaitLocalPosition, Fail, Transmit, IndInv, SampleInv,
      SetpointsInVehicleFrame
<1>2. CASE ~WaitLocalPosition(rx)
  <2>1. PICK p, c : Transmit(p, c) /\ NextSetpoint(p)
    BY TurnTransmits
  <2> QED
    BY <1>2, <2>1, TurnTransmits, FrameTransmit DEF NextSetpoint
<1> QED
  BY <1>1, <1>2

-----------------------------------------------------------------------------
(* A turn that moves no sample and no index keeps SampleInv within the      *)
(* startup states, within the states after the replay, and within a state. *)
LEMMA SampleKept ==
  ASSUME IndInv, UNCHANGED <<resample, replay_index, last_commanded_position,
                             origin>>,
         \/ state' = state /\ commanded' = commanded
         \/ /\ state \in Startup /\ state' \in Startup \cup {"REPLAY_TRAJECTORY"}
            /\ commanded' \in {commanded, resample[1]}
         \/ state \in Replayed /\ state' \in Replayed /\ commanded' = commanded
         \/ state' = "ERROR"
  PROVE  SampleInv'
  BY DEF IndInv, SampleInv, Placed

LEMMA SampleFail == ASSUME NEW p, Fail(p) PROVE SampleInv'
  BY DEF Fail, SampleInv

(* The startup states send the first sample, if anything. *)
LEMMA SampleStartup ==
  ASSUME IndInv, state \in Startup, NEW p \in {NoPosition, initial_position},
         NEW c, Transmit(p, c), state' \in Startup \cup {"REPLAY_TRAJECTORY"},
         UNCHANGED <<resample, replay_index, last_commanded_position, origin>>
  PROVE  SampleInv'
  BY SampleKept DEF Transmit, initial_position

LEMMA SampleAwait ==
  ASSUME IndInv, state \in Startup, NEW c,
         \/ Stay(InitialSetpoint) \/ RetryCommand(c, InitialSetpoint)
         \/ RequestArm \/ StartReplay
  PROVE  SampleInv'
<1>1. CASE \E p : Fail(p)
  BY <1>1, SampleFail
<1>2. CASE ~ \E p : Fail(p)
  <2>1. PICK d : Transmit(InitialSetpoint, d)
    BY <1>2 DEF Stay, RetryCommand, RequestArm, StartReplay, StartCommand
  <2>2. /\ state' \in Startup \cup {"REPLAY_TRAJECTORY"}
        /\ UNCHANGED <<resample, replay_index, last_commanded_position, origin>>
    BY <1>2
    DEF Stay, RetryCommand, RequestArm, StartReplay, StartCommand, progress
  <2>3. InitialSetpoint \in {NoPosition, initial_position}
    BY DEF InitialSetpoint
  <2> QED
    BY <2>1, <2>2, <2>3, SampleStartup
<1> QED
  BY <1>1, <1>2

(* Every turn keeps the relation of the samples, the index and the last     *)
(* setpoint.                                                               *)
LEMMA SampleTurn ==
  ASSUME IndInv, NEW rx \in Received, Iterate(rx)
  PROVE  SampleInv'
<1>1. CASE Idle(rx)
  BY <1>1, SampleKept DEF Idle, Stay, Transmit, progress
<1>2. CASE WaitHeartbeat(rx)
  BY <1>2 DEF WaitHeartbeat, Turn, Transmit, IndInv, SampleInv
<1>3. CASE WaitLocalPosition(rx)
  <2>1. CASE Fail(NoPosition)
    BY <2>1, SampleFail
  <2>2. CASE ~Fail(NoPosition)
    <3>1. /\ state = "WAIT_LOCAL_POSITION" /\ state' = "PRESTREAM_SETPOINT"
          /\ CanApplyOrigin(resample, rx.position)
          /\ resample' = ApplyOrigin(resample, rx.position)
          /\ origin' = rx.position
          /\ Transmit(NoPosition, "none")
          /\ UNCHANGED <<replay_index, last_commanded_position>>
          /\ rx.position \in Int
      BY <1>3, <2>2, ReceivedTypes, MessageAssumption DEF WaitLocalPosition
    <3>2. resample = Trajectory /\ commanded = NoPosition /\ replay_index = 0
          /\ last_commanded_position = NoPosition
      BY <3>1 DEF IndInv, SampleInv
    <3>3. \A i \in Samples : /\ resample'[i] = Trajectory[i] + rx.position
                             /\ IsFinite(Trajectory[i] + rx.position)
      <4>1. \A i \in Samples : resample'[i] = Trajectory[i] + rx.position
        BY <3>1, <3>2, ApplyOriginSample
      <4>2. \A i \in DOMAIN Trajectory : IsFinite(Trajectory[i] + rx.position)
        BY <3>1, <3>2 DEF CanApplyOrigin
      <4>3. DOMAIN Trajectory = Samples
        BY TrajectoryAssumption DEF Samples
      <4> QED
        BY <4>1, <4>2, <4>3
    <3> QED
      BY <3>1, <3>2, <3>3 DEF SampleInv, Placed, Transmit, IsFinite
  <2> QED
    BY <2>1, <2>2
<1>4. CASE PrestreamSetpoint(rx)
  <2>1. CASE Fail(NoPosition) \/ state' = "ERROR"
    BY <2>1, SampleFail DEF SampleInv
  <2>2. CASE ~Fail(NoPosition) /\ state' # "ERROR"
    <3>1. PICK d : Transmit(initial_position, d)
      BY <1>4, <2>2 DEF PrestreamSetpoint, StartCommand
    <3>2. /\ state \in Startup /\ state' \in Startup
          /\ UNCHANGED <<resample, replay_index, last_commanded_position, origin>>
      BY <1>4, <2>2 DEF PrestreamSetpoint, StartCommand, Turn
    <3> QED
      BY <3>1, <3>2, SampleStartup
  <2> QED
    BY <2>1, <2>2
<1>5. CASE WaitOffboardAck(rx)
  <2>1. \/ Fail(NoPosition) \/ Fail(InitialSetpoint)
        \/ Stay(InitialSetpoint) \/ RetryCommand("offboard", InitialSetpoint)
        \/ RequestArm
    BY <1>5 DEF WaitOffboardAck, AwaitAck
  <2>2. state \in Startup
    BY <1>5 DEF WaitOffboardAck, Turn
  <2> QED
    BY <2>1, <2>2, SampleFail, SampleAwait
<1>6. CASE WaitArmAck(rx)
  <2>1. \/ Fail(NoPosition) \/ Fail(InitialSetpoint)
        \/ Stay(InitialSetpoint) \/ RetryCommand("arm", InitialSetpoint)
        \/ StartReplay
    BY <1>6 DEF WaitArmAck, AwaitAck
  <2>2. state \in Startup
    BY <1>6 DEF WaitArmAck, Turn
  <2> QED
    BY <2>1, <2>2, SampleFail, SampleAwait
<1>7. CASE ReplayTrajectory(rx)
  <2>1. state = "REPLAY_TRAJECTORY" /\ IndInv
    BY <1>7 DEF ReplayTrajectory, Turn
  <2>2. CASE Fail(NoPosition)
    BY <2>2, SampleFail
  <2>3. CASE ReplayComplete
    <3>1. replay_index = Len(Trajectory) /\ replay_index > 0
      BY <2>1, <2>3, TrajectoryAssumption DEF ReplayComplete, IndInv, TypeOK
    <3> QED
      BY <1>7, <2>1, <2>3, <3>1
      DEF ReplayTrajectory, Transmit, progress, IndInv, SampleInv, Placed
  <2>4. CASE ~ReplayComplete /\ ~Fail(NoPosition)
    <3>1. /\ Transmit(resample[replay_index + 1], "none")
          /\ last_commanded_position' = resample[replay_index + 1]
          /\ replay_index' = replay_index + 1
          /\ UNCHANGED <<state, resample, origin>>
      BY <1>7, <2>4 DEF ReplayTrajectory
    <3>2. resample[replay_index + 1] # NoPosition /\ replay_index \in Nat
      BY <2>4, TrajectoryAssumption, MessageAssumption
      DEF IndInv, ReplayComplete, TypeOK
    <3>3. commanded' = resample[replay_index + 1]
      BY <3>1, <3>2 DEF Transmit
    <3> QED
      BY <2>1, <3>1, <3>2, <3>3 DEF IndInv, SampleInv, Placed
  <2> QED
    BY <2>2, <2>3, <2>4
<1>8. CASE HoldPosition(rx)
  <2>1. state = "HOLD_POSITION" /\ HeldPosition = commanded
    BY <1>8 DEF HoldPosition, HoldOrLand, Turn, HeldPosition, IndInv, SampleInv
  <2>2. CASE Fail(NoPosition)
    BY <2>2, SampleFail
  <2>3. CASE /\ state' = "COMMAND_LAND" /\ Transmit(NoPosition, "none")
             /\ UNCHANGED <<progress, send_age, disarm_age, origin>>
    BY <2>1, <2>3, SampleKept DEF Transmit, progress
  <2>4. CASE Stay(HeldPosition)
    BY <2>1, <2>4, SampleKept DEF Stay, Transmit, progress
  <2> QED
    BY <1>8, <2>2, <2>3, <2>4 DEF HoldPosition, HoldOrLand
<1>9. CASE CommandLand(rx)
  BY <1>9, SampleKept, SampleFail DEF CommandLand, StartCommand, Transmit, Turn
<1>10. CASE WaitLandAck(rx)
  <2>1. CASE \E p : Fail(p)
    BY <2>1, SampleFail
  <2>2. CASE ~ \E p : Fail(p)
    BY <1>10, <2>2, SampleKept
    DEF WaitLandAck, AwaitAck, AwaitDisarm, RetryCommand, Stay, Transmit, Turn,
        progress
  <2> QED
    BY <2>1, <2>2
<1>11. CASE WaitDisarmed(rx)
  BY <1>11, SampleKept, SampleFail
  DEF WaitDisarmed, Stay, Transmit, Turn, progress
<1>12. CASE LoseConnection(rx)
  BY <1>12, SampleFail DEF LoseConnection
<1> QED
  BY <1>1, <1>2, <1>3, <1>4, <1>5, <1>6, <1>7, <1>8, <1>9, <1>10, <1>11,
     <1>12 DEF Iterate

(* The commands each state has behind it, and their order. *)
LEMMA AttemptTurn ==
  ASSUME IndInv, NEW rx \in Received, Iterate(rx)
  PROVE  AttemptInv' /\ CommandOrder'
<1> USE DEF IndInv, TypeOK, AttemptInv, CommandOrder
<1>f. ASSUME NEW p, Fail(p) PROVE AttemptInv' /\ CommandOrder'
  BY <1>f DEF Fail, progress
<1>s. ASSUME NEW p, Stay(p) PROVE AttemptInv' /\ CommandOrder'
  BY <1>s DEF Stay, progress
<1>r. ASSUME NEW p, NEW c \in Commands, RetryCommand(c, p), attempts[c] > 0
      PROVE  AttemptInv' /\ CommandOrder'
  <2>1. CASE Fail(p)
    BY <2>1, <1>f
  <2>2. CASE /\ attempts' = NextAttempt(c)
             /\ UNCHANGED <<state, setpoint_count, replay_index>>
    <3>1. \A d \in Commands : /\ attempts[d] > 0 <=> attempts'[d] > 0
                              /\ attempts[d] = 0 <=> attempts'[d] = 0
      BY <1>r, <2>2 DEF NextAttempt
    <3> QED
      BY <2>2, <3>1
  <2> QED
    BY <1>r, <2>1, <2>2 DEF RetryCommand
<1>1. CASE Idle(rx)
  BY <1>1, <1>s DEF Idle
<1>2. CASE WaitHeartbeat(rx)
  BY <1>2 DEF WaitHeartbeat, Turn
<1>3. CASE WaitLocalPosition(rx)
  BY <1>3, <1>f, CountAssumption DEF WaitLocalPosition
<1>4. CASE PrestreamSetpoint(rx)
  <2>1. CASE Fail(NoPosition)
    BY <2>1, <1>f
  <2>2. CASE ~Fail(NoPosition)
    <3>1. /\ state = "PRESTREAM_SETPOINT" /\ replay_index' = replay_index
          /\ setpoint_count' = setpoint_count + 1
          /\ \/ state' = state /\ attempts' = attempts /\ ~PrestreamComplete
             \/ state' = "ERROR" /\ attempts' = attempts
             \/ /\ state' = "WAIT_OFFBOARD_ACK" /\ PrestreamComplete
                /\ attempts' = [attempts EXCEPT !["offboard"] = 1]
      BY <1>4, <2>2 DEF PrestreamSetpoint, StartCommand, Turn
    <3> QED
      BY <3>1, CountAssumption DEF PrestreamComplete
  <2> QED
    BY <2>1, <2>2
<1>5. CASE WaitOffboardAck(rx)
  <2>1. \/ Fail(NoPosition) \/ Fail(InitialSetpoint)
        \/ Stay(InitialSetpoint) \/ RetryCommand("offboard", InitialSetpoint)
        \/ RequestArm
    BY <1>5 DEF WaitOffboardAck, AwaitAck
  <2>2. state = "WAIT_OFFBOARD_ACK" /\ attempts["offboard"] > 0
    BY <1>5 DEF WaitOffboardAck, Turn
  <2>3. CASE RequestArm /\ ~Fail(InitialSetpoint)
    <3>1. /\ attempts' = [attempts EXCEPT !["arm"] = 1]
          /\ state' = "WAIT_ARM_ACK"
          /\ UNCHANGED <<setpoint_count, replay_index>>
      BY <2>3 DEF RequestArm, StartCommand
    <3> QED
      BY <2>2, <3>1
  <2> QED
    BY <2>1, <2>2, <2>3, <1>f, <1>s, <1>r
<1>6. CASE WaitArmAck(rx)
  <2>1. \/ Fail(NoPosition) \/ Fail(InitialSetpoint)
        \/ Stay(InitialSetpoint) \/ RetryCommand("arm", InitialSetpoint)
        \/ StartReplay
    BY <1>6 DEF WaitArmAck, AwaitAck
  <2>2. state = "WAIT_ARM_ACK" /\ attempts["arm"] > 0
    BY <1>6 DEF WaitArmAck, Turn
  <2>3. CASE StartReplay
    BY <2>2, <2>3 DEF StartReplay, progress
  <2> QED
    BY <2>1, <2>2, <2>3, <1>f, <1>s, <1>r
<1>7. CASE ReplayTrajectory(rx)
  BY <1>7, <1>f DEF ReplayTrajectory, Turn, progress
<1>8. CASE HoldPosition(rx)
  BY <1>8, <1>f, <1>s DEF HoldPosition, HoldOrLand, Turn, progress
<1>9. CASE CommandLand(rx)
  <2>1. CASE Fail(NoPosition)
    BY <2>1, <1>f
  <2>2. CASE ~Fail(NoPosition)
    <3>1. /\ state = "COMMAND_LAND" /\ state' = "WAIT_LAND_ACK"
          /\ attempts' = [attempts EXCEPT !["land"] = 1]
          /\ UNCHANGED <<setpoint_count, replay_index>>
      BY <1>9, <2>2 DEF CommandLand, StartCommand, Turn
    <3> QED
      BY <3>1 DEF SampleInv
  <2> QED
    BY <2>1, <2>2
<1>10. CASE WaitLandAck(rx)
  <2>1. \/ Fail(NoPosition) \/ Stay(NoPosition)
        \/ RetryCommand("land", NoPosition) \/ AwaitDisarm
    BY <1>10 DEF WaitLandAck, AwaitAck
  <2>2. state = "WAIT_LAND_ACK" /\ attempts["land"] > 0
    BY <1>10 DEF WaitLandAck, Turn
  <2>3. CASE AwaitDisarm
    BY <2>2, <2>3 DEF AwaitDisarm, progress
  <2> QED
    BY <2>1, <2>2, <2>3, <1>f, <1>s, <1>r
<1>11. CASE WaitDisarmed(rx)
  BY <1>11, <1>f, <1>s DEF WaitDisarmed, Turn, progress
<1>12. CASE LoseConnection(rx)
  BY <1>12, <1>f DEF LoseConnection
<1> QED
  BY <1>1, <1>2, <1>3, <1>4, <1>5, <1>6, <1>7, <1>8, <1>9, <1>10, <1>11,
     <1>12 DEF Iterate

-----------------------------------------------------------------------------
(* Time passing keeps the invariant: an age and the time to the deadline    *)
(* change by the same amount.                                              *)
LEMMA TickIndInv ==
  ASSUME IndInv, Tick
  PROVE  IndInv'
<1> USE DEF IndInv
<1>1. TypeOK'
  <2>1. /\ heartbeat_age' \in Nat /\ heard_age' \in Nat /\ poll_age' \in Nat
        /\ send_age' \in Nat /\ disarm_age' \in Nat
        /\ command_age' \in Nat /\ commanded_age' \in Nat
    BY DEF Tick, Older, Streamed, TypeOK
  <2>2. until_setpoint' \in -MaxLate..SetpointInterval
    BY TimingAssumption DEF Tick, MayWait, TypeOK
  <2>3. outbox' \in [setpoint : Positions, command : Commands \cup {"none"}]
    BY DEF Tick, Positions
  <2> QED
    BY <2>1, <2>2, <2>3 DEF Tick, TypeOK, progress
<1>2. ClockInv'
  BY TimingAssumption DEF Tick, Older, MayWait, ClockInv, TypeOK
<1>3. StreamInv'
  <2>1. state \in Streaming =>
          /\ commanded_age' = commanded_age + 1
          /\ until_setpoint' = until_setpoint - 1
    BY DEF Tick, Older, Streamed, Streaming, Active
  <2>2. UNCHANGED <<state, commanded>>
    BY DEF Tick
  <2> QED
    BY <2>1, <2>2, TimingAssumption DEF StreamInv, TypeOK, Streaming
<1>4. SampleInv'
  BY DEF Tick, SampleInv, Placed, progress
<1>5. SetpointsInVehicleFrame'
  BY DEF Tick, SetpointsInVehicleFrame, Placed
<1>6. AttemptInv' /\ CommandOrder'
  BY DEF Tick, AttemptInv, CommandOrder, progress
<1> QED
  BY <1>1, <1>2, <1>3, <1>4, <1>5, <1>6

(* A failure outside the handlers only ends the loop. *)
LEMMA FailureIndInv ==
  ASSUME IndInv, IOFailure
  PROVE  IndInv'
<1> USE DEF IndInv
<1>1. Fail(NoPosition)
      /\ UNCHANGED <<heartbeat_age, heard_age, until_setpoint, poll_age>>
  BY DEF IOFailure
<1>2. TypeOK'
  BY <1>1, FailTypes DEF TypeOK, TurnClocksOK, Positions
<1>3. ClockInv' /\ StreamInv' /\ SampleInv'
  BY <1>1, StreamFail, SampleFail DEF ClockInv, Fail
<1>4. SetpointsInVehicleFrame'
  BY <1>1, FrameTransmit DEF Fail
<1>5. AttemptInv' /\ CommandOrder'
  BY <1>1 DEF Fail, progress, AttemptInv, CommandOrder
<1> QED
  BY <1>2, <1>3, <1>4, <1>5

(* A stuttering step keeps the invariant. *)
LEMMA StutterIndInv ==
  ASSUME IndInv, UNCHANGED vars
  PROVE  IndInv'
<1> USE DEF IndInv, vars, progress, clocks, sent
<1>1. TypeOK' /\ ClockInv' /\ StreamInv'
  BY DEF TypeOK, ClockInv, StreamInv
<1>2. SampleInv' /\ SetpointsInVehicleFrame'
  BY DEF SampleInv, SetpointsInVehicleFrame, Placed
<1>3. AttemptInv' /\ CommandOrder'
  BY DEF AttemptInv, CommandOrder
<1> QED
  BY <1>1, <1>2, <1>3

(* IndInv is inductive. *)
LEMMA NextIndInv == IndInv /\ [Next]_vars => IndInv'
<1> SUFFICES ASSUME IndInv, [Next]_vars PROVE IndInv'
  OBVIOUS
<1>1. CASE \E rx \in Received : Iterate(rx)
  BY <1>1, TypeTurn, ClockTurn, StreamTurn, SampleTurn, FrameTurn, AttemptTurn
  DEF IndInv
<1>2. CASE IOFailure
  BY <1>2, FailureIndInv
<1>3. CASE Tick
  BY <1>3, TickIndInv
<1>4. CASE Stopped
  BY <1>4, StutterIndInv DEF Stopped
<1>5. CASE UNCHANGED vars
  BY <1>5, StutterIndInv
<1> QED
  BY <1>1, <1>2, <1>3, <1>4, <1>5 DEF Next

(* Every reachable state satisfies the inductive invariant. *)
THEOREM Invariance == Spec => []IndInv
<1> QED
  BY InitIndInv, NextIndInv, PTL DEF Spec

-----------------------------------------------------------------------------
(* The variables of main.c stay in their ranges: at most command_max_attempts *)
(* transmissions of a command, replay_index within the samples, the next     *)
(* deadline at most one interval ahead.                                      *)
THEOREM TypeCorrect == Spec => []TypeOK
<1>1. IndInv => TypeOK
  BY DEF IndInv
<1> QED
  BY <1>1, Invariance, PTL

(* The heartbeat monitor (main.c 174-182, 280-288) notices a silent link in  *)
(* bounded time for every choice of timeouts.                                *)
THEOREM ConnectionLossNoticed == Spec => []ConnectionLossDetected
<1>1. IndInv => ConnectionLossDetected
  BY TimingAssumption
  DEF IndInv, TypeOK, ClockInv, ConnectionLossDetected
<1> QED
  BY <1>1, Invariance, PTL

(* The retry check (main.c 472, 532, 682) bounds the wait for a lost         *)
(* acknowledgement for every choice of intervals.                            *)
THEOREM AckWaitIsBounded == Spec => []AckWaitBounded
<1>1. IndInv => AckWaitBounded
  BY TimingAssumption DEF IndInv, TypeOK, ClockInv, AckWaitBounded
<1> QED
  BY <1>1, Invariance, PTL

(* The setpoint stream that keeps PX4 in Offboard mode has no gap until      *)
(* landing is requested, for every interval and scheduling delay.            *)
THEOREM StreamIsContinuous == Spec => []StreamContinuity
<1>1. IndInv => StreamContinuity
  BY TimingAssumption DEF IndInv, TypeOK, StreamInv, StreamContinuity
<1> QED
  BY <1>1, Invariance, PTL

(* Every setpoint is a finite sample of the trajectory in the vehicle's      *)
(* frame, for every trajectory and every reported position.                  *)
THEOREM SetpointsPlaced == Spec => []SetpointsInVehicleFrame
<1>1. IndInv => SetpointsInVehicleFrame
  BY DEF IndInv
<1> QED
  BY <1>1, Invariance, PTL

(* The vehicle is held at, and lands from, the final sample of every         *)
(* trajectory.                                                               *)
THEOREM FinalSampleHeld == Spec => []HoldsFinalSample
<1>1. IndInv => HoldsFinalSample
  BY TrajectoryAssumption
  DEF IndInv, SampleInv, HoldsFinalSample, Samples
<1> QED
  BY <1>1, Invariance, PTL

(* Prestream, Offboard, Arm, replay, Land and completion come in this order. *)
THEOREM CommandsOrdered == Spec => []CommandOrder
<1>1. IndInv => CommandOrder
  BY DEF IndInv
<1> QED
  BY <1>1, Invariance, PTL

-----------------------------------------------------------------------------
(* Only the retry of an awaited command raises its count from above zero.   *)
LEMMA SpacedTurn ==
  ASSUME IndInv, NEW rx \in Received, Iterate(rx), NEW c \in Commands,
         attempts[c] > 0, attempts'[c] > attempts[c]
  PROVE  command_age >= RetryInterval
<1> USE DEF IndInv
<1>f. ASSUME NEW p, Fail(p) PROVE FALSE
  BY <1>f DEF Fail, progress, TypeOK
<1>s. ASSUME NEW p, Stay(p) PROVE FALSE
  BY <1>s DEF Stay, progress, TypeOK
<1>r. ASSUME state \in AwaitingAck, RetryDue PROVE command_age >= RetryInterval
  BY <1>r DEF ClockInv, RetryDue
<1>c. ASSUME NEW d \in Commands, NEW p, NEW next, StartCommand(d, p, next),
             attempts[d] = 0
      PROVE  FALSE
  BY <1>c DEF StartCommand, TypeOK
<1>k. attempts' # attempts
  BY DEF TypeOK
<1>1. ~Idle(rx) /\ ~WaitHeartbeat(rx) /\ ~WaitLocalPosition(rx)
  BY <1>f, <1>s, <1>k DEF Idle, WaitHeartbeat, WaitLocalPosition
<1>2. ~PrestreamSetpoint(rx)
  BY <1>f, <1>c, <1>k DEF PrestreamSetpoint, Turn, AttemptInv
<1>3. CASE WaitOffboardAck(rx)
  <2>1. ~RequestArm
    BY <1>3, <1>f, <1>c DEF WaitOffboardAck, Turn, RequestArm, AttemptInv
  <2> QED
    BY <1>3, <2>1, <1>f, <1>s, <1>r DEF WaitOffboardAck, AwaitAck, Turn
<1>4. CASE WaitArmAck(rx)
  <2>1. ~StartReplay
    BY <1>k DEF StartReplay, progress
  <2> QED
    BY <1>4, <2>1, <1>f, <1>s, <1>r DEF WaitArmAck, AwaitAck, Turn
<1>5. ~ReplayTrajectory(rx) /\ ~HoldPosition(rx)
  BY <1>f, <1>s, <1>k DEF ReplayTrajectory, HoldPosition, HoldOrLand, progress
<1>6. ~CommandLand(rx)
  BY <1>f, <1>c DEF CommandLand, Turn, AttemptInv
<1>7. CASE WaitLandAck(rx)
  <2>1. ~AwaitDisarm
    BY <1>k DEF AwaitDisarm, progress
  <2> QED
    BY <1>7, <2>1, <1>f, <1>s, <1>r DEF WaitLandAck, AwaitAck, Turn
<1>8. ~WaitDisarmed(rx) /\ ~LoseConnection(rx)
  BY <1>f, <1>s, <1>k DEF WaitDisarmed, LoseConnection, progress
<1> QED
  BY <1>1, <1>2, <1>3, <1>4, <1>5, <1>6, <1>7, <1>8 DEF Iterate

(* No command is repeated within a retry interval (main.c 472-499, 532-557, *)
(* 680-706), for every choice of the interval.                              *)
THEOREM RetriesSpaced == Spec => RetrySpacing
<1> DEFINE Spaced == \A c \in Commands :
                       attempts[c] > 0 /\ attempts'[c] > attempts[c]
                         => command_age >= RetryInterval
<1>1. IndInv /\ [Next]_vars => [Spaced]_vars
  <2> SUFFICES ASSUME IndInv, Next PROVE Spaced \/ UNCHANGED vars
    OBVIOUS
  <2>1. CASE \E rx \in Received : Iterate(rx)
    BY <2>1, SpacedTurn
  <2>2. CASE IOFailure \/ Tick
    <3>1. attempts' = attempts
      BY <2>2 DEF IOFailure, Fail, Tick, progress
    <3> QED
      BY <3>1 DEF IndInv, TypeOK
  <2>3. CASE Stopped
    BY <2>3 DEF Stopped
  <2> QED
    BY <2>1, <2>2, <2>3 DEF Next
<1> QED
  BY <1>1, Invariance, PTL DEF Spec, RetrySpacing

(* However late a turn is, the missed deadlines bring no burst of setpoints *)
(* (main.c 737-743), for every interval and every delay.                    *)
THEOREM NoSetpointBurst == Spec => NoBurst
<1> DEFINE Apart == outbox'.setpoint # NoPosition
                      => commanded = NoPosition \/ commanded_age > 0
<1>1. IndInv /\ [Next]_vars => [Apart]_vars
  <2> SUFFICES ASSUME IndInv, Next PROVE Apart \/ UNCHANGED vars
    OBVIOUS
  <2>1. CASE \E rx \in Received : Iterate(rx)
    <3>1. PICK p, c : Transmit(p, c) /\ NextSetpoint(p)
      BY <2>1, TurnTransmits
    <3>2. outbox'.setpoint = p
      BY <3>1 DEF Transmit
    <3>3. p # NoPosition /\ commanded # NoPosition => commanded_age > 0
      BY <3>1 DEF NextSetpoint, SetpointDue, IndInv, StreamInv, TypeOK
    <3> QED
      BY <3>2, <3>3
  <2>2. CASE IOFailure \/ Tick
    <3>1. outbox'.setpoint = NoPosition
      BY <2>2 DEF IOFailure, Fail, Transmit, Tick
    <3> QED
      BY <3>1
  <2>3. CASE Stopped
    BY <2>3 DEF Stopped
  <2> QED
    BY <2>1, <2>2, <2>3 DEF Next
<1> QED
  BY <1>1, Invariance, PTL DEF Spec, NoBurst

(* Consecutive setpoints are the same sample or neighbours, across all      *)
(* changes of state and for every trajectory.                               *)
THEOREM NoSetpointJumps == Spec => NoSetpointJump
<1> DEFINE Near == commanded # NoPosition /\ commanded' # commanded =>
                     \E i \in 1..(Len(Trajectory) - 1) :
                       commanded = Placed(i) /\ commanded' = Placed(i + 1)
<1>1. IndInv /\ [Next]_vars => [Near]_vars
  <2> SUFFICES ASSUME IndInv, Next, commanded # NoPosition,
                      commanded' # commanded
               PROVE  Near
    BY DEF vars, sent
  <2>1. CASE \E rx \in Received : Iterate(rx)
    <3>1. PICK p, c : Transmit(p, c) /\ NextSetpoint(p)
      BY <2>1, TurnTransmits
    <3>2. p # NoPosition /\ commanded' = p
      BY <3>1 DEF Transmit
    <3>3. PICK i \in 1..(Len(Trajectory) - 1) :
            commanded = resample[i] /\ p = resample[i + 1]
      BY <3>1, <3>2 DEF NextSetpoint
    <3>4. i \in Samples /\ i + 1 \in Samples
      BY TrajectoryAssumption DEF Samples
    <3>5. resample[i] = Placed(i) /\ resample[i + 1] = Placed(i + 1)
      BY <3>1, <3>2, <3>4 DEF NextSetpoint, IndInv, SampleInv
    <3> QED
      BY <3>2, <3>3, <3>5
  <2>2. CASE IOFailure \/ Tick \/ Stopped
    BY <2>2 DEF IOFailure, Fail, Transmit, Tick, Stopped, vars, sent
  <2> QED
    BY <2>1, <2>2 DEF Next
<1> QED
  BY <1>1, Invariance, PTL DEF Spec, NoSetpointJump
-----------------------------------------------------------------------------
(* ControlLoop implements Mission: the initial states map to initial states, *)
(* and every turn of the loop maps to one step of the mission or to a       *)
(* stutter.  What the mission's guards need is in IndInv.                   *)

Mapped == <<Phase, origin, commanded, setpoint_count, replay_index, Requested>>

Step == [M!Next]_Mapped

(* The mission's phase in every state of the loop *)
LEMMA PhaseOfState ==
  /\ state \in Unplaced => Phase = "preparing"
  /\ state \in Startup => Phase = "startup"
  /\ state = "REPLAY_TRAJECTORY" => Phase = "flying"
  /\ state = "HOLD_POSITION" => Phase = "holding"
  /\ state \in Landing => Phase = "landing"
  /\ state = "COMPLETE" => Phase = "done"
  /\ state = "ERROR" => Phase = "failed"
  BY DEF Phase

LEMMA NextPhaseOfState ==
  /\ state' \in Unplaced => Phase' = "preparing"
  /\ state' \in Startup => Phase' = "startup"
  /\ state' = "REPLAY_TRAJECTORY" => Phase' = "flying"
  /\ state' = "HOLD_POSITION" => Phase' = "holding"
  /\ state' \in Landing => Phase' = "landing"
  /\ state' = "COMPLETE" => Phase' = "done"
  /\ state' = "ERROR" => Phase' = "failed"
  BY DEF Phase

(* What was requested before the states in which a command is awaited *)
LEMMA RequestedInState ==
  ASSUME IndInv
  PROVE  /\ state \in Unplaced \cup {"PRESTREAM_SETPOINT"} => Requested = {}
         /\ state = "WAIT_OFFBOARD_ACK" => Requested = {"offboard"}
         /\ state \in {"WAIT_ARM_ACK", "REPLAY_TRAJECTORY", "HOLD_POSITION",
                       "COMMAND_LAND"} => Requested = {"offboard", "arm"}
         /\ state = "WAIT_DISARMED" => "land" \in Requested
<1> \A c \in Commands : attempts[c] \in Nat
  BY DEF IndInv, TypeOK
<1> QED
  BY DEF IndInv, AttemptInv, Requested

(* Transmitting a command for the first time adds it, repeating it adds    *)
(* nothing.                                                                *)
LEMMA RequestedFirst ==
  ASSUME IndInv, NEW c \in Commands, attempts' = [attempts EXCEPT ![c] = 1]
  PROVE  Requested' = Requested \cup {c}
  BY DEF IndInv, TypeOK, Requested

LEMMA RequestedAgain ==
  ASSUME IndInv, NEW c \in Commands, attempts[c] > 0,
         attempts' = NextAttempt(c)
  PROVE  Requested' = Requested
  BY DEF IndInv, TypeOK, Requested, NextAttempt

LEMMA RequestedSame ==
  ASSUME UNCHANGED attempts
  PROVE  Requested' = Requested
  BY DEF Requested

(* A turn that stays where it is and sends nothing new *)
LEMMA Stutters ==
  ASSUME UNCHANGED <<origin, commanded, setpoint_count, replay_index, attempts>>,
         Phase' = Phase
  PROVE  Step
  BY RequestedSame DEF Step, Mapped

(* The loop ends in ERROR, having sent setpoint p or none. *)
LEMMA FailStep ==
  ASSUME IndInv, state \notin Terminal, NEW p, Fail(p),
         p # NoPosition => state \in Startup /\ p = Placed(1)
  PROVE  Step
<1>1. Phase' = "failed" /\ Phase \notin {"done", "failed"}
  BY PhaseOfState, NextPhaseOfState DEF Fail, IndInv, TypeOK
<1>2. UNCHANGED <<origin, setpoint_count, replay_index, attempts>>
  BY DEF Fail, progress
<1>3. commanded' = IF p = NoPosition THEN commanded ELSE p
  BY DEF Fail, Transmit
<1>4. IF Phase = "startup" THEN M!StreamFirst
                           ELSE UNCHANGED <<commanded, setpoint_count>>
  BY <1>2, <1>3, PhaseOfState DEF M!StreamFirst, M!Sample, Placed
<1> QED
  BY <1>1, <1>2, <1>4, RequestedSame DEF Step, M!Next, M!Abort

(* A turn of the startup that leaves the state alone, with setpoint p *)
LEMMA StayStep ==
  ASSUME IndInv, NEW p, Stay(p),
         \/ p = NoPosition \/ p = commanded
         \/ state \in Startup /\ p = Placed(1)
  PROVE  Step
<1>1. /\ UNCHANGED <<state, origin, setpoint_count, replay_index, attempts>>
      /\ commanded' = IF p = NoPosition THEN commanded ELSE p
  BY DEF Stay, progress, Transmit
<1>2. Phase' = Phase
  BY <1>1 DEF Phase
<1>3. CASE p = NoPosition \/ p = commanded
  BY <1>1, <1>2, <1>3, Stutters
<1>4. CASE state \in Startup /\ p = Placed(1)
  BY <1>1, <1>2, <1>4, RequestedSame, PhaseOfState, MessageAssumption
  DEF Step, M!Next, M!GetReady, M!StreamFirst, M!RequestNext, M!Sample, Placed
<1> QED
  BY <1>3, <1>4

(* The setpoint of the startup is the first sample where the vehicle is. *)
LEMMA FirstPlaced ==
  ASSUME IndInv, state \in Startup
  PROVE  /\ initial_position = Placed(1)
         /\ InitialSetpoint \in {NoPosition, Placed(1)}
  BY TrajectoryAssumption
  DEF IndInv, SampleInv, initial_position, InitialSetpoint, Samples

(* Repeating a command is a stutter, but for the setpoint sent before it. *)
LEMMA RetryStep ==
  ASSUME IndInv, NEW c \in Commands, NEW p, RetryCommand(c, p),
         state \in AwaitingAck, attempts[c] > 0,
         p # NoPosition => state \in Startup /\ p = Placed(1)
  PROVE  Step
<1>1. CASE Fail(p)
  BY <1>1, FailStep
<1>2. CASE ~Fail(p)
  <2>1. /\ UNCHANGED <<state, origin, setpoint_count, replay_index>>
        /\ commanded' = IF p = NoPosition THEN commanded ELSE p
        /\ attempts' = NextAttempt(c)
    BY <1>2 DEF RetryCommand, Transmit
  <2>2. Phase' = Phase /\ Requested' = Requested
    BY <2>1, RequestedAgain DEF Phase
  <2> QED
    BY <2>1, <2>2, PhaseOfState
    DEF Step, Mapped, M!Next, M!GetReady, M!StreamFirst, M!RequestNext,
        M!Sample, Placed
<1> QED
  BY <1>1, <1>2

-----------------------------------------------------------------------------
(* Every turn of the loop is one step of the mission or none. *)
LEMMA TurnStep ==
  ASSUME IndInv, NEW rx \in Received, Iterate(rx)
  PROVE  Step
<1>n. NoPosition \notin Int
  BY MessageAssumption
<1>f. ASSUME NEW s \in States \ Terminal, Turn(s, rx), Fail(NoPosition)
      PROVE  Step
  BY <1>f, FailStep DEF Turn
<1>1. CASE Idle(rx)
  BY <1>1, StayStep DEF Idle
<1>2. CASE WaitHeartbeat(rx)
  <2>1. /\ state \in Unplaced /\ state' \in Unplaced
        /\ UNCHANGED <<origin, commanded, setpoint_count, replay_index,
                       attempts>>
    BY <1>2 DEF WaitHeartbeat, Turn, Transmit
  <2> QED
    BY <2>1, PhaseOfState, NextPhaseOfState, Stutters
<1>3. CASE WaitLocalPosition(rx)
  <2>1. state = "WAIT_LOCAL_POSITION" /\ rx.position \in Origins
    BY <1>3, ReceivedTypes DEF WaitLocalPosition
  <2>2. CASE Fail(NoPosition)
    BY <2>1, <2>2, FailStep
  <2>3. CASE ~Fail(NoPosition)
    <3>1. /\ CanApplyOrigin(resample, rx.position)
          /\ origin' = rx.position /\ state' = "PRESTREAM_SETPOINT"
          /\ UNCHANGED <<commanded, setpoint_count, replay_index, attempts>>
      BY <1>3, <2>3 DEF WaitLocalPosition, Transmit
    <3>2. \A i \in DOMAIN Trajectory : IsFinite(Trajectory[i] + rx.position)
      BY <2>1, <3>1, TrajectoryAssumption
      DEF CanApplyOrigin, IndInv, SampleInv
    <3>3. M!Place(rx.position)
      BY <2>1, <3>1, <3>2, PhaseOfState, NextPhaseOfState, RequestedSame
      DEF M!Place, IsFinite
    <3> QED
      BY <2>1, <3>3 DEF Step, M!Next
  <2> QED
    BY <2>2, <2>3
<1>4. CASE PrestreamSetpoint(rx)
  <2>1. Turn("PRESTREAM_SETPOINT", rx) /\ state = "PRESTREAM_SETPOINT"
    BY <1>4 DEF PrestreamSetpoint, Turn
  <2>2. CASE Fail(NoPosition)
    BY <2>1, <2>2, <1>f
  <2>3. CASE ~Fail(NoPosition)
    <3>1. /\ initial_position = Placed(1) /\ initial_position \in Int
          /\ Requested = {} /\ setpoint_count \in 0..(PrestreamCount - 1)
      BY <2>1, FirstPlaced, InitialSetpointType, RequestedInState,
         CountAssumption
      DEF IndInv, AttemptInv, TypeOK
    <3>2. /\ setpoint_count' = setpoint_count + 1
          /\ UNCHANGED <<origin, replay_index>>
          /\ \E c : Transmit(initial_position, c)
          /\ \/ state' = state /\ attempts' = attempts
             \/ state' = "ERROR" /\ attempts' = attempts
             \/ /\ state' = "WAIT_OFFBOARD_ACK" /\ PrestreamComplete
                /\ attempts' = [attempts EXCEPT !["offboard"] = 1]
      BY <1>4, <2>3 DEF PrestreamSetpoint, StartCommand, Turn
    <3>3. commanded' = M!Sample(1)
      BY <3>1, <3>2, <1>n DEF Transmit, Placed, M!Sample
    <3>4. M!StreamFirst
      BY <3>2, <3>3 DEF M!StreamFirst
    <3>5. CASE state' = state /\ attempts' = attempts
      BY <2>1, <3>2, <3>4, <3>5, PhaseOfState, NextPhaseOfState, RequestedSame
      DEF Step, M!Next, M!GetReady, M!RequestNext
    <3>6. CASE state' = "ERROR" /\ attempts' = attempts
      BY <2>1, <3>2, <3>4, <3>6, PhaseOfState, NextPhaseOfState, RequestedSame
      DEF Step, M!Next, M!Abort
    <3>7. CASE /\ state' = "WAIT_OFFBOARD_ACK" /\ PrestreamComplete
               /\ attempts' = [attempts EXCEPT !["offboard"] = 1]
      <4>1. setpoint_count' = PrestreamCount
        BY <3>1, <3>2, <3>7, CountAssumption DEF PrestreamComplete
      <4>2. M!RequestNext
        BY <3>1, <3>7, <4>1, RequestedFirst DEF M!RequestNext
      <4> QED
        BY <2>1, <3>2, <3>4, <3>7, <4>2, PhaseOfState, NextPhaseOfState
        DEF Step, M!Next, M!GetReady
    <3> QED
      BY <3>2, <3>5, <3>6, <3>7
  <2> QED
    BY <2>2, <2>3
<1>5. CASE WaitOffboardAck(rx)
  <2>1. \/ Fail(NoPosition) \/ Fail(InitialSetpoint)
        \/ Stay(InitialSetpoint) \/ RetryCommand("offboard", InitialSetpoint)
        \/ RequestArm
    BY <1>5 DEF WaitOffboardAck, AwaitAck
  <2>2. state = "WAIT_OFFBOARD_ACK" /\ attempts["offboard"] > 0
    BY <1>5 DEF WaitOffboardAck, Turn, IndInv, AttemptInv
  <2>3. InitialSetpoint \in {NoPosition, Placed(1)}
    BY <2>2, FirstPlaced
  <2>4. CASE RequestArm /\ ~Fail(InitialSetpoint)
    <3>1. /\ attempts' = [attempts EXCEPT !["arm"] = 1]
          /\ state' = "WAIT_ARM_ACK"
          /\ Transmit(InitialSetpoint, "arm")
          /\ UNCHANGED <<origin, setpoint_count, replay_index>>
      BY <2>4 DEF RequestArm, StartCommand
    <3>2. M!StreamFirst
      BY <2>3, <3>1 DEF M!StreamFirst, M!Sample, Placed, Transmit
    <3>3. M!RequestNext
      BY <2>2, <3>1, RequestedFirst, RequestedInState DEF M!RequestNext
    <3> QED
      BY <2>2, <3>1, <3>2, <3>3, PhaseOfState, NextPhaseOfState
      DEF Step, M!Next, M!GetReady
  <2> QED
    BY <2>1, <2>2, <2>3, <2>4, FailStep, StayStep, RetryStep
<1>6. CASE WaitArmAck(rx)
  <2>1. \/ Fail(NoPosition) \/ Fail(InitialSetpoint)
        \/ Stay(InitialSetpoint) \/ RetryCommand("arm", InitialSetpoint)
        \/ StartReplay
    BY <1>6 DEF WaitArmAck, AwaitAck
  <2>2. state = "WAIT_ARM_ACK" /\ attempts["arm"] > 0
    BY <1>6 DEF WaitArmAck, Turn, IndInv, AttemptInv
  <2>3. InitialSetpoint \in {NoPosition, Placed(1)}
    BY <2>2, FirstPlaced
  <2>4. CASE StartReplay
    <3>1. /\ state' = "REPLAY_TRAJECTORY" /\ Transmit(InitialSetpoint, "none")
          /\ UNCHANGED <<origin, setpoint_count, replay_index, attempts>>
      BY <2>4 DEF StartReplay, progress
    <3>2. M!StreamFirst
      BY <2>3, <3>1 DEF M!StreamFirst, M!Sample, Placed, Transmit
    <3> QED
      BY <2>2, <3>1, <3>2, PhaseOfState, NextPhaseOfState, RequestedSame,
         RequestedInState
      DEF Step, M!Next, M!GetReady, M!RequestNext
  <2> QED
    BY <2>1, <2>2, <2>3, <2>4, FailStep, StayStep, RetryStep
<1>7. CASE ReplayTrajectory(rx)
  <2>1. Turn("REPLAY_TRAJECTORY", rx) /\ state = "REPLAY_TRAJECTORY"
    BY <1>7 DEF ReplayTrajectory, Turn
  <2>2. CASE Fail(NoPosition)
    BY <2>1, <2>2, <1>f
  <2>3. CASE ReplayComplete
    <3>1. /\ state' = "HOLD_POSITION" /\ Transmit(NoPosition, "none")
          /\ UNCHANGED <<origin, setpoint_count, replay_index, attempts>>
          /\ replay_index = Len(Trajectory)
      BY <1>7, <2>3, TrajectoryAssumption
      DEF ReplayTrajectory, progress, ReplayComplete, IndInv, TypeOK
    <3> QED
      BY <2>1, <3>1, PhaseOfState, NextPhaseOfState, RequestedSame
      DEF Step, M!Next, M!Hold, Transmit
  <2>4. CASE ~ReplayComplete /\ ~Fail(NoPosition)
    <3> DEFINE p == resample[replay_index + 1]
    <3>1. /\ Transmit(p, "none") /\ replay_index' = replay_index + 1
          /\ UNCHANGED <<state, origin, setpoint_count, attempts>>
      BY <1>7, <2>4 DEF ReplayTrajectory
    <3>2. /\ replay_index \in Nat /\ replay_index < Len(Trajectory)
          /\ p = Placed(replay_index + 1) /\ p \in Int
      BY <2>1, <2>4, TrajectoryAssumption
      DEF ReplayComplete, IndInv, TypeOK, SampleInv, Samples
    <3>3. commanded' = M!Sample(replay_index + 1)
      BY <3>1, <3>2, <1>n DEF Transmit, Placed, M!Sample
    <3>4. M!FlySample
      BY <2>1, <3>1, <3>2, <3>3, PhaseOfState, NextPhaseOfState, RequestedSame
      DEF M!FlySample
    <3> QED
      BY <3>4 DEF Step, M!Next
  <2> QED
    BY <2>2, <2>3, <2>4
<1>8. CASE HoldPosition(rx)
  <2>1. Turn("HOLD_POSITION", rx) /\ state = "HOLD_POSITION"
        /\ last_commanded_position = commanded
    BY <1>8 DEF HoldPosition, HoldOrLand, Turn, IndInv, SampleInv
  <2>2. \/ /\ state' = "COMMAND_LAND" /\ Transmit(NoPosition, "none")
           /\ UNCHANGED <<progress, origin>>
        \/ Stay(commanded) \/ Fail(NoPosition)
    BY <1>8, <2>1 DEF HoldPosition, HoldOrLand, HeldPosition
  <2>3. CASE /\ state' = "COMMAND_LAND" /\ Transmit(NoPosition, "none")
             /\ UNCHANGED <<progress, origin>>
    BY <2>1, <2>3, PhaseOfState, NextPhaseOfState, RequestedSame
    DEF Step, M!Next, M!StartLanding, Transmit, progress
  <2> QED
    BY <2>1, <2>2, <2>3, <1>f, StayStep
<1>9. CASE CommandLand(rx)
  <2>1. Turn("COMMAND_LAND", rx) /\ state = "COMMAND_LAND"
    BY <1>9 DEF CommandLand, Turn
  <2>2. CASE Fail(NoPosition)
    BY <2>1, <2>2, <1>f
  <2>3. CASE ~Fail(NoPosition)
    <3>1. /\ state' = "WAIT_LAND_ACK" /\ Transmit(NoPosition, "land")
          /\ attempts' = [attempts EXCEPT !["land"] = 1]
          /\ UNCHANGED <<origin, setpoint_count, replay_index>>
      BY <1>9, <2>3 DEF CommandLand, StartCommand
    <3> QED
      BY <2>1, <3>1, PhaseOfState, NextPhaseOfState, RequestedFirst
      DEF Step, M!Next, M!RequestLand, Transmit
  <2> QED
    BY <2>2, <2>3
<1>10. CASE WaitLandAck(rx)
  <2>1. \/ Fail(NoPosition) \/ Stay(NoPosition)
        \/ RetryCommand("land", NoPosition) \/ AwaitDisarm
    BY <1>10 DEF WaitLandAck, AwaitAck
  <2>2. state = "WAIT_LAND_ACK" /\ attempts["land"] > 0
    BY <1>10 DEF WaitLandAck, Turn, IndInv, AttemptInv
  <2>3. CASE AwaitDisarm
    <3>1. /\ state' = "WAIT_DISARMED"
          /\ UNCHANGED <<origin, commanded, setpoint_count, replay_index,
                         attempts>>
      BY <2>3 DEF AwaitDisarm, progress, Transmit
    <3> QED
      BY <2>2, <3>1, PhaseOfState, NextPhaseOfState, Stutters
  <2> QED
    BY <2>1, <2>2, <2>3, FailStep, StayStep, RetryStep
<1>11. CASE WaitDisarmed(rx)
  <2>1. Turn("WAIT_DISARMED", rx) /\ state = "WAIT_DISARMED"
    BY <1>11 DEF WaitDisarmed, Turn
  <2>2. \/ /\ state' = "COMPLETE" /\ Transmit(NoPosition, "none")
           /\ UNCHANGED <<progress, origin>>
        \/ Stay(NoPosition) \/ Fail(NoPosition)
    BY <1>11 DEF WaitDisarmed
  <2>3. CASE /\ state' = "COMPLETE" /\ Transmit(NoPosition, "none")
             /\ UNCHANGED <<progress, origin>>
    BY <2>1, <2>3, PhaseOfState, NextPhaseOfState, RequestedSame,
       RequestedInState
    DEF Step, M!Next, M!Finish, Transmit, progress
  <2> QED
    BY <2>1, <2>2, <2>3, <1>f, StayStep
<1>12. CASE LoseConnection(rx)
  BY <1>12, FailStep DEF LoseConnection, ConnectionLost
<1> QED
  BY <1>1, <1>2, <1>3, <1>4, <1>5, <1>6, <1>7, <1>8, <1>9, <1>10, <1>11,
     <1>12 DEF Iterate

(* The loop implements the mission: from the initial state on, every step   *)
(* of every behaviour is a step of Mission or invisible in it.             *)
THEOREM MissionImplemented == Spec => ImplementsMission
<1>1. Init => M!Init
  BY PhaseOfState DEF Init, M!Init, Requested
<1>2. IndInv /\ [Next]_vars => Step
  <2> SUFFICES ASSUME IndInv, [Next]_vars PROVE Step
    OBVIOUS
  <2>1. CASE \E rx \in Received : Iterate(rx)
    BY <2>1, TurnStep
  <2>2. CASE IOFailure
    BY <2>2, FailStep DEF IOFailure
  <2>3. CASE Tick
    <3>1. UNCHANGED <<state, origin, commanded, setpoint_count, replay_index,
                      attempts>>
      BY <2>3 DEF Tick, progress
    <3>2. Phase' = Phase
      BY <3>1 DEF Phase
    <3> QED
      BY <3>1, <3>2, Stutters
  <2>4. CASE Stopped \/ UNCHANGED vars
    <3>1. UNCHANGED <<state, origin, commanded, setpoint_count, replay_index,
                      attempts>>
      BY <2>4 DEF Stopped, vars, progress, sent
    <3>2. Phase' = Phase
      BY <3>1 DEF Phase
    <3> QED
      BY <3>1, <3>2, Stutters
  <2> QED
    BY <2>1, <2>2, <2>3, <2>4 DEF Next
<1>3. Step => [M!Next]_(M!mission)
  BY DEF Step, Mapped, M!mission
<1> QED
  BY <1>1, <1>2, <1>3, Invariance, PTL DEF Spec, ImplementsMission, M!Spec
=============================================================================
