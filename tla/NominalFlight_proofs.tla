------------------------- MODULE NominalFlight_proofs -------------------------
(***************************************************************************)
(* No timeout and no last attempt ends a flight of NominalFlight, for all  *)
(* intervals, response times and numbers of attempts that satisfy          *)
(* NominalAssumption.                                                      *)
(***************************************************************************)
EXTENDS NominalFlight, ReplaySession_proofs

(* What fits into m is counted by the quotient. *)
LEMMA QuotientBound ==
  ASSUME NEW k \in Nat, NEW m \in Nat, NEW d \in Nat \ {0}, k * d <= m
  PROVE  m \div d \in Nat /\ k <= m \div d
<1> DEFINE q == m \div d
           r == m % d
<1>1. q \in Nat /\ r \in 0..(d - 1) /\ m = d * q + r
  OBVIOUS
<1> HIDE DEF q, r
<1>2. SUFFICES ASSUME k >= q + 1 PROVE FALSE
  BY <1>1 DEF q
<1>3. k * d >= (q + 1) * d
  BY <1>1, <1>2
<1>4. (q + 1) * d = d * q + d
  BY <1>1
<1> QED
  BY <1>1, <1>3, <1>4

(* A command repeated until it is answered leaves no more copies behind     *)
(* than Backlog says of the next one.                                      *)
LEMMA Backlogs ==
  /\ Backlog["offboard"] = 0
  /\ \A c \in Commands : Backlog[c] \in Nat
  /\ \A n \in Nat : n * RetryInterval <= (Backlog["offboard"] + 1) * ResponseTime
                      => n <= Backlog["arm"]
  /\ \A n \in Nat : n * RetryInterval <= (Backlog["arm"] + 1) * ResponseTime
                      => n <= Backlog["land"]
<1>1. ResponseTime \in Nat /\ RetryInterval \in Nat \ {0}
  BY NominalAssumption, TimingAssumption
<1>2. \A m \in Nat : m * ResponseTime \in Nat
  BY <1>1
<1>3. ASSUME NEW m \in Nat
      PROVE  /\ RepeatsDuring(m) \in Nat
             /\ \A n \in Nat : n * RetryInterval <= m * ResponseTime
                                => n <= RepeatsDuring(m)
  <2>1. m * ResponseTime \in Nat
    BY <1>2
  <2>2. 0 * RetryInterval <= m * ResponseTime
    BY <1>1, <2>1
  <2> QED
    BY <1>1, <2>1, <2>2, QuotientBound DEF RepeatsDuring
<1>4. /\ Backlog["offboard"] = 0
      /\ Backlog["arm"] = RepeatsDuring(1)
      /\ Backlog["land"] = RepeatsDuring(RepeatsDuring(1) + 1)
  BY AwaitedStates DEF Backlog
<1>5. RepeatsDuring(1) \in Nat /\ RepeatsDuring(1) + 1 \in Nat
  BY <1>3
<1>6. \A c \in Commands : Backlog[c] \in Nat
  BY <1>3, <1>4, <1>5, AwaitedStates
<1>7. 0 + 1 = 1
  OBVIOUS
<1> QED
  BY <1>3, <1>4, <1>5, <1>6, <1>7

-----------------------------------------------------------------------------
(* On a perfect link a turn fails for one of these reasons only. *)
GivesUp(rx, c) ==
  /\ state = Awaited[c]
  /\ \/ Acknowledges(rx, c) /\ ~rx.ack.accepted
     \/ ~Acknowledges(rx, c) /\ RetryDue /\ AttemptsUsedUp(c)

Reason(rx) ==
  \/ ConnectionLost(rx)
  \/ \E c \in Commands : GivesUp(rx, c)
  \/ state = "WAIT_DISARMED" /\ DisarmTimedOut(rx)

LEMMA PositionsFinite ==
  ASSUME IndInv
  PROVE  /\ state \in Startup => IsFinite(initial_position)
         /\ state = "REPLAY_TRAJECTORY" /\ ~ReplayComplete
              => IsFinite(resample[replay_index + 1])
         /\ state = "HOLD_POSITION" =>
              /\ last_commanded_position # NoPosition
              /\ IsFinite(HeldPosition)
<1> USE DEF IndInv, SampleInv, Active, Streaming, Startup, Replayed
<1>1. 1 \in Samples /\ Len(Trajectory) \in Samples
  BY TrajectoryAssumption DEF Samples
<1>2. state \in Startup => IsFinite(initial_position)
  BY <1>1 DEF initial_position
<1>3. state = "REPLAY_TRAJECTORY" /\ ~ReplayComplete
        => IsFinite(resample[replay_index + 1])
  BY DEF Samples, ReplayComplete, TypeOK
<1>4. state = "HOLD_POSITION" =>
        last_commanded_position = resample[Len(Trajectory)]
  OBVIOUS
<1>5. state = "HOLD_POSITION" =>
        IsFinite(resample[Len(Trajectory)]) /\ resample[Len(Trajectory)] \in Int
  BY <1>1 DEF TypeOK, Samples
<1>6. state = "HOLD_POSITION" =>
        last_commanded_position # NoPosition /\ IsFinite(HeldPosition)
  BY <1>4, <1>5, MessageAssumption DEF HeldPosition
<1> QED
  BY <1>2, <1>3, <1>6

(* The awaited command has been sent, and not too often. *)
LEMMA SentBefore ==
  ASSUME IndInv, NEW c \in Commands, state = Awaited[c]
  PROVE  /\ attempts[c] \in Nat \ {0} /\ attempts[c] <= MaxAttempts
         /\ attempts \in [Commands -> Nat] /\ send_age \in Nat
<1>1. /\ attempts \in [Commands -> Nat] /\ send_age \in Nat
      /\ attempts[c] \in Nat /\ attempts[c] <= MaxAttempts
  BY DEF IndInv, TypeOK
<1>2. attempts[c] > 0
  <2>1. CASE c = "offboard"
    <3>1. state = "WAIT_OFFBOARD_ACK"
      BY <2>1, AwaitedStates
    <3> QED
      BY <2>1, <3>1 DEF IndInv, AttemptInv
  <2>2. CASE c = "arm"
    <3>1. state = "WAIT_ARM_ACK"
      BY <2>2, AwaitedStates
    <3> QED
      BY <2>2, <3>1 DEF IndInv, AttemptInv
  <2>3. CASE c = "land"
    <3>1. state = "WAIT_LAND_ACK"
      BY <2>3, AwaitedStates
    <3> QED
      BY <2>3, <3>1 DEF IndInv, AttemptInv
  <2> QED
    BY <2>1, <2>2, <2>3, AwaitedStates
<1> QED
  BY <1>1, <1>2

LEMMA WhyError ==
  ASSUME IndInv, NEW rx \in Received, Iterate(rx), state' = "ERROR"
  PROVE  Reason(rx)
<1> USE AwaitedStates DEF Reason
<1>1. ~Idle(rx)
  BY DEF Idle, Turn, Stay
<1>2. ~WaitHeartbeat(rx)
  BY DEF WaitHeartbeat
<1>3. ~WaitLocalPosition(rx)
  <2> SUFFICES ASSUME WaitLocalPosition(rx) PROVE FALSE
    OBVIOUS
  <2>1. resample = Trajectory /\ rx.position \in Origins
    BY ReceivedTypes
    DEF WaitLocalPosition, IndInv, SampleInv, Unplaced
  <2>2. CanApplyOrigin(resample, rx.position)
    BY <2>1, NominalAssumption
  <2> QED
    BY <2>2 DEF WaitLocalPosition
<1>p. \A p : IsFinite(p) => CanSend(p, TRUE)
  BY DEF CanSend
<1>o. \A ok \in SendOutcomes : ok = TRUE
  BY NominalAssumption
<1>i. SetpointDue /\ state \in Startup =>
        \A ok \in SendOutcomes : CanSend(initial_position, ok)
  BY <1>p, <1>o, PositionsFinite
<1>4. ~PrestreamSetpoint(rx)
  <2> SUFFICES ASSUME PrestreamSetpoint(rx) PROVE FALSE
    OBVIOUS
  <2>1. state = "PRESTREAM_SETPOINT" /\ SetpointDue
    BY DEF PrestreamSetpoint, Turn
  <2>2. \A ok \in SendOutcomes : CanSend(initial_position, ok)
    BY <2>1, <1>i DEF Startup
  <2>3. PICK setpoint_ok \in SendOutcomes, command_ok \in SendOutcomes :
          \/ ~PrestreamComplete /\ state' = state
          \/ StartCommand("offboard", initial_position, "WAIT_OFFBOARD_ACK")
          \/ ~command_ok
    BY <2>2 DEF PrestreamSetpoint
  <2> QED
    BY <2>1, <2>3, <1>o DEF StartCommand
<1>r. ASSUME NEW c \in Commands, NEW p, NEW OnAccept, state = Awaited[c],
             AwaitAck(c, p, rx, OnAccept), OnAccept => state' # "ERROR"
      PROVE  GivesUp(rx, c)
  <2>1. ~Stay(p)
    BY <1>r DEF Stay
  <2>2. CASE RetryCommand(c, p) /\ ~Acknowledges(rx, c) /\ RetryDue
    BY <1>r, <1>o, <2>2 DEF RetryCommand, GivesUp
  <2> QED
    BY <1>r, <2>1, <2>2 DEF AwaitAck, GivesUp
<1>5. CASE WaitOffboardAck(rx)
  <2>1. state = "WAIT_OFFBOARD_ACK"
    BY <1>5 DEF WaitOffboardAck, Turn
  <2>2. RequestArm => state' # "ERROR"
    BY <1>o DEF RequestArm, StartCommand
  <2>3. AwaitAck("offboard", InitialSetpoint, rx, RequestArm)
    BY <1>5, <1>i, <2>1 DEF WaitOffboardAck, Startup
  <2> QED
    BY <2>1, <2>2, <2>3, <1>r
<1>6. CASE WaitArmAck(rx)
  <2>1. state = "WAIT_ARM_ACK"
    BY <1>6 DEF WaitArmAck, Turn
  <2>2. StartReplay => state' # "ERROR"
    BY DEF StartReplay
  <2>3. AwaitAck("arm", InitialSetpoint, rx, StartReplay)
    BY <1>6, <1>i, <2>1 DEF WaitArmAck, Startup
  <2> QED
    BY <2>1, <2>2, <2>3, <1>r
<1>7. ~ReplayTrajectory(rx)
  <2> SUFFICES ASSUME ReplayTrajectory(rx) PROVE FALSE
    OBVIOUS
  <2>1. state = "REPLAY_TRAJECTORY" /\ ~ReplayComplete
    BY DEF ReplayTrajectory, Turn
  <2>2. \A ok \in SendOutcomes : CanSend(resample[replay_index + 1], ok)
    BY <2>1, <1>p, <1>o, PositionsFinite
  <2> QED
    BY <2>1, <2>2 DEF ReplayTrajectory
<1>8. ~HoldPosition(rx)
  <2> SUFFICES ASSUME HoldPosition(rx) PROVE FALSE
    OBVIOUS
  <2>1. state = "HOLD_POSITION"
    BY DEF HoldPosition, HoldOrLand, Turn
  <2>2. /\ last_commanded_position # NoPosition
        /\ \A ok \in SendOutcomes : CanSend(HeldPosition, ok)
    BY <2>1, <1>p, <1>o, PositionsFinite
  <2> QED
    BY <2>1, <2>2 DEF HoldPosition, HoldOrLand, Stay
<1>9. ~CommandLand(rx)
  BY <1>o DEF CommandLand, StartCommand
<1>10. CASE WaitLandAck(rx)
  <2>1. state = "WAIT_LAND_ACK"
    BY <1>10 DEF WaitLandAck, Turn
  <2>2. AwaitDisarm => state' # "ERROR"
    BY DEF AwaitDisarm
  <2>3. AwaitAck("land", NoPosition, rx, AwaitDisarm)
    BY <1>10 DEF WaitLandAck
  <2> QED
    BY <2>1, <2>2, <2>3, <1>r
<1>11. CASE WaitDisarmed(rx)
  BY <1>11 DEF WaitDisarmed, Turn, Stay
<1>12. CASE LoseConnection(rx)
  BY <1>12 DEF LoseConnection
<1> QED
  BY <1>1, <1>2, <1>3, <1>4, <1>5, <1>6, <1>7, <1>8, <1>9, <1>10, <1>11,
     <1>12 DEF Iterate

-----------------------------------------------------------------------------
(* The time a command waits, told by its attempts a and the age s of the    *)
(* last one, when b of at most B earlier copies are left and the vehicle    *)
(* has been busy with the first of them for t.                              *)
LEMMA Patience ==
  ASSUME NEW a \in Nat \ {0}, NEW B \in Nat, NEW b \in 0..B, NEW s \in Nat,
         NEW t \in 0..ResponseTime,
         (a - 1) * RetryInterval + s <= (B - b) * ResponseTime + t
  PROVE  /\ s >= RetryInterval
              /\ (B + 1) * ResponseTime < MaxAttempts * RetryInterval
              => a < MaxAttempts
         /\ b > 0 => (a - 1) * RetryInterval + s
                       <= (B - (b - 1)) * ResponseTime + 0
         /\ s >= RetryInterval => (a + 1 - 1) * RetryInterval + 0
                                   <= (B - b) * ResponseTime + t
         /\ (a - 1) * RetryInterval <= (B + 1) * ResponseTime
<1> DEFINE R == RetryInterval
           T == ResponseTime
           x == (a - 1) * R
           y == (B - b) * T
<1>1. R \in Nat \ {0} /\ T \in Nat /\ MaxAttempts \in Nat
  BY NominalAssumption, TimingAssumption, CountAssumption
<1> HIDE DEF R, T
<1>2. a * R = x + R /\ x \in Nat
  BY <1>1
<1>3. (B - (b - 1)) * T = y + T /\ y \in Nat
  BY <1>1
<1>4. (B + 1) * T = y + b * T + T /\ b * T \in Nat
  BY <1>1
<1>5. x + s <= y + t /\ t <= T
  BY <1>1 DEF R, T
<1>6. a >= MaxAttempts => a * R >= MaxAttempts * R
  BY <1>1
<1>7. a + 1 - 1 = a /\ MaxAttempts * R \in Nat /\ a * R \in Nat
  BY <1>1
<1> HIDE DEF x, y
<1>8. s >= R /\ (B + 1) * T < MaxAttempts * R => a < MaxAttempts
  <2> SUFFICES ASSUME s >= R, (B + 1) * T < MaxAttempts * R, a >= MaxAttempts
               PROVE  FALSE
    BY <1>1
  <2>1. a * R >= MaxAttempts * R
    BY <1>6
  <2>2. a * R <= y + T
    BY <1>1, <1>2, <1>3, <1>5
  <2>3. (B + 1) * T >= y + T
    BY <1>1, <1>3, <1>4
  <2> QED
    BY <1>1, <1>3, <1>4, <1>7, <2>1, <2>2, <2>3
<1>9. b > 0 => x + s <= (B - (b - 1)) * T + 0
  BY <1>1, <1>2, <1>3, <1>5
<1>10. s >= R => (a + 1 - 1) * R + 0 <= y + t
  BY <1>1, <1>2, <1>3, <1>5, <1>7
<1>11. x <= (B + 1) * T
  BY <1>1, <1>2, <1>3, <1>4, <1>5
<1> QED
  BY <1>8, <1>9, <1>10, <1>11 DEF R, T, x, y

(* Products of numbers of attempts and times are times. *)
LEMMA Products ==
  /\ ResponseTime \in Nat /\ RetryInterval \in Nat \ {0}
  /\ \A n \in Nat : n * ResponseTime \in Nat /\ n * RetryInterval \in Nat
  BY NominalAssumption, TimingAssumption

LEMMA Limits ==
  ASSUME NominalTypeOK
  PROVE  /\ timer["heartbeat"] \in 0..HeartbeatPeriod
         /\ timer["answer"] \in 0..ResponseTime
         /\ timer["landing"] \in 0..LandingTime
  BY NominalAssumption DEF NominalTypeOK, Limit, Timers

-----------------------------------------------------------------------------
(* The steps of the flight *)

LEMMA InitNominalInv == NominalInit => NominalInv
<1> SUFFICES ASSUME NominalInit PROVE NominalInv
  OBVIOUS
<1> USE NominalAssumption, TimingAssumption DEF NominalInit
<1>1. SessionInv /\ inbox = <<>> /\ uplink = <<>> /\ accepted = {}
      /\ mode = "other" /\ state = "WAIT_HEARTBEAT" /\ heartbeat_age = 0
      /\ foreign = {}
  BY InitSessionInv DEF SessionInit, Init
<1>2. DOMAIN inbox = {}
  BY <1>1
<1>3. Answers = {} /\ Heard = {}
  BY <1>2 DEF Answers, Heard
<1>4. NominalTypeOK
  BY DEF NominalTypeOK, Limit, Timers
<1>5. HeartbeatInv
  BY <1>1, <1>4, Limits DEF HeartbeatInv
<1>6. VehicleInv
  BY <1>1, <1>2 DEF VehicleInv
<1>7. AnswerInv
  BY <1>1, AwaitedStates DEF AnswerInv
<1>8. LandingInv /\ NeverAborts
  BY <1>1 DEF LandingInv, NeverAborts
<1> QED
  BY <1>1, <1>4, <1>5, <1>6, <1>7, <1>8 DEF NominalInv

(* A flight of NominalFlight is one of ReplaySession. *)
LEMMA NominalRefines == [NominalNext]_nominal => [SessionNext]_session
<1> SUFFICES ASSUME [NominalNext]_nominal PROVE [SessionNext]_session
  OBVIOUS
<1>1. CASE NominalTurn
  BY <1>1 DEF NominalTurn, SessionNext
<1>2. CASE NominalHeartbeat
  BY <1>2, SessionAssumption DEF NominalHeartbeat, SessionNext
<1>3. CASE NominalPosition \/ NominalAccept \/ NominalTouchDown
  BY <1>3 DEF NominalPosition, NominalAccept, NominalTouchDown, SessionNext
<1>4. CASE NominalTick
  BY <1>4 DEF NominalTick, SessionNext, ControllerOther
<1>5. CASE UNCHANGED session
  BY <1>5
<1> QED
  BY <1>1, <1>2, <1>3, <1>4, <1>5
  DEF NominalNext, NominalStopped, TypeLine, nominal

(* A turn finds the answer to the command it waits for if the vehicle has   *)
(* accepted it, and nothing else.                                          *)
LEMMA TurnAnswers ==
  ASSUME SessionInv, VehicleInv, AnswerInv, NEW c \in Commands,
         state = Awaited[c], NEW rx, rx = receive_px4_messages(inbox)
  PROVE  /\ Acknowledges(rx, c) <=> c \in accepted
         /\ Acknowledges(rx, c) => rx.ack.accepted
<1>1. inbox \in Seq(Frames)
  BY DEF SessionInv, SessionTypeOK
<1>2. ASSUME Acknowledges(rx, c)
      PROVE  rx.ack.accepted /\ c \in accepted
  <2>1. rx.ack # NoAck
    BY <1>2, AwaitedStates DEF Acknowledges, NoAck, Commands
  <2>2. PICK m \in Hits(inbox, "ack") : rx.ack = inbox[m].payload
    BY <1>1, <2>1, Reception
  <2>3. m \in Answers /\ inbox[m].payload.accepted
    BY <2>2 DEF VehicleInv, Hits, Ack
  <2> QED
    BY <1>2, <2>2, <2>3 DEF SessionInv, RequestInv, Acknowledges
<1>3. ASSUME c \in accepted PROVE Acknowledges(rx, c)
  <2>1. PICK i \in Answers : inbox[i].payload.command = c
    BY <1>3 DEF AnswerInv, Answered
  <2>2. \A j \in DOMAIN inbox : Ack(j) => j \in Answers
    BY DEF VehicleInv
  <2>3. i \in DOMAIN inbox /\ DOMAIN inbox = 1..Len(inbox)
        /\ Len(inbox) \in Nat /\ Ack(i)
    BY <1>1, <2>1 DEF Answers
  <2>4. \A j \in i..Len(inbox) : j \in DOMAIN inbox
    BY <2>3
  <2>5. Waiting(c)
    BY <2>1, <2>2, <2>3, <2>4 DEF Waiting
  <2> QED
    BY <2>5, AwaitedRead
<1> QED
  BY <1>2, <1>3

(* A turn finds a heartbeat if one is in the buffer, and the last of them. *)
LEMMA TurnHears ==
  ASSUME SessionTypeOK, NEW rx, rx = receive_px4_messages(inbox)
  PROVE  /\ Heard = {} <=> rx.heartbeat = NoHeartbeat
         /\ DisarmReported => ReportsDisarmed(rx)
<1>1. inbox \in Seq(Frames) /\ Heard = Hits(inbox, "heartbeat")
  BY DEF SessionTypeOK, Heard, Hits
<1>2. Heard = {} <=> rx.heartbeat = NoHeartbeat
  BY <1>1, Reception
<1>3. ASSUME DisarmReported PROVE ReportsDisarmed(rx)
  <2>1. PICK i \in Heard : /\ ~inbox[i].payload.armed
                           /\ \A j \in Heard : i >= j
    BY <1>3 DEF DisarmReported
  <2>2. rx.heartbeat # NoHeartbeat
    BY <1>2, <2>1
  <2>3. PICK m \in Heard : /\ rx.heartbeat = inbox[m].payload
                           /\ \A j \in Heard : m >= j
    BY <1>1, <2>2, Reception
  <2>4. i \in Nat /\ m \in Nat
    BY <1>1 DEF Hits
  <2>5. i = m
    BY <2>1, <2>3, <2>4
  <2> QED
    BY <2>1, <2>2, <2>3, <2>5 DEF ReportsDisarmed
<1> QED
  BY <1>2, <1>3

(* No reason to give up arises. *)
LEMMA NoReason ==
  ASSUME NominalInv, NEW rx, rx = receive_px4_messages(inbox)
  PROVE  ~Reason(rx)
<1> USE DEF NominalInv, SessionInv
<1>1. ~ConnectionLost(rx)
  <2> SUFFICES ASSUME ConnectionLost(rx) PROVE FALSE
    OBVIOUS
  <2>1. CASE rx.heartbeat = NoHeartbeat
    <3>1. heartbeat_age <= HeartbeatPeriod
      BY <2>1, TurnHears, Limits, NominalAssumption
      DEF HeartbeatInv, IndInv, TypeOK
    <3>2. heartbeat_age >= HeartbeatTimeout
      BY <2>1 DEF ConnectionLost, HeartbeatAge
    <3> QED
      BY <3>1, <3>2, NominalAssumption, TimingAssumption DEF IndInv, TypeOK
  <2>2. CASE rx.heartbeat # NoHeartbeat
    BY <2>2, TimingAssumption DEF ConnectionLost, HeartbeatAge
  <2> QED
    BY <2>1, <2>2
<1>2. ASSUME NEW c \in Commands, GivesUp(rx, c) PROVE FALSE
  <2>1. /\ state = Awaited[c]
        /\ ~Acknowledges(rx, c) /\ RetryDue /\ AttemptsUsedUp(c)
    BY <1>2, TurnAnswers DEF GivesUp
  <2>2. Unanswered(c)
    BY <2>1, TurnAnswers DEF AnswerInv
  <2> DEFINE before == Len(uplink) - attempts[c]
  <2>3. /\ before \in 0..Backlog[c]
        /\ (attempts[c] - 1) * RetryInterval + send_age
             <= (Backlog[c] - before) * ResponseTime + timer["answer"]
    BY <2>2 DEF Unanswered
  <2> HIDE DEF before
  <2>4. attempts[c] \in Nat \ {0}
    BY <2>1, SentBefore
  <2>5. send_age \in Nat /\ Backlog[c] \in Nat
    BY Backlogs DEF IndInv, TypeOK
  <2>6. attempts[c] < MaxAttempts
    BY <2>1, <2>3, <2>4, <2>5, Limits, Patience, NominalAssumption
    DEF RetryDue
  <2> QED
    BY <2>1, <2>4, <2>6, CountAssumption DEF AttemptsUsedUp
<1>3. ~(state = "WAIT_DISARMED" /\ DisarmTimedOut(rx))
  <2> SUFFICES ASSUME state = "WAIT_DISARMED", DisarmTimedOut(rx) PROVE FALSE
    OBVIOUS
  <2>1. disarm_age >= DisarmTimeout /\ ~DisarmReported
    BY TurnHears DEF DisarmTimedOut
  <2>2. \/ disarm_age <= timer["landing"]
        \/ disarm_age <= LandingTime + timer["heartbeat"]
    BY <2>1 DEF LandingInv
  <2> QED
    BY <2>1, <2>2, Limits, NominalAssumption, TimingAssumption
    DEF IndInv, TypeOK
<1> QED
  BY <1>1, <1>2, <1>3 DEF Reason

NominalParts ==
  /\ NominalTypeOK
  /\ HeartbeatInv
  /\ VehicleInv
  /\ AnswerInv
  /\ LandingInv
  /\ NeverAborts

(* What a turn does to the link *)
LEMMA TurnSends ==
  ASSUME NominalInv, NominalTurn, NEW rx, Outcome(rx)
  PROVE  /\ NoCommand => uplink' = uplink
         /\ \A c \in Commands :
              outbox'.command = c /\ Len(uplink) < MaxUplink =>
                uplink' = Append(uplink, [command |-> c, to |-> target])
         /\ UNCHANGED <<armed, mode, accepted, foreign>>
         /\ timer' = [timer EXCEPT !["unread"] = 0]
  BY AwaitedStates
  DEF NominalTurn, ControllerTurn, Uplinked, vehicle, Restart, NoCommand,
      Commands

(* c was sent for the first time, behind at most Backlog[c] other commands. *)
LEMMA FirstSent ==
  ASSUME SessionTypeOK, RequestInv, NominalTypeOK',
         NEW c \in Commands, attempts[c] = 0,
         attempts \in [Commands -> Nat],
         target \in Components \cup {NoTarget},
         Len(uplink) <= Backlog[c],
         uplink' = Append(uplink, [command |-> c, to |-> target]),
         attempts' = [attempts EXCEPT ![c] = 1], send_age' = 0
  PROVE  Unanswered(c)'
<1> DEFINE e == [command |-> c, to |-> target]
<1>1. uplink \in Seq(Links) /\ e \in Links /\ e.command = c
  BY DEF SessionTypeOK, Links
<1> HIDE DEF e
<1>2. /\ Len(uplink') = Len(uplink) + 1 /\ Len(uplink) \in Nat
      /\ uplink'[Len(uplink) + 1] = e
      /\ DOMAIN uplink' = 1..(Len(uplink) + 1)
      /\ \A i \in 1..Len(uplink) : uplink'[i] = uplink[i]
  BY <1>1, Appended DEF e
<1>3. attempts'[c] = 1
  OBVIOUS
<1>4. Backlog[c] \in Nat
  BY Backlogs
<1>5. \A i \in 1..Len(uplink) : uplink[i].command # c
  BY <1>1 DEF RequestInv, Requested
<1>6. ASSUME NEW i \in DOMAIN uplink'
      PROVE  uplink'[i].command = c <=> i > Len(uplink)
  BY <1>1, <1>2, <1>5
<1>7. (1 - 1) * RetryInterval + 0 = 0
  BY Products
<1>8. (Backlog[c] - Len(uplink)) * ResponseTime \in Nat
  BY <1>2, <1>4, Products
<1>9. timer["answer"]' \in Nat
  BY DEF NominalTypeOK, Timers
<1>10. Len(uplink') - attempts'[c] = Len(uplink)
  BY <1>2, <1>3
<1>11. Len(uplink) \in 0..Backlog[c]
  BY <1>2, <1>4
<1> QED
  BY <1>3, <1>6, <1>7, <1>8, <1>9, <1>10, <1>11, Backlogs DEF Unanswered

(* Less is left on the link than was sent, so that the next command starts  *)
(* within its Backlog.                                                     *)
LEMMA AnsweredBacklog ==
  ASSUME NEW c \in Commands, Answered(c), attempts[c] \in Nat \ {0},
         Len(uplink) \in Nat
  PROVE  /\ c = "offboard" => Len(uplink) <= Backlog["arm"]
         /\ c = "arm" => Len(uplink) <= Backlog["land"]
<1>1. attempts[c] - 1 \in Nat /\ Len(uplink) <= attempts[c] - 1
  BY DEF Answered
<1>2. (attempts[c] - 1) * RetryInterval <= (Backlog[c] + 1) * ResponseTime
  BY DEF Answered
<1>3. Backlog["arm"] \in Nat /\ Backlog["land"] \in Nat
  BY Backlogs, AwaitedStates
<1>4. c = "offboard" => attempts[c] - 1 <= Backlog["arm"]
  BY <1>1, <1>2, Backlogs
<1>5. c = "arm" => attempts[c] - 1 <= Backlog["land"]
  BY <1>1, <1>2, Backlogs
<1> QED
  BY <1>1, <1>3, <1>4, <1>5

(* The answers after a turn *)
LEMMA AnswersAfterTurn ==
  ASSUME NominalInv, NominalTurn, NominalTypeOK',
         NEW rx, rx = receive_px4_messages(inbox) \/ state = "WAIT_HEARTBEAT",
         Outcome(rx), state' # "ERROR"
  PROVE  AnswerInv'
<1> USE AwaitedStates DEF NominalInv, SessionInv
<1>1. /\ NoCommand => uplink' = uplink
      /\ \A c \in Commands :
           outbox'.command = c /\ Len(uplink) < MaxUplink =>
             uplink' = Append(uplink, [command |-> c, to |-> target])
      /\ UNCHANGED <<armed, mode, accepted, foreign>>
      /\ timer' = [timer EXCEPT !["unread"] = 0]
  BY TurnSends
<1>2. timer'["answer"] = timer["answer"]
  BY <1>1 DEF NominalTypeOK, Timers
<1>3. /\ uplink \in Seq(Links) /\ Len(uplink) \in Nat
      /\ DOMAIN uplink = 1..Len(uplink)
      /\ target \in Components \cup {NoTarget}
      /\ attempts \in [Commands -> Nat] /\ send_age \in Nat
  BY DEF SessionTypeOK, Links, IndInv, TypeOK
<1>4. /\ MaxUplink \in Nat /\ MaxAttempts \in Nat \ {0}
      /\ \A c \in Commands : Backlog[c] + MaxAttempts <= MaxUplink
      /\ \A c \in Commands : Backlog[c] \in Nat
  BY SessionAssumption, CountAssumption, NominalAssumption, Backlogs
<1>5. \A c \in Commands : state = Awaited[c] => rx = receive_px4_messages(inbox)
  OBVIOUS
<1>6. ASSUME NEW c \in Commands, state = Awaited[c], c \in accepted
      PROVE  /\ Acknowledges(rx, c) /\ Answered(c) /\ attempts[c] \in Nat \ {0}
             /\ c = "offboard" => Len(uplink) <= Backlog["arm"]
             /\ c = "arm" => Len(uplink) <= Backlog["land"]
  <2>1. Acknowledges(rx, c) /\ Answered(c)
    BY <1>5, <1>6, TurnAnswers DEF AnswerInv
  <2>2. attempts[c] \in Nat \ {0}
    BY <1>6, SentBefore
  <2> QED
    BY <1>3, <2>1, <2>2, AnsweredBacklog
<1>7. ASSUME NEW c \in Commands, state = Awaited[c], Accepts(rx, c)
      PROVE  c \in accepted
  BY <1>5, <1>7, TurnAnswers DEF Accepts
<1>8. CASE Stays(rx)
  <2>1. UNCHANGED <<state, attempts, send_age, uplink, accepted>>
    BY <1>1, <1>8 DEF Stays, NoCommand
  <2>2. ASSUME NEW c \in Commands, state = Awaited[c]
        PROVE  c \notin accepted /\ Unanswered(c)'
    <3>1. c \notin accepted
      BY <1>6, <1>8, <2>2 DEF Stays
    <3>2. Unanswered(c)
      BY <2>2, <3>1 DEF AnswerInv
    <3> QED
      BY <1>2, <2>1, <3>1, <3>2 DEF Unanswered
  <2> QED
    BY <2>1, <2>2 DEF AnswerInv
<1>9. ASSUME NEW c \in Commands, Repeats(rx, c) PROVE AnswerInv'
  <2>1. /\ state = Awaited[c] /\ state' = state /\ send_age' = 0
        /\ attempts' = NextAttempt(c) /\ RetryDue
        /\ outbox'.command = c /\ ~AttemptsUsedUp(c) /\ ~Acknowledges(rx, c)
    BY <1>9 DEF Repeats
  <2>2. c \notin accepted
    BY <1>6, <2>1
  <2> DEFINE before == Len(uplink) - attempts[c]
             e == [command |-> c, to |-> target]
  <2>3. /\ before \in 0..Backlog[c]
        /\ \A i \in DOMAIN uplink : uplink[i].command = c <=> i > before
        /\ (attempts[c] - 1) * RetryInterval + send_age
             <= (Backlog[c] - before) * ResponseTime + timer["answer"]
    BY <2>1, <2>2 DEF AnswerInv, Unanswered
  <2>4. attempts[c] \in Nat \ {0} /\ attempts[c] < MaxAttempts
    <3>1. attempts[c] \in Nat \ {0} /\ attempts[c] <= MaxAttempts
      BY <2>1, SentBefore
    <3>2. attempts[c] < MaxAttempts
      BY <1>4, <2>1, <3>1 DEF AttemptsUsedUp
    <3> QED
      BY <3>1, <3>2
  <2>5. Len(uplink) < MaxUplink
    BY <1>3, <1>4, <2>3, <2>4
  <2>6. uplink' = Append(uplink, e) /\ e \in Links /\ e.command = c
    BY <1>1, <1>3, <2>1, <2>5 DEF Links
  <2> HIDE DEF e
  <2>7. /\ Len(uplink') = Len(uplink) + 1
        /\ uplink'[Len(uplink) + 1] = e
        /\ DOMAIN uplink' = 1..(Len(uplink) + 1)
        /\ \A i \in 1..Len(uplink) : uplink'[i] = uplink[i]
    BY <1>3, <2>6, Appended
  <2>8. attempts'[c] = attempts[c] + 1
    BY <1>3, <2>1 DEF NextAttempt
  <2>9. Len(uplink') - attempts'[c] = before
    BY <1>3, <2>4, <2>7, <2>8
  <2>10. ASSUME NEW i \in DOMAIN uplink'
         PROVE  uplink'[i].command = c <=> i > before
    <3>1. CASE i \in DOMAIN uplink
      BY <1>3, <2>3, <2>7, <3>1
    <3>2. CASE i = Len(uplink) + 1
      BY <1>3, <2>4, <2>6, <2>7, <3>2
    <3> QED
      BY <1>3, <2>7, <3>1, <3>2
  <2> HIDE DEF before
  <2>11. (attempts[c] + 1 - 1) * RetryInterval + 0
           <= (Backlog[c] - before) * ResponseTime + timer["answer"]
    BY <1>3, <1>4, <2>1, <2>3, <2>4, Limits, Patience DEF RetryDue
  <2> DEFINE after == Len(uplink') - attempts'[c]
  <2>a. after \in 0..Backlog[c] /\ after = before
    BY <2>3, <2>9
  <2> HIDE DEF after
  <2>b. (attempts'[c] - 1) * RetryInterval + send_age'
          <= (Backlog[c] - after) * ResponseTime + timer'["answer"]
    BY <1>2, <2>1, <2>4, <2>8, <2>11, <2>a
  <2>12. Unanswered(c)'
    BY <2>10, <2>a, <2>b DEF Unanswered, after
  <2>13. \A d \in Commands : state' = Awaited[d] => d = c
    BY <2>1
  <2> QED
    BY <1>1, <2>1, <2>2, <2>12, <2>13
    DEF AnswerInv, Unplaced
<1>10. ASSUME NEW c \in Commands, Begins(rx, c) PROVE AnswerInv'
  <2>1. /\ outbox'.command = c /\ state' = Awaited[c] /\ send_age' = 0
        /\ attempts' = [attempts EXCEPT ![c] = 1]
    BY <1>10 DEF Begins
  <2>2. Len(uplink) <= Backlog[c] /\ attempts[c] = 0
    <3>1. CASE c = "offboard"
      BY <1>10, <3>1, Backlogs
      DEF Begins, AnswerInv, IndInv, AttemptInv
    <3>2. CASE c = "arm"
      BY <1>6, <1>7, <1>10, <3>2 DEF Begins, IndInv, AttemptInv
    <3>3. CASE c = "land"
      BY <1>10, <3>3 DEF Begins, AnswerInv, IndInv, AttemptInv
    <3> QED
      BY <3>1, <3>2, <3>3
  <2>3. Len(uplink) < MaxUplink
    BY <1>3, <1>4, <2>2
  <2>4. uplink' = Append(uplink, [command |-> c, to |-> target])
    BY <1>1, <2>1, <2>3
  <2>5. Unanswered(c)'
    BY <1>3, <2>1, <2>2, <2>4, FirstSent
  <2>6. c \notin accepted'
    BY <1>1, <2>2, <1>3 DEF RequestInv, Requested
  <2>7. \A d \in Commands : state' = Awaited[d] => d = c
    BY <2>1
  <2> QED
    BY <2>1, <2>5, <2>6, <2>7 DEF AnswerInv, Unplaced
<1>11. CASE Proceeds(rx)
  <2>1. uplink' = uplink
    BY <1>1, <1>11 DEF Proceeds
  <2>2. \A c \in Commands : state' # Awaited[c]
    BY <1>11 DEF Proceeds
  <2>3. state' \in Unplaced \cup {"PRESTREAM_SETPOINT"} => state \in Unplaced
    BY <1>11 DEF Proceeds, Unplaced
  <2>4. state' = "REPLAY_TRAJECTORY" => Len(uplink) <= Backlog["land"]
    BY <1>6, <1>7, <1>11 DEF Proceeds
  <2>5. state' \in {"HOLD_POSITION", "COMMAND_LAND"} =>
          Len(uplink) <= Backlog["land"]
    BY <1>11 DEF Proceeds, AnswerInv
  <2> QED
    BY <2>1, <2>2, <2>3, <2>4, <2>5 DEF AnswerInv, Unplaced
<1> QED
  BY <1>8, <1>9, <1>10, <1>11 DEF Outcome, Fails

(* A turn of the controller *)
LEMMA FlightTurn ==
  ASSUME NominalInv, NominalTurn
  PROVE  NominalParts'
<1> USE AwaitedStates DEF NominalInv, SessionInv
<1>0. ControllerTurn
  BY DEF NominalTurn
<1>1. PICK n \in 0..Len(inbox), rx \in Received :
        /\ rx = receive_px4_messages(SubSeq(inbox, 1, n))
        /\ n = Len(inbox) \/ state = "WAIT_HEARTBEAT"
        /\ inbox' \in Seq(Frames) /\ Later(inbox', inbox)
        /\ n = Len(inbox) => inbox' = <<>>
        /\ Iterate(rx) /\ Outcome(rx)
  BY <1>0, TurnReads
<1>2. inbox \in Seq(Frames) /\ SubSeq(inbox, 1, Len(inbox)) = inbox
  BY SubSeqFull DEF SessionTypeOK
<1>3. rx = receive_px4_messages(inbox) \/ state = "WAIT_HEARTBEAT"
  BY <1>1, <1>2
<1>4. /\ NoCommand => uplink' = uplink
      /\ \A c \in Commands :
           outbox'.command = c /\ Len(uplink) < MaxUplink =>
             uplink' = Append(uplink, [command |-> c, to |-> target])
      /\ UNCHANGED <<armed, mode, accepted, foreign>>
      /\ timer' = [timer EXCEPT !["unread"] = 0]
  BY <1>1, TurnSends
<1>5. NeverAborts'
  <2> SUFFICES ASSUME state' = "ERROR" PROVE FALSE
    BY DEF NeverAborts
  <2>1. Reason(rx)
    BY <1>1, WhyError
  <2>2. rx = receive_px4_messages(inbox)
    BY <1>3, <2>1, AwaitedStates
    DEF Reason, GivesUp, ConnectionLost
  <2> QED
    BY <2>1, <2>2, NoReason
<1>6. NominalTypeOK'
  <2>1. /\ timer' \in [Timers -> Nat]
        /\ \A t \in Timers : timer'[t] = timer[t] \/ timer'[t] = 0
        /\ timer'["answer"] = timer["answer"]
    BY <1>4 DEF NominalTypeOK, Timers
  <2>2. \A t \in Timers : Limit(t) >= 0
    BY NominalAssumption, TimingAssumption DEF Timers, Limit
  <2>3. \A t \in Timers : timer'[t] <= Limit(t)
    BY <2>1, <2>2 DEF NominalTypeOK
  <2>4. uplink' = <<>> => uplink = <<>>
    <3>1. \/ uplink' = uplink
          \/ \E e \in Links : uplink' = Append(uplink, e)
      <4>1. /\ outbox'.command # "none" => outbox'.command \in Commands
            /\ target \in Components \cup {NoTarget}
        BY <1>1
        DEF Outcome, Fails, Stays, Repeats, Begins, Proceeds, NoCommand,
            IndInv, TypeOK
      <4>2. \/ uplink' = uplink
            \/ /\ outbox'.command # "none"
               /\ uplink' = Append(uplink, [command |-> outbox'.command,
                                            to |-> target])
        BY <1>0 DEF ControllerTurn, Uplinked
      <4>3. outbox'.command # "none" =>
              [command |-> outbox'.command, to |-> target] \in Links
        BY <4>1 DEF Links
      <4> QED
        BY <4>2, <4>3
    <3>2. uplink \in Seq(Links)
      BY DEF SessionTypeOK, Links
    <3>3. \A e \in Links : Append(uplink, e) # <<>>
      BY <3>2, AppendProperties
    <3> QED
      BY <3>1, <3>3
  <2> QED
    BY <2>1, <2>3, <2>4 DEF NominalTypeOK, Limit
<1>7. AnswerInv'
  BY <1>1, <1>3, <1>5, <1>6, AnswersAfterTurn DEF NeverAborts
<1>8. heartbeat_age' = HeartbeatAge(rx)
  <2>1. TurnOf(rx) /\ ~LoseConnection(rx)
    BY <1>1, <1>5, EveryTurn DEF NeverAborts, LoseConnection, Fail
  <2> QED
    BY <2>1 DEF TurnOf, Turn, WaitLocalPosition, Hear
<1>9. HeartbeatInv'
  <2>1. state' = "WAIT_HEARTBEAT" => state = "WAIT_HEARTBEAT"
    BY <1>1 DEF Outcome, Fails, Stays, Repeats, Begins, Proceeds
  <2>2. state = "WAIT_HEARTBEAT" => heartbeat_age' = 0
    BY <1>8 DEF HeartbeatAge, HeartbeatInv
  <2>3. timer'["heartbeat"] = timer["heartbeat"] /\ timer["heartbeat"] \in Nat
    BY <1>4 DEF NominalTypeOK, Timers
  <2>4. ASSUME state # "WAIT_HEARTBEAT"
        PROVE  heartbeat_age' = 0 \/ heartbeat_age' <= timer["heartbeat"]
    <3>1. rx.heartbeat = NoHeartbeat => Heard = {}
      BY <1>3, <2>4, TurnHears
    <3> QED
      BY <1>8, <3>1 DEF HeartbeatAge, HeartbeatInv
  <2> QED
    BY <2>1, <2>2, <2>3, <2>4 DEF HeartbeatInv
<1>10. VehicleInv'
  <2>0. inbox' \in Seq(Frames) /\ Later(inbox', inbox)
    BY <1>1
  <2>1. \A i \in DOMAIN inbox' : \E j \in DOMAIN inbox : inbox'[i] = inbox[j]
    BY <1>2, <2>0, LaterElements
  <2>2. ASSUME NEW i \in DOMAIN inbox', Ack(i)'
        PROVE  (i \in Answers)' /\ inbox'[i].payload.accepted
    <3>1. PICK j \in DOMAIN inbox : inbox'[i] = inbox[j]
      BY <2>1
    <3>2. Ack(j)
      BY <2>2, <3>1 DEF Ack
    <3> QED
      BY <1>4, <2>2, <3>1, <3>2 DEF VehicleInv, Answers, Ack
  <2>3. (\A i \in DOMAIN inbox :
           Ack(i) => i \in Answers /\ inbox[i].payload.accepted)'
    BY <2>2
  <2> QED
    BY <1>4, <2>3 DEF VehicleInv
<1>11. LandingInv'
  <2> SUFFICES ASSUME state' = "WAIT_DISARMED" PROVE LandingInv'
    BY DEF LandingInv
  <2>1. /\ timer'["landing"] = timer["landing"] /\ timer["landing"] \in Nat
        /\ timer'["heartbeat"] = timer["heartbeat"]
        /\ timer["heartbeat"] \in Nat /\ LandingTime \in Nat
    BY <1>4, NominalAssumption DEF NominalTypeOK, Timers
  <2>2. CASE disarm_age' = 0
    BY <2>1, <2>2 DEF LandingInv
  <2>3. CASE Stays(rx)
    <3>1. state = "WAIT_DISARMED" /\ disarm_age' = disarm_age
          /\ ~ReportsDisarmed(rx)
      BY <2>3 DEF Stays
    <3>2. ~DisarmReported
      BY <1>3, <3>1, TurnHears
    <3> QED
      BY <1>4, <2>1, <3>1, <3>2 DEF LandingInv
  <2> QED
    BY <1>1, <2>2, <2>3 DEF Outcome, Fails, Repeats, Begins, Proceeds
<1> QED
  BY <1>5, <1>6, <1>7, <1>9, <1>10, <1>11 DEF NominalParts

(* The clock, which waits for what is due *)
LEMMA FlightTick ==
  ASSUME NominalInv, NominalTick
  PROVE  NominalParts'
<1> USE AwaitedStates DEF NominalInv, SessionInv
<1>1. /\ \A t \in Timers : Outstanding(t) => timer[t] < Limit(t)
      /\ Tick
      /\ timer' = [t \in Timers |-> IF Outstanding(t) THEN timer[t] + 1 ELSE 0]
      /\ UNCHANGED <<inbox, uplink, armed, mode, accepted, foreign>>
  BY DEF NominalTick, vehicle
<1>2. /\ UNCHANGED <<state, attempts>>
      /\ state \in Active \cup {"WAIT_LOCAL_POSITION"}
      /\ heartbeat_age' = heartbeat_age + 1
      /\ send_age' = Older(send_age, AwaitingAck)
      /\ disarm_age' = Older(disarm_age, {"WAIT_DISARMED"})
  BY <1>1 DEF Tick, progress
<1>3. NeverAborts'
  BY <1>2 DEF NeverAborts
<1>4. NominalTypeOK'
  <2>1. \A t \in Timers : Limit(t) \in Nat
    BY NominalAssumption, TimingAssumption DEF Timers, Limit
  <2>2. \A t \in Timers : timer[t] \in Nat /\ timer'[t] \in Nat
                          /\ timer'[t] <= Limit(t)
    BY <1>1, <2>1 DEF NominalTypeOK
  <2>3. timer' \in [Timers -> Nat]
    BY <1>1, <2>2
  <2>4. uplink = <<>> => timer'["answer"] = 0
    BY <1>1 DEF Timers, Outstanding
  <2> QED
    BY <1>1, <2>2, <2>3, <2>4 DEF NominalTypeOK, Limit
<1>5. /\ timer'["heartbeat"] = timer["heartbeat"] + 1
      /\ uplink # <<>> => timer'["answer"] = timer["answer"] + 1
      /\ mode = "land" /\ armed => timer'["landing"] = timer["landing"] + 1
      /\ timer["heartbeat"] \in Nat /\ timer["answer"] \in Nat
      /\ timer["landing"] \in Nat
  BY <1>1 DEF Outstanding, Timers, NominalTypeOK
<1>6. HeartbeatInv'
  BY <1>1, <1>2, <1>5
  DEF HeartbeatInv, Heard, IndInv, TypeOK, Active, Streaming, Landing
<1>7. VehicleInv'
  BY <1>1 DEF VehicleInv, Answers, Ack
<1>8. AnswerInv'
  <2>1. ASSUME NEW c \in Commands, state = Awaited[c], c \notin accepted
        PROVE  Unanswered(c)'
    <3>1. Unanswered(c)
      BY <2>1 DEF AnswerInv
    <3> DEFINE before == Len(uplink) - attempts[c]
               w == (attempts[c] - 1) * RetryInterval
               r == (Backlog[c] - before) * ResponseTime
    <3>2. /\ before \in 0..Backlog[c]
          /\ \A i \in DOMAIN uplink : uplink[i].command = c <=> i > before
          /\ w + send_age <= r + timer["answer"]
      BY <3>1 DEF Unanswered
    <3>3. attempts[c] \in Nat \ {0} /\ send_age \in Nat
      BY <2>1, SentBefore
    <3>4. uplink # <<>>
      <4>1. uplink \in Seq(Links) /\ Len(uplink) \in Nat
        BY DEF SessionTypeOK, Links
      <4>2. Len(uplink) > 0
        BY <3>2, <3>3, <4>1, Backlogs
      <4> QED
        BY <4>1, <4>2, EmptySeq
    <3>5. send_age' = send_age + 1
      BY <1>2, <2>1 DEF Older, AwaitingAck
    <3>6. w \in Nat /\ r \in Nat
      <4>1. attempts[c] - 1 \in Nat /\ Backlog[c] \in Nat
        BY <3>3, Backlogs
      <4> HIDE DEF before
      <4>2. Backlog[c] - before \in Nat
        BY <3>2, <4>1
      <4> QED
        BY <4>1, <4>2, Products
    <3> HIDE DEF w, r, before
    <3>7. w + send_age' <= r + timer'["answer"]
      BY <1>5, <3>2, <3>3, <3>4, <3>5, <3>6
    <3>8. /\ UNCHANGED <<uplink, attempts>>
          /\ w = (attempts[c] - 1) * RetryInterval
          /\ r = (Backlog[c] - before) * ResponseTime
          /\ before = Len(uplink) - attempts[c]
      BY <1>1, <1>2 DEF w, r, before
    <3> QED
      BY <3>2, <3>7, <3>8 DEF Unanswered
  <2>2. ASSUME NEW c \in Commands, state = Awaited[c], c \in accepted
        PROVE  Answered(c)'
    BY <1>1, <1>2, <2>2 DEF AnswerInv, Answered, Answers, Ack
  <2> QED
    BY <1>1, <1>2, <2>1, <2>2 DEF AnswerInv
<1>9. LandingInv'
  <2> SUFFICES ASSUME state = "WAIT_DISARMED" PROVE LandingInv'
    BY <1>2 DEF LandingInv
  <2>1. disarm_age' = disarm_age + 1 /\ disarm_age \in Nat
    BY <1>2 DEF Older, IndInv, TypeOK
  <2>2. mode = "land"
    BY DEF AcknowledgedWereAccepted, VehicleInv, Claimed
  <2>3. LandingTime \in Nat
    BY NominalAssumption
  <2>4. DisarmReported' <=> DisarmReported
    BY <1>1 DEF DisarmReported, Heard
  <2> QED
    BY <1>1, <1>2, <1>5, <2>1, <2>2, <2>3, <2>4 DEF LandingInv
<1> QED
  BY <1>3, <1>4, <1>6, <1>7, <1>8, <1>9 DEF NominalParts

-----------------------------------------------------------------------------
(* The vehicle's steps *)

(* What a report leaves alone: nothing the controller waits for but the     *)
(* heartbeat depends on it.                                                *)
LEMMA ReportNominal ==
  ASSUME NominalInv, NEW f \in Frames, f.kind # "ack",
         inbox' = Append(inbox, f), NEW t \in Timers \ {"answer"},
         timer' = [timer EXCEPT ![t] = 0],
         UNCHANGED <<vars, uplink, vehicle, foreign>>
  PROVE  NominalTypeOK' /\ VehicleInv' /\ AnswerInv' /\ NeverAborts'
<1> USE DEF NominalInv, SessionInv
<1>1. UNCHANGED <<state, attempts, send_age, uplink, armed, mode, accepted,
                  foreign>>
  BY DEF vars, progress, clocks, vehicle
<1>2. inbox \in Seq(Frames)
  BY DEF SessionTypeOK
<1>3. /\ inbox'[Len(inbox) + 1] = f /\ DOMAIN inbox \subseteq DOMAIN inbox'
      /\ \A i \in DOMAIN inbox : inbox'[i] = inbox[i]
      /\ \A i \in DOMAIN inbox' : i \in DOMAIN inbox \/ i = Len(inbox) + 1
  BY <1>2, Appended
<1>4. Answers' = Answers
      /\ \A i \in DOMAIN inbox' : Ack(i)' => i \in DOMAIN inbox /\ Ack(i)
  BY <1>3 DEF Answers, Ack
<1>5. timer'["answer"] = timer["answer"] /\ timer' \in [Timers -> Nat]
      /\ \A s \in Timers : timer'[s] = timer[s] \/ timer'[s] = 0
  BY DEF NominalTypeOK, Timers
<1>6. \A s \in Timers : Limit(s) >= 0
  BY NominalAssumption, TimingAssumption DEF Timers, Limit
<1>7. NominalTypeOK'
  <2>1. \A s \in Timers : timer'[s] <= Limit(s)
    BY <1>5, <1>6 DEF NominalTypeOK
  <2> QED
    BY <1>1, <1>5, <2>1 DEF NominalTypeOK, Limit
<1>8. VehicleInv'
  <2>1. ASSUME NEW i \in DOMAIN inbox', Ack(i)'
        PROVE  (i \in Answers)' /\ inbox'[i].payload.accepted
    BY <1>3, <1>4, <2>1 DEF VehicleInv
  <2>2. (\A i \in DOMAIN inbox :
           Ack(i) => i \in Answers /\ inbox[i].payload.accepted)'
    BY <2>1
  <2> QED
    BY <1>1, <2>2 DEF VehicleInv
<1>9. AnswerInv'
  <2>1. \A c \in Commands : Answered(c) => Answered(c)'
    BY <1>1, <1>3, <1>4 DEF Answered, Answers
  <2>2. \A c \in Commands : Unanswered(c) => Unanswered(c)'
    BY <1>1, <1>5 DEF Unanswered
  <2> QED
    BY <1>1, <2>1, <2>2 DEF AnswerInv
<1> QED
  BY <1>1, <1>7, <1>8, <1>9 DEF NeverAborts

LEMMA FlightPosition ==
  ASSUME NominalInv, NominalPosition
  PROVE  NominalParts'
<1> USE DEF NominalInv, SessionInv
<1>1. PICK p \in Origins :
        /\ inbox' = Append(inbox, [kind |-> "position", payload |-> p])
        /\ timer' = [timer EXCEPT !["position"] = 0]
        /\ UNCHANGED <<vars, uplink, vehicle, foreign>>
  BY DEF NominalPosition, SendPosition, Report, Restart
<1> DEFINE f == [kind |-> "position", payload |-> p]
<1>2. f \in Frames /\ f.kind = "position"
  BY DEF Frames
<1> HIDE DEF f
<1>3. inbox \in Seq(Frames) /\ inbox' = Append(inbox, f)
  BY <1>1 DEF SessionTypeOK, f
<1>4. /\ inbox'[Len(inbox) + 1] = f /\ DOMAIN inbox \subseteq DOMAIN inbox'
      /\ \A i \in DOMAIN inbox : inbox'[i] = inbox[i]
      /\ \A i \in DOMAIN inbox' : i \in DOMAIN inbox \/ i = Len(inbox) + 1
  BY <1>2, <1>3, Appended
<1>5. Heard' = Heard
  BY <1>2, <1>4 DEF Heard
<1>6. NominalTypeOK' /\ VehicleInv' /\ AnswerInv' /\ NeverAborts'
  BY <1>1, <1>2, <1>3, ReportNominal DEF Timers
<1>7. UNCHANGED <<state, heartbeat_age, disarm_age, armed>>
  BY <1>1 DEF vars, progress, clocks, vehicle
<1>8. timer'["heartbeat"] = timer["heartbeat"]
      /\ timer'["landing"] = timer["landing"]
  BY <1>1 DEF NominalTypeOK, Timers
<1>9. HeartbeatInv'
  BY <1>5, <1>7, <1>8 DEF HeartbeatInv
<1>10. DisarmReported' <=> DisarmReported
  BY <1>4, <1>5 DEF DisarmReported, Heard
<1>11. LandingInv'
  BY <1>7, <1>8, <1>10 DEF LandingInv
<1> QED
  BY <1>6, <1>9, <1>11 DEF NominalParts

LEMMA FlightHeartbeat ==
  ASSUME NominalInv, NominalHeartbeat
  PROVE  NominalParts'
<1> USE DEF NominalInv, SessionInv
<1> DEFINE f == [kind |-> "heartbeat",
                 payload |-> [from |-> Autopilot, armed |-> armed]]
<1>0. (Autopilot = Autopilot /\ armed) = armed
  BY DEF SessionTypeOK
<1>1. /\ inbox' = Append(inbox, f)
      /\ timer' = [timer EXCEPT !["heartbeat"] = 0]
      /\ UNCHANGED <<vars, uplink, vehicle, foreign>>
  BY <1>0 DEF NominalHeartbeat, SendHeartbeat, Report, Restart
<1>2. f \in Frames /\ f.kind = "heartbeat" /\ f.payload.armed = armed
  <2>1. f.payload \in [from : Components, armed : BOOLEAN]
    BY SessionAssumption DEF SessionTypeOK
  <2> QED
    BY <2>1 DEF Frames, Heartbeats
<1> HIDE DEF f
<1>3. inbox \in Seq(Frames)
  BY DEF SessionTypeOK
<1>4. /\ inbox'[Len(inbox) + 1] = f /\ Len(inbox) \in Nat
      /\ DOMAIN inbox' = 1..(Len(inbox) + 1)
  BY <1>1, <1>2, <1>3, Appended
<1>5. Len(inbox) + 1 \in Heard'
      /\ \A j \in Heard' : Len(inbox) + 1 >= j
  BY <1>2, <1>4 DEF Heard
<1>6. NominalTypeOK' /\ VehicleInv' /\ AnswerInv' /\ NeverAborts'
  BY <1>1, <1>2, ReportNominal DEF Timers
<1>7. UNCHANGED <<state, heartbeat_age, disarm_age, armed>>
  BY <1>1 DEF vars, progress, clocks, vehicle
<1>8. timer'["landing"] = timer["landing"]
  BY <1>1 DEF NominalTypeOK, Timers
<1>9. HeartbeatInv'
  BY <1>5, <1>7 DEF HeartbeatInv
<1>10. ~armed => DisarmReported'
  BY <1>2, <1>4, <1>5 DEF DisarmReported
<1>11. LandingInv'
  BY <1>7, <1>8, <1>10 DEF LandingInv
<1> QED
  BY <1>6, <1>9, <1>11 DEF NominalParts

(* The vehicle lands within LandingTime of being in Land mode. *)
LEMMA FlightTouchDown ==
  ASSUME NominalInv, NominalTouchDown
  PROVE  NominalParts'
<1> USE DEF NominalInv, SessionInv
<1>1. /\ armed /\ mode = "land" /\ ~armed'
      /\ timer' = [timer EXCEPT !["landing"] = 0]
      /\ UNCHANGED <<vars, inbox, uplink, mode, accepted, foreign>>
  BY DEF NominalTouchDown, TouchDown, Restart
<1>2. UNCHANGED <<state, attempts, send_age, heartbeat_age, disarm_age>>
  BY <1>1 DEF vars, progress, clocks
<1>3. /\ timer'["answer"] = timer["answer"]
      /\ timer'["heartbeat"] = timer["heartbeat"]
      /\ timer' \in [Timers -> Nat]
      /\ \A s \in Timers : timer'[s] = timer[s] \/ timer'[s] = 0
  BY <1>1 DEF NominalTypeOK, Timers
<1>4. NominalTypeOK'
  <2>1. \A s \in Timers : Limit(s) >= 0
    BY NominalAssumption, TimingAssumption DEF Timers, Limit
  <2>2. \A s \in Timers : timer'[s] <= Limit(s)
    BY <1>3, <2>1 DEF NominalTypeOK
  <2> QED
    BY <1>1, <1>3, <2>2 DEF NominalTypeOK, Limit
<1>5. HeartbeatInv'
  BY <1>1, <1>2, <1>3 DEF HeartbeatInv, Heard
<1>6. VehicleInv'
  BY <1>1 DEF VehicleInv, Answers, Ack
<1>7. AnswerInv'
  <2>1. \A c \in Commands : Answered(c) => Answered(c)'
    BY <1>1, <1>2 DEF Answered, Answers, Ack
  <2>2. \A c \in Commands : Unanswered(c) => Unanswered(c)'
    BY <1>1, <1>2, <1>3 DEF Unanswered
  <2> QED
    BY <1>1, <1>2, <2>1, <2>2 DEF AnswerInv
<1>8. LandingInv'
  <2>1. state = "WAIT_DISARMED" => disarm_age <= LandingTime
    BY <1>1, Limits, NominalAssumption
    DEF LandingInv, IndInv, TypeOK
  <2>2. timer["heartbeat"] \in Nat /\ LandingTime \in Nat /\ disarm_age \in Nat
    BY NominalAssumption DEF NominalTypeOK, Timers, IndInv, TypeOK
  <2> QED
    BY <1>1, <1>2, <1>3, <2>1, <2>2 DEF LandingInv
<1> QED
  BY <1>2, <1>4, <1>5, <1>6, <1>7, <1>8 DEF NominalParts, NeverAborts

(* The vehicle accepts the command at the head of the link. *)
LEMMA FlightAccept ==
  ASSUME NominalInv, NominalAccept
  PROVE  NominalParts'
<1> USE AwaitedStates DEF NominalInv, SessionInv
<1> DEFINE c == Head(uplink).command
           f == [kind |-> "ack", payload |-> [command |-> c, accepted |-> TRUE]]
<1>1. /\ uplink # <<>> /\ uplink' = Tail(uplink)
      /\ inbox' = Append(inbox, f)
      /\ accepted' = accepted \cup {c}
      /\ armed' = (armed \/ c = "arm")
      /\ mode' = CASE c = "offboard" -> "offboard"
                   [] c = "land" -> "land"
                   [] c = "arm" -> mode
      /\ timer' = [timer EXCEPT !["answer"] = 0]
      /\ UNCHANGED <<vars, foreign>>
  BY DEF NominalAccept, AcceptCommand, Report, Restart
<1>2. UNCHANGED <<state, attempts, send_age, heartbeat_age, disarm_age>>
  BY <1>1 DEF vars, progress, clocks
<1>3. /\ inbox \in Seq(Frames) /\ uplink \in Seq(Links)
      /\ Len(uplink) \in Nat /\ DOMAIN uplink = 1..Len(uplink)
  BY DEF SessionTypeOK, Links
<1>4. /\ uplink' \in Seq(Links)
      /\ Len(uplink) > 0 /\ Head(uplink) = uplink[1] /\ Head(uplink) \in Links
      /\ Len(uplink') = Len(uplink) - 1
      /\ DOMAIN uplink' = 1..(Len(uplink) - 1)
      /\ \A i \in 1..Len(uplink') : uplink'[i] = uplink[i + 1]
  <2>1. /\ Len(uplink) > 0 /\ Head(uplink) = uplink[1] /\ Head(uplink) \in Links
        /\ Tail(uplink) \in Seq(Links)
        /\ Len(Tail(uplink)) = Len(uplink) - 1
        /\ \A i \in 1..Len(Tail(uplink)) : Tail(uplink)[i] = uplink[i + 1]
    BY <1>1, <1>3, TailLater
  <2> QED
    BY <1>1, <2>1
<1>5. c \in Commands /\ uplink[1].command = c
  BY <1>4 DEF Links
<1>6. f \in Frames /\ f.kind = "ack" /\ f.payload.command = c /\ f.payload.accepted
  <2>1. f.payload \in [command : Commands \cup {"other"}, accepted : BOOLEAN]
    BY <1>5
  <2> QED
    BY <2>1 DEF Frames, Acks
<1> HIDE DEF f, c
<1>7. /\ inbox'[Len(inbox) + 1] = f /\ Len(inbox) \in Nat
      /\ DOMAIN inbox = 1..Len(inbox) /\ DOMAIN inbox' = 1..(Len(inbox) + 1)
      /\ \A i \in DOMAIN inbox : inbox'[i] = inbox[i]
      /\ \A i \in DOMAIN inbox' : i \in DOMAIN inbox \/ i = Len(inbox) + 1
  BY <1>1, <1>3, <1>6, Appended
<1>8. /\ Answers \subseteq Answers' /\ Len(inbox) + 1 \in Answers'
      /\ \A i \in DOMAIN inbox' :
           Ack(i)' => i \in Answers' /\ inbox'[i].payload.accepted
  BY <1>1, <1>5, <1>6, <1>7 DEF Answers, Ack, VehicleInv
<1>9. timer'["answer"] = 0 /\ timer' \in [Timers -> Nat]
      /\ timer'["heartbeat"] = timer["heartbeat"]
      /\ timer'["landing"] = timer["landing"]
      /\ \A s \in Timers : timer'[s] = timer[s] \/ timer'[s] = 0
  BY <1>1 DEF NominalTypeOK, Timers
<1>10. NominalTypeOK'
  <2>1. \A s \in Timers : Limit(s) >= 0
    BY NominalAssumption, TimingAssumption DEF Timers, Limit
  <2>2. \A s \in Timers : timer'[s] <= Limit(s)
    BY <1>9, <2>1 DEF NominalTypeOK
  <2> QED
    BY <1>9, <2>2 DEF NominalTypeOK, Limit
<1>11. Heard' = Heard
       /\ \A i \in Heard : inbox'[i].payload.armed = inbox[i].payload.armed
  BY <1>6, <1>7 DEF Heard
<1>12. HeartbeatInv'
  BY <1>2, <1>9, <1>11 DEF HeartbeatInv
<1>13. VehicleInv'
  <2>1. \A d \in accepted : Rank[d] <= Rank[c]
    BY <1>3, <1>4, <1>5 DEF OrderInv
  <2>2. Rank["offboard"] = 1 /\ Rank["arm"] = 2 /\ Rank["land"] = 3
    BY DEF Rank
  <2>3. "land" \in accepted => c = "land"
    BY <1>5, <2>1, <2>2
  <2>4. (\A i \in DOMAIN inbox :
           Ack(i) => i \in Answers /\ inbox[i].payload.accepted)'
    BY <1>8
  <2>5. "land" \in accepted' <=> mode' = "land"
    BY <1>1, <1>5, <2>3 DEF VehicleInv
  <2>6. "offboard" \in accepted' /\ "land" \notin accepted' => mode' = "offboard"
    BY <1>1, <1>5, <2>3 DEF VehicleInv
  <2>7. "arm" \in accepted' /\ "land" \notin accepted' => armed'
    BY <1>1, <1>5 DEF VehicleInv
  <2>8. foreign' = {}
    BY <1>1 DEF VehicleInv
  <2> QED
    BY <2>4, <2>5, <2>6, <2>7, <2>8 DEF VehicleInv
<1>14. AnswerInv'
  <2>1. ASSUME NEW d \in Commands, state = Awaited[d], d \in accepted
        PROVE  Answered(d)'
    <3>1. Answered(d) /\ attempts[d] \in Nat
      BY <2>1 DEF AnswerInv, IndInv, TypeOK
    <3>2. PICK i \in Answers : inbox[i].payload.command = d
      BY <3>1 DEF Answered
    <3>3. i \in Answers' /\ inbox'[i].payload.command = d
      BY <1>7, <1>8, <3>2 DEF Answers
    <3>4. Len(uplink') < attempts[d]
      BY <1>3, <1>4, <3>1 DEF Answered
    <3> QED
      BY <1>2, <3>1, <3>3, <3>4 DEF Answered
  <2>2. ASSUME NEW d \in Commands, state = Awaited[d], d \notin accepted
        PROVE  IF d = c THEN Answered(d)' ELSE Unanswered(d)'
    <3> DEFINE before == Len(uplink) - attempts[d]
    <3>1. /\ before \in 0..Backlog[d]
          /\ \A i \in DOMAIN uplink : uplink[i].command = d <=> i > before
          /\ (attempts[d] - 1) * RetryInterval + send_age
               <= (Backlog[d] - before) * ResponseTime + timer["answer"]
      BY <2>2 DEF AnswerInv, Unanswered
    <3>2. attempts[d] \in Nat \ {0} /\ send_age \in Nat /\ Backlog[d] \in Nat
      BY <2>2, SentBefore, Backlogs
    <3>3. d = c <=> before = 0
      BY <1>3, <1>4, <1>5, <3>1, <3>2
    <3>4. Len(uplink) = attempts[d] + before
      BY <1>3, <3>2
    <3> HIDE DEF before
    <3>5. /\ before > 0 => (attempts[d] - 1) * RetryInterval + send_age
                             <= (Backlog[d] - (before - 1)) * ResponseTime + 0
          /\ (attempts[d] - 1) * RetryInterval
               <= (Backlog[d] + 1) * ResponseTime
      BY <3>1, <3>2, Limits, Patience
    <3>6. CASE d = c
      <4>1. inbox'[Len(inbox) + 1].payload.command = d
        BY <1>6, <1>7, <3>6
      <4>2. Len(uplink') < attempts[d]
        BY <1>3, <1>4, <3>2, <3>3, <3>4, <3>6
      <4> QED
        BY <1>2, <1>8, <3>5, <3>6, <4>1, <4>2 DEF Answered
    <3>7. CASE d # c
      <4> DEFINE after == Len(uplink') - attempts'[d]
      <4>1. before > 0
        BY <3>1, <3>2, <3>3, <3>7
      <4>2. after = before - 1 /\ after \in 0..Backlog[d]
        <5>1. Len(uplink') - attempts'[d] = before - 1
          BY <1>2, <1>3, <1>4, <3>1, <3>2, <3>4
        <5>2. before - 1 \in 0..Backlog[d]
          BY <3>1, <3>2, <4>1
        <5> QED
          BY <5>1, <5>2
      <4> HIDE DEF after
      <4>3. ASSUME NEW i \in DOMAIN uplink'
            PROVE  uplink'[i].command = d <=> i > after
        <5>1. i + 1 \in DOMAIN uplink /\ uplink'[i] = uplink[i + 1]
              /\ i \in Nat
          BY <1>3, <1>4
        <5> QED
          BY <3>1, <3>2, <4>2, <5>1
      <4>4. (attempts'[d] - 1) * RetryInterval + send_age'
              <= (Backlog[d] - after) * ResponseTime + timer'["answer"]
        BY <1>2, <1>9, <3>5, <4>1, <4>2
      <4>5. Unanswered(d)'
        BY <4>2, <4>3, <4>4 DEF Unanswered, after
      <4> QED
        BY <3>7, <4>5
    <3> QED
      BY <3>6, <3>7
  <2>3. state \notin Unplaced \cup {"PRESTREAM_SETPOINT"}
    BY <1>1 DEF AnswerInv
  <2>4. state \in {"REPLAY_TRAJECTORY", "HOLD_POSITION", "COMMAND_LAND"} =>
          Len(uplink') <= Backlog["land"]
    BY <1>3, <1>4, Backlogs DEF AnswerInv
  <2> QED
    BY <1>1, <1>2, <2>1, <2>2, <2>3, <2>4 DEF AnswerInv
<1>15. LandingInv'
  <2> SUFFICES ASSUME state = "WAIT_DISARMED" PROVE LandingInv'
    BY <1>2 DEF LandingInv
  <2>1. "land" \in accepted
    BY DEF AcknowledgedWereAccepted, VehicleInv, Claimed
  <2>2. AcceptCommand
    BY DEF NominalAccept
  <2>3. armed' = armed
    BY <2>1, <2>2, AnswerSession
  <2>4. DisarmReported' <=> DisarmReported
    BY <1>7, <1>11 DEF DisarmReported
  <2> QED
    BY <1>2, <1>9, <2>3, <2>4 DEF LandingInv
<1> QED
  BY <1>2, <1>10, <1>12, <1>13, <1>14, <1>15 DEF NominalParts, NeverAborts

(* The lines typed, and the end of the program *)
LEMMA FlightQuiet ==
  ASSUME NominalInv, UNCHANGED <<session, timer>>
  PROVE  NominalParts'
<1>1. UNCHANGED <<state, attempts, send_age, heartbeat_age, disarm_age,
                  inbox, uplink, armed, mode, accepted, foreign, timer>>
  BY DEF session, vars, progress, clocks, vehicle
<1> QED
  BY <1>1
  DEF NominalInv, NominalParts, NominalTypeOK, HeartbeatInv, VehicleInv,
      AnswerInv, LandingInv, NeverAborts, Limit, Heard, Answers, Ack,
      Unanswered, Answered, DisarmReported

-----------------------------------------------------------------------------
(* The theorems *)

LEMMA NextNominalInv == NominalInv /\ [NominalNext]_nominal => NominalInv'
<1> SUFFICES ASSUME NominalInv, [NominalNext]_nominal PROVE NominalInv'
  OBVIOUS
<1>1. SessionInv'
  BY NominalRefines, NextSessionInv DEF NominalInv
<1>2. NominalParts'
  <2>1. CASE NominalTurn
    BY <2>1, FlightTurn
  <2>2. CASE NominalTick
    BY <2>2, FlightTick
  <2>3. CASE NominalHeartbeat
    BY <2>3, FlightHeartbeat
  <2>4. CASE NominalPosition
    BY <2>4, FlightPosition
  <2>5. CASE NominalAccept
    BY <2>5, FlightAccept
  <2>6. CASE NominalTouchDown
    BY <2>6, FlightTouchDown
  <2>7. CASE UNCHANGED <<session, timer>>
    BY <2>7, FlightQuiet
  <2> QED
    BY <2>1, <2>2, <2>3, <2>4, <2>5, <2>6, <2>7
    DEF NominalNext, TypeLine, NominalStopped, nominal
<1> QED
  BY <1>1, <1>2 DEF NominalInv, NominalParts

(* A flight of NominalFlight is one of ReplaySession, and the ages the      *)
(* controller keeps are bounded by how long the vehicle lets it wait.      *)
THEOREM NominalInvariant == NominalSpec => []NominalInv
<1>1. NominalInit => NominalInv
  BY InitNominalInv
<1>2. NominalInv /\ [NominalNext]_nominal => NominalInv'
  BY NextNominalInv
<1> QED
  BY <1>1, <1>2, PTL DEF NominalSpec

(* Whatever the intervals, the number of attempts and the response time,    *)
(* as long as a command is answered before the last attempt is due, no     *)
(* flight ends in CONTROL_ERROR (main.c 280, 477, 535, 683, 721).          *)
THEOREM NeverGivenUp == NominalSpec => []NeverAborts
<1>1. NominalInv => NeverAborts
  BY DEF NominalInv
<1> QED
  BY <1>1, NominalInvariant, PTL

(* While the trajectory is flown the vehicle is armed and in Offboard mode  *)
(* (main.c 443, 515, 558, 598).                                            *)
THEOREM FliesArmed == NominalSpec => []FliesArmedInOffboard
<1>1. NominalInv => FliesArmedInOffboard
  <2> SUFFICES ASSUME NominalInv,
                      state \in {"REPLAY_TRAJECTORY", "HOLD_POSITION"}
               PROVE  armed /\ mode = "offboard"
    BY DEF FliesArmedInOffboard
  <2>1. "offboard" \in accepted /\ "arm" \in accepted
    BY DEF NominalInv, SessionInv, AcknowledgedWereAccepted, VehicleInv,
           Claimed, Armed
  <2>2. "land" \notin Requested
    BY AwaitedStates
    DEF NominalInv, SessionInv, IndInv, AttemptInv, Requested, Streaming
  <2>3. "land" \notin accepted
    BY <2>2 DEF NominalInv, SessionInv, RequestInv
  <2> QED
    BY <2>1, <2>3 DEF NominalInv, VehicleInv
<1> QED
  BY <1>1, NominalInvariant, PTL
=============================================================================
