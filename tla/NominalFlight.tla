----------------------------- MODULE NominalFlight -----------------------------
(***************************************************************************)
(* ReplaySession on a day without faults: nothing is lost or refused, the  *)
(* vehicle reports and answers punctually, lands within the disarm timeout *)
(* and nobody else is on the link.  The operator types lines at a terminal *)
(* at any time, "l" among them once.  Then the timeouts of control/main.c  *)
(* must not get in the way of each other or of the flight.                 *)
(*                                                                         *)
(* Punctuality is a guard on time: Tick waits for what is due.             *)
(***************************************************************************)
EXTENDS ReplaySession

CONSTANTS
  HeartbeatPeriod,    \* the vehicle sends a heartbeat at least that often
  PositionPeriod,     \* and its local position
  ResponseTime,       \* to accept and acknowledge one command
  LandingTime,        \* from Land to automatic disarm
  MaxLines            \* other lines the operator types

(* How many copies of earlier commands may be on their way when a command   *)
(* is sent first.  Its first copy is accepted once those before it are,    *)
(* and until then it is repeated every RetryInterval.                      *)
RepeatsDuring(copies) == (copies * ResponseTime) \div RetryInterval

Backlog == [c \in Commands |->
  CASE c = "offboard" -> 0
    [] c = "arm" -> RepeatsDuring(1)
    [] c = "land" -> RepeatsDuring(RepeatsDuring(1) + 1)]

(* A vehicle that accepts everything in time: every command before its last *)
(* attempt has waited for its answer, although the copies of the command   *)
(* before it are answered first, and none of them finds the link full.     *)
ASSUME NominalAssumption ==
  /\ SendOutcomes = {TRUE} /\ Components = {Autopilot} /\ ForeignCommands = {}
  /\ \A o \in Origins : CanApplyOrigin(Trajectory, o)
  /\ HeartbeatPeriod \in Nat \ {0} /\ PositionPeriod \in Nat \ {0}
  /\ ResponseTime \in Nat /\ LandingTime \in Nat /\ MaxLines \in Nat
  /\ HeartbeatPeriod < HeartbeatTimeout
  /\ LandingTime + HeartbeatPeriod < DisarmTimeout
  /\ \A c \in Commands :
       /\ (Backlog[c] + 1) * ResponseTime < MaxAttempts * RetryInterval
       /\ Backlog[c] + MaxAttempts <= MaxUplink

VARIABLES
  timer,     \* how long each kind of event of the vehicle is outstanding
  typed,     \* the first bytes of the lines typed and not yet read
  lines      \* history: the other lines typed, and whether "l" was

nominal == <<session, timer, typed, lines>>

Timers == {"heartbeat", "position", "answer", "unread", "landing"}

NominalInit ==
  /\ SessionInit
  /\ timer = [t \in Timers |->
       CASE t = "heartbeat" -> HeartbeatPeriod
         [] t = "position" -> PositionPeriod
         [] OTHER -> 0]
  /\ typed = <<>>
  /\ lines = [other |-> 0, l |-> FALSE]

Restart(t) == timer' = [timer EXCEPT ![t] = 0]

-----------------------------------------------------------------------------
(* The controller and the operator *)

(* What read() of standard input would find; one line per read. *)
TypedByte == IF typed = <<>> THEN "none" ELSE Head(typed)

(* A turn that gets to the read() of CONTROL_HOLD_POSITION *)
Reads(rx) ==
  state = "HOLD_POSITION" /\ SetpointDue /\ ~ConnectionLost(rx)

(* Variant: standard input is drained in every state. *)
ReadTypedAlways(rx) == typed' = IF typed = <<>> THEN typed ELSE Tail(typed)

ReadTyped(rx) ==
  IF Reads(rx) /\ typed # <<>> THEN typed' = Tail(typed) ELSE UNCHANGED typed

(* poll() returns for a frame, for a typed line or at its timeout. *)
NominalTurn ==
  /\ inbox # <<>> \/ typed # <<>> \/ PollTimedOut
  /\ ControllerTurn
  /\ LET rx == receive_px4_messages(SubSeq(inbox, 1, Len(inbox))) IN
     /\ Reads(rx) => HoldOrLand(rx, TypedByte)
     /\ ReadTyped(rx)
  /\ Restart("unread")
  /\ UNCHANGED lines

TypeLine(byte) ==
  /\ IF byte = "l"
     THEN ~lines.l /\ lines' = [lines EXCEPT !.l = TRUE]
     ELSE lines.other < MaxLines /\ lines' = [lines EXCEPT !.other = @ + 1]
  /\ typed' = Append(typed, byte)
  /\ UNCHANGED <<session, timer>>

-----------------------------------------------------------------------------
(* The vehicle *)

(* At most one of each report per time unit *)
NominalHeartbeat ==
  /\ timer["heartbeat"] > 0
  /\ SendHeartbeat(Autopilot)
  /\ Restart("heartbeat")
  /\ UNCHANGED <<typed, lines>>

NominalPosition ==
  /\ timer["position"] > 0
  /\ \E p \in Origins : SendPosition(p)
  /\ Restart("position")
  /\ UNCHANGED <<typed, lines>>

NominalAccept ==
  /\ AcceptCommand
  /\ Restart("answer")
  /\ UNCHANGED <<typed, lines>>

NominalTouchDown ==
  /\ TouchDown
  /\ Restart("landing")
  /\ UNCHANGED <<typed, lines>>

-----------------------------------------------------------------------------
(* Time passes until something is due. *)

Outstanding(t) ==
  CASE t = "answer" -> uplink # <<>>
    [] t = "unread" -> inbox # <<>>
    [] t = "landing" -> mode = "land" /\ armed
    [] OTHER -> TRUE

Limit(t) ==
  CASE t = "heartbeat" -> HeartbeatPeriod
    [] t = "position" -> PositionPeriod
    [] t = "answer" -> ResponseTime
    [] t = "unread" -> MaxLate
    [] t = "landing" -> LandingTime

NominalTick ==
  /\ \A t \in Timers : Outstanding(t) => timer[t] < Limit(t)
  /\ Tick
  /\ timer' = [t \in Timers |-> IF Outstanding(t) THEN timer[t] + 1 ELSE 0]
  /\ UNCHANGED <<inbox, uplink, vehicle, foreign, typed, lines>>

NominalStopped == Stopped /\ UNCHANGED nominal

NominalNext ==
  \/ NominalTurn
  \/ \E byte \in {"l", "other"} : TypeLine(byte)
  \/ NominalHeartbeat
  \/ NominalPosition
  \/ NominalAccept
  \/ NominalTouchDown
  \/ NominalTick
  \/ NominalStopped

(* The loop turns when it is woken, time passes, the vehicle reports and    *)
(* answers, and the operator asks for the landing at some time.            *)
NominalFairness ==
  /\ WF_nominal(NominalTurn)
  /\ WF_nominal(NominalTick)
  /\ WF_nominal(NominalHeartbeat)
  /\ WF_nominal(NominalPosition)
  /\ WF_nominal(NominalAccept)
  /\ WF_nominal(NominalTouchDown)
  /\ WF_nominal(TypeLine("l"))

NominalSpec == NominalInit /\ [][NominalNext]_nominal /\ NominalFairness
-----------------------------------------------------------------------------
(* Correctness *)

(* No timeout fires and no attempt is the last one by mistake: a vehicle    *)
(* that is merely slow, but within the limits of NominalAssumption, with   *)
(* commands repeated and acknowledged twice, is never given up (main.c     *)
(* 280, 477, 535, 683, 721).                                               *)
NeverAborts == state # "ERROR"

(* The flight is flown to its end: the trajectory, the wait for the         *)
(* operator, whenever the landing was asked for, even before the replay    *)
(* began, and the landing (main.c 295-735).                                *)
FlightCompletes == <>(state = "COMPLETE")

(* While the trajectory is flown and its end is held the vehicle is armed   *)
(* and in Offboard mode, so that it follows the setpoints: no              *)
(* acknowledgement of a repeated command stands in for another's.          *)
FliesArmedInOffboard ==
  state \in {"REPLAY_TRAJECTORY", "HOLD_POSITION"} =>
    armed /\ mode = "offboard"
-----------------------------------------------------------------------------
(* Why no timeout fires: an age the controller keeps is bounded by how long *)
(* the vehicle has let it wait.                                            *)

NominalTypeOK ==
  /\ timer \in [Timers -> Nat]
  /\ \A t \in Timers : timer[t] <= Limit(t)
  /\ uplink = <<>> => timer["answer"] = 0

Heard == {i \in DOMAIN inbox : inbox[i].kind = "heartbeat"}

(* Before a heartbeat is read the last one is not older than the vehicle    *)
(* leaves between two of them.                                             *)
HeartbeatInv ==
  /\ state = "WAIT_HEARTBEAT" => heartbeat_age = 0
  /\ Heard = {} => heartbeat_age <= timer["heartbeat"]

(* The vehicle, and nobody else, has accepted what it has answered, in the  *)
(* mode this asks for.                                                     *)
VehicleInv ==
  /\ foreign = {}
  /\ \A i \in DOMAIN inbox :
       Ack(i) => i \in Answers /\ inbox[i].payload.accepted
  /\ "land" \in accepted <=> mode = "land"
  /\ "offboard" \in accepted /\ "land" \notin accepted => mode = "offboard"
  /\ "arm" \in accepted /\ "land" \notin accepted => armed

(* The copies of c on the link are behind at most Backlog[c] others, which  *)
(* are answered one by one while c is repeated.                            *)
Unanswered(c) ==
  LET before == Len(uplink) - attempts[c] IN
  /\ before \in 0..Backlog[c]
  /\ \A i \in DOMAIN uplink : uplink[i].command = c <=> i > before
  /\ (attempts[c] - 1) * RetryInterval + send_age
       <= (Backlog[c] - before) * ResponseTime + timer["answer"]

(* The answer is in the buffer, and c was not repeated since it came. *)
Answered(c) ==
  /\ \E i \in Answers : inbox[i].payload.command = c
  /\ Len(uplink) < attempts[c]
  /\ (attempts[c] - 1) * RetryInterval <= (Backlog[c] + 1) * ResponseTime

AnswerInv ==
  /\ \A c \in Commands : state = Awaited[c] =>
       IF c \in accepted THEN Answered(c) ELSE Unanswered(c)
  /\ state \in Unplaced \cup {"PRESTREAM_SETPOINT"} => uplink = <<>>
  /\ state \in {"REPLAY_TRAJECTORY", "HOLD_POSITION", "COMMAND_LAND"} =>
       Len(uplink) <= Backlog["land"]

(* The last heartbeat on its way to the controller says disarmed. *)
DisarmReported ==
  \E i \in Heard : ~inbox[i].payload.armed /\ \A j \in Heard : i >= j

LandingInv ==
  state = "WAIT_DISARMED" =>
    IF armed THEN disarm_age <= timer["landing"]
             ELSE \/ DisarmReported
                  \/ disarm_age <= LandingTime + timer["heartbeat"]

NominalInv ==
  /\ SessionInv
  /\ NominalTypeOK
  /\ HeartbeatInv
  /\ VehicleInv
  /\ AnswerInv
  /\ LandingInv
  /\ NeverAborts
=============================================================================
