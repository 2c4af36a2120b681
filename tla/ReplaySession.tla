----------------------------- MODULE ReplaySession -----------------------------
(***************************************************************************)
(* The controller of ControlLoop together with the vehicle it commands and *)
(* the link between them.                                                  *)
(*                                                                         *)
(* The vehicle (PX4) and the link are not part of the repository.  They    *)
(* are modelled from what control/main.c sends, expects and reads: a       *)
(* command is accepted or rejected, each received copy is acknowledged,    *)
(* heartbeats carry the armed flag.  The link keeps the order of frames    *)
(* (a UART, or UDP to a local simulator) and may lose any of them.  Frames *)
(* wait in the socket or tty buffer (inbox) until the loop drains it.      *)
(* Acknowledgements of others reach the same buffer, and the program       *)
(* cannot tell them from those of its vehicle.                             *)
(***************************************************************************)
EXTENDS ControlLoop

CONSTANTS
  Autopilot,     \* the component that flies the vehicle
  MaxInbox,      \* frames the receive buffer holds
  MaxUplink,     \* commands under way to the vehicle
  ForeignCommands \* what others, vehicles and stations, acknowledge here

ASSUME SessionAssumption ==
  /\ Autopilot \in Components
  /\ MaxInbox \in Nat \ {0}
  /\ MaxUplink \in Nat \ {0}
  /\ ForeignCommands \subseteq Commands \cup {"other"}

VARIABLES
  inbox,       \* frames on their way to the controller, oldest first
  uplink,      \* [command, to] on their way to the vehicle, oldest first
  armed,       \* the vehicle is armed
  mode,        \* its flight mode, as far as the controller asks for it
  accepted,    \* history: the commands the vehicle has accepted
  foreign      \* history: the commands others have acknowledged on this link

vehicle == <<armed, mode, accepted>>
session == <<vars, inbox, uplink, vehicle, foreign>>

SessionInit ==
  /\ Init
  /\ inbox = <<>>
  /\ uplink = <<>>
  /\ armed = FALSE
  /\ mode = "other"
  /\ accepted = {}
  /\ foreign = {}

Drop(seq, n) == SubSeq(seq, n + 1, Len(seq))

-----------------------------------------------------------------------------
(* The controller's side *)

(* CONTROL_WAIT_HEARTBEAT reads one datagram, which may hold several        *)
(* frames; every other state drains the buffer.                            *)
Batches == IF state = "WAIT_HEARTBEAT" THEN 0..Len(inbox) ELSE {Len(inbox)}

(* What the turn transmitted is under way, or lost when the link is full. *)
Uplinked ==
  IF outbox'.command # "none" /\ Len(uplink) < MaxUplink
  THEN uplink' = Append(uplink, [command |-> outbox'.command, to |-> target])
  ELSE UNCHANGED uplink

ControllerTurn ==
  /\ \E n \in Batches :
       /\ Iterate(receive_px4_messages(SubSeq(inbox, 1, n)))
       /\ inbox' = Drop(inbox, n)
  /\ Uplinked
  /\ UNCHANGED <<vehicle, foreign>>

ControllerOther ==
  /\ IOFailure \/ Tick \/ Stopped
  /\ UNCHANGED <<inbox, uplink, vehicle, foreign>>

-----------------------------------------------------------------------------
(* The vehicle's side *)

Report(kind, payload) ==
  /\ Len(inbox) < MaxInbox
  /\ inbox' = Append(inbox, [kind |-> kind, payload |-> payload])

(* The autopilot's heartbeat carries MAV_MODE_FLAG_SAFETY_ARMED; another    *)
(* component's heartbeat on the same link never does.                      *)
SendHeartbeat(c) ==
  /\ Report("heartbeat", [from |-> c, armed |-> c = Autopilot /\ armed])
  /\ UNCHANGED <<vars, uplink, vehicle, foreign>>

SendPosition(p) ==
  /\ Report("position", p)
  /\ UNCHANGED <<vars, uplink, vehicle, foreign>>

(* Commands to another component than the autopilot change nothing. *)
IgnoreCommand ==
  /\ uplink # <<>>
  /\ Head(uplink).to # Autopilot
  /\ uplink' = Tail(uplink)
  /\ UNCHANGED <<vars, inbox, vehicle, foreign>>

RejectCommand ==
  /\ uplink # <<>>
  /\ Head(uplink).to = Autopilot
  /\ uplink' = Tail(uplink)
  /\ Report("ack", [command |-> Head(uplink).command, accepted |-> FALSE])
  /\ UNCHANGED <<vars, vehicle, foreign>>

AcceptCommand ==
  /\ uplink # <<>>
  /\ Head(uplink).to = Autopilot
  /\ LET c == Head(uplink).command IN
     /\ Report("ack", [command |-> c, accepted |-> TRUE])
     /\ accepted' = accepted \cup {c}
     /\ armed' = (armed \/ c = "arm")
     /\ mode' = CASE c = "offboard" -> "offboard"
                  [] c = "land" -> "land"
                  [] c = "arm" -> mode
  /\ uplink' = Tail(uplink)
  /\ UNCHANGED <<vars, foreign>>

(* Another vehicle answers, or this one answers another ground station,     *)
(* for any command and either way.  A COMMAND_ACK is decoded without its   *)
(* sender and its target (mavlink_decode.c 291-300), so main.c 443, 516    *)
(* and 663 take it for the awaited one.                                    *)
ForeignAck ==
  \E c \in ForeignCommands, ok \in BOOLEAN :
    /\ Report("ack", [command |-> c, accepted |-> ok])
    /\ foreign' = foreign \cup {c}
    /\ UNCHANGED <<vars, uplink, vehicle>>

(* On the ground in Land mode the vehicle disarms by itself. *)
TouchDown ==
  /\ mode = "land"
  /\ armed
  /\ armed' = FALSE
  /\ UNCHANGED <<vars, inbox, uplink, mode, accepted, foreign>>

(* The pilot or the Offboard-loss failsafe takes the vehicle over. *)
LeaveOffboard ==
  /\ mode = "offboard"
  /\ mode' \in {"other", "land"}
  /\ UNCHANGED <<vars, inbox, uplink, armed, accepted, foreign>>

LoseFrame ==
  /\ \/ inbox # <<>> /\ inbox' = Tail(inbox) /\ UNCHANGED uplink
     \/ uplink # <<>> /\ uplink' = Tail(uplink) /\ UNCHANGED inbox
  /\ UNCHANGED <<vars, vehicle, foreign>>

SessionNext ==
  \/ ControllerTurn
  \/ ControllerOther
  \/ \E c \in Components : SendHeartbeat(c)
  \/ \E p \in Origins : SendPosition(p)
  \/ IgnoreCommand
  \/ RejectCommand
  \/ AcceptCommand
  \/ ForeignAck
  \/ TouchDown
  \/ LeaveOffboard
  \/ LoseFrame

SessionSpec == SessionInit /\ [][SessionNext]_session

-----------------------------------------------------------------------------
(* Correctness *)

Armed == {"REPLAY_TRAJECTORY", "HOLD_POSITION"} \cup Landing \cup {"COMPLETE"}

(* What the vehicle has accepted, and what someone else has acknowledged on *)
(* the link, either way                                                    *)
Claimed == accepted \cup foreign

(* The controller goes on only after what it asked for was accepted: the    *)
(* second acknowledgement of a repeated command never stands in for that   *)
(* of the next one.  The only thing that does is someone else's            *)
(* acknowledgement of the very command that is awaited (main.c 443, 516,   *)
(* 663); one of another command does not.                                  *)
AcknowledgedWereAccepted ==
  /\ state \in {"WAIT_ARM_ACK"} \cup Armed => "offboard" \in Claimed
  /\ state \in Armed => "arm" \in Claimed
  /\ state \in {"WAIT_DISARMED", "COMPLETE"} => "land" \in Claimed

(* README 102: the replay confirms command acknowledgements.  When the      *)
(* program ends successfully its vehicle has accepted all it asked for.    *)
CommandsConfirmed == state = "COMPLETE" => accepted = Commands

(* A replay whose first heartbeat came from another component than the      *)
(* autopilot sends every command to that component (main.c 332).  It never *)
(* gets past the wait for Offboard, although the autopilot's heartbeats    *)
(* and positions keep it going, unless someone else's acknowledgement of   *)
(* an Offboard request is on the link.                                     *)
WrongTargetNeverFlies ==
  target # Autopilot /\ "offboard" \notin foreign =>
    state \notin {"WAIT_ARM_ACK"} \cup Armed

(* README 107: the controller waits for automatic disarm.  When it reports  *)
(* success the vehicle is disarmed and stays so, whatever heartbeats and    *)
(* repeated commands were still on the link.                               *)
CompleteMeansDisarmed == state = "COMPLETE" => ~armed

Strangers ==
  {i \in DOMAIN inbox :
     inbox[i].kind = "heartbeat" /\ inbox[i].payload.from # Autopilot}

(* The same as long as the turn that ends the program reads no other        *)
(* component's heartbeat and nobody else's Land was acknowledged: then the *)
(* vehicle is disarmed at that moment, although heartbeats sent before it  *)
(* was, or none, may be read, and no repeated command under way arms it    *)
(* again (main.c 711-730).                                                 *)
CompletesDisarmed ==
  [][/\ /\ ControllerTurn /\ state' = "COMPLETE"
        /\ Strangers = {} /\ "land" \notin foreign
        => ~armed
     /\ state = "COMPLETE" /\ ~armed /\ "land" \in accepted => ~armed'
    ]_session

Awaited == [c \in Commands |->
  CASE c = "offboard" -> "WAIT_OFFBOARD_ACK"
    [] c = "arm" -> "WAIT_ARM_ACK"
    [] c = "land" -> "WAIT_LAND_ACK"]

Ack(i) == inbox[i].kind = "ack"

(* Acknowledgements of commands that nobody else's acknowledgement names    *)
Answers ==
  {i \in DOMAIN inbox :
     Ack(i) /\ inbox[i].payload.command \in Commands \ foreign}

(* The vehicle's answer to c has arrived and none of others follows it.     *)
Waiting(c) ==
  \E i \in Answers :
    /\ inbox[i].payload.command = c
    /\ \A j \in i..Len(inbox) : Ack(j) => j \in Answers

(* Of the acknowledgements one drain finds, only the last is kept; if no    *)
(* one else's follows it, the awaited one is kept whenever it has arrived, *)
(* so no turn reads it and waits on: the late acknowledgement of an        *)
(* earlier command never hides it (px4_messages.c 78-83).  Someone else's  *)
(* may, which is why Waiting excludes it.                                  *)
AwaitedAckActedOn ==
  [][\A c \in Commands :
       ControllerTurn /\ state = Awaited[c] /\ Waiting(c) => state' # state
    ]_session

-----------------------------------------------------------------------------
(* Why they hold: the commands come in one order, and nothing on the link   *)
(* overtakes.                                                              *)

Rank == [c \in Commands |->
  CASE c = "offboard" -> 1 [] c = "arm" -> 2 [] c = "land" -> 3]

SessionTypeOK ==
  /\ inbox \in Seq(Frames)
  /\ uplink \in Seq([command : Commands, to : Components \cup {NoTarget}])
  /\ armed \in BOOLEAN
  /\ mode \in {"other", "offboard", "land"}
  /\ accepted \subseteq Commands
  /\ foreign \subseteq Commands \cup {"other"}

(* What is under way, answered or accepted was requested, all of it from    *)
(* the one target; the vehicle did accept what its acknowledgement says.   *)
RequestInv ==
  /\ accepted \subseteq Requested
  /\ accepted # {} => target = Autopilot
  /\ \A i \in DOMAIN uplink :
       uplink[i].command \in Requested /\ uplink[i].to = target
  /\ \A i \in Answers :
       /\ inbox[i].payload.command \in Requested
       /\ inbox[i].payload.accepted => inbox[i].payload.command \in accepted

(* Commands under way are in the order of the mission, behind those the     *)
(* vehicle has answered, whose acknowledgements are in this order, too.     *)
OrderInv ==
  /\ \A i, j \in DOMAIN uplink :
       i <= j => Rank[uplink[i].command] <= Rank[uplink[j].command]
  /\ \A i, j \in Answers :
       i <= j => Rank[inbox[i].payload.command] <= Rank[inbox[j].payload.command]
  /\ \A i \in DOMAIN uplink :
       /\ \A c \in accepted : Rank[c] <= Rank[uplink[i].command]
       /\ \A j \in Answers :
            Rank[inbox[j].payload.command] <= Rank[uplink[i].command]

(* The turn that accepts Land empties the buffer, so what the autopilot     *)
(* reported before it was armed is gone, and no Arm is left to be answered *)
(* if it was the vehicle that accepted Land.                               *)
DisarmInv ==
  state = "WAIT_DISARMED" /\ "land" \notin foreign =>
    \A i \in DOMAIN inbox :
      /\ inbox[i].kind = "heartbeat"
      /\ inbox[i].payload.from = Autopilot
      /\ ~inbox[i].payload.armed
      => ~armed

SessionInv ==
  /\ IndInv
  /\ SessionTypeOK
  /\ RequestInv
  /\ OrderInv
  /\ DisarmInv
  /\ AcknowledgedWereAccepted
=============================================================================
