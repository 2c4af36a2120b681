------------------------------ MODULE Px4Messages ------------------------------
(***************************************************************************)
(* What the controller understands of the incoming MAVLink frames, and how *)
(* one call of receive_px4_messages (control/px4_messages.c) turns the     *)
(* frames waiting on the transport into one PX4ReceivedMessages_t.         *)
(*                                                                         *)
(* Frames with a wrong checksum or an unknown message id are skipped by    *)
(* the code; here they are frames that never arrive, or kind "other".      *)
(***************************************************************************)
EXTENDS Integers, Sequences

CONSTANTS
  Components,    \* (system, component) identities that send heartbeats
  Origins,       \* the local positions the vehicle may report
  NoPosition,    \* no position
  NoTarget       \* the target before a heartbeat was seen

ASSUME MessageAssumption ==
  /\ Origins \subseteq Int
  /\ NoPosition \notin Int
  /\ NoTarget \notin Components

Commands == {"offboard", "arm", "land"}

(* The identity of a heartbeat's sender is read only when the peer is      *)
(* looked for; nothing compares it afterwards.                             *)
NoHeartbeat == [from |-> NoTarget, armed |-> FALSE]
Heartbeats == [from : Components, armed : BOOLEAN]

NoAck == [command |-> "none", accepted |-> FALSE]
Acks == [command : Commands \cup {"other"}, accepted : BOOLEAN]

(* PX4ReceivedMessages_t: at most one message of each kind *)
Received == [heartbeat : Heartbeats \cup {NoHeartbeat},
             position : Origins \cup {NoPosition},
             ack : Acks \cup {NoAck}]

Frames == [kind : {"heartbeat"}, payload : Heartbeats]
            \cup [kind : {"position"}, payload : Origins]
            \cup [kind : {"ack"}, payload : Acks]

(* Where the frames of a kind stand in a batch *)
Hits(batch, kind) == {i \in DOMAIN batch : batch[i].kind = kind}

(* Variant: the first message of a kind is kept. *)
FirstOf(batch, kind, none) ==
  IF Hits(batch, kind) = {} THEN none
  ELSE batch[CHOOSE i \in Hits(batch, kind) :
               \A j \in Hits(batch, kind) : i <= j].payload

(* A later message of the same kind overwrites the earlier one. *)
LastOf(batch, kind, none) ==
  IF Hits(batch, kind) = {} THEN none
  ELSE batch[CHOOSE i \in Hits(batch, kind) :
               \A j \in Hits(batch, kind) : i >= j].payload

(* The transport is drained and each kind keeps its last message. *)
receive_px4_messages(batch) ==
  [heartbeat |-> LastOf(batch, "heartbeat", NoHeartbeat),
   position |-> LastOf(batch, "position", NoPosition),
   ack |-> LastOf(batch, "ack", NoAck)]
=============================================================================
