------------------------- MODULE ReplaySession_proofs -------------------------
(***************************************************************************)
(* The safety properties of ReplaySession hold for every vehicle identity, *)
(* every capacity of the link and of the receive buffer, whatever commands *)
(* others acknowledge on the link, and for all constants of ControlLoop.   *)
(***************************************************************************)
EXTENDS ReplaySession, ControlLoop_proofs, SequenceTheorems, WellFoundedInduction

(* A set of positions that is not empty has a last one. *)
LEMMA LastPosition ==
  ASSUME NEW n \in Nat, NEW T \in SUBSET (1..n), T # {}
  PROVE  \E m \in T : \A i \in T : m >= i
<1> DEFINE D == {n - i : i \in T}
<1>t. T \subseteq Int /\ \A i \in T : n - i \in Nat
  OBVIOUS
<1>1. D \subseteq Nat /\ D # {}
  BY <1>t
<1>2. PICK d \in D : \A e \in D : ~(<<e, d>> \in OpToRel(<, Nat))
  BY <1>1, WFMin, NatLessThanWellFounded, Zenon
<1>3. \A e \in D : ~(e < d)
  BY <1>1, <1>2 DEF OpToRel
<1>4. PICK m \in T : d = n - m
  OBVIOUS
<1>5. \A i \in T : n - i \in D
  OBVIOUS
<1> HIDE DEF D
<1>6. ASSUME NEW i \in T PROVE m >= i
  <2>1. ~(n - i < n - m)
    BY <1>3, <1>4, <1>5
  <2>2. i \in Int /\ m \in Int
    BY <1>t
  <2> QED
    BY <2>1, <2>2
<1> QED
  BY <1>6

(* The last message of a kind is kept (px4_messages.c 78-93). *)
LEMMA LastOfBatch ==
  ASSUME NEW batch \in Seq(Frames), NEW kind, NEW none,
         Hits(batch, kind) # {}
  PROVE  \E m \in Hits(batch, kind) :
           /\ \A i \in Hits(batch, kind) : m >= i
           /\ LastOf(batch, kind, none) = batch[m].payload
<1> DEFINE T == Hits(batch, kind)
           m == CHOOSE i \in T : \A j \in T : i >= j
<1>1. T \in SUBSET (1..Len(batch)) /\ Len(batch) \in Nat
  BY DEF Hits
<1>2. \E i \in T : \A j \in T : i >= j
  BY <1>1, LastPosition
<1>3. m \in T /\ \A j \in T : m >= j
  BY <1>2
<1> QED
  BY <1>3 DEF LastOf

(* What a batch of frames leaves in PX4ReceivedMessages_t is one message of *)
(* each kind at most, which was in the batch.                              *)
LEMMA Reception ==
  ASSUME NEW batch \in Seq(Frames), NEW rx, rx = receive_px4_messages(batch)
  PROVE  /\ rx \in Received
         /\ Hits(batch, "heartbeat") = {} <=> rx.heartbeat = NoHeartbeat
         /\ rx.heartbeat # NoHeartbeat =>
              \E m \in Hits(batch, "heartbeat") :
                /\ rx.heartbeat = batch[m].payload
                /\ \A i \in Hits(batch, "heartbeat") : m >= i
         /\ Hits(batch, "ack") = {} <=> rx.ack = NoAck
         /\ rx.ack # NoAck =>
              \E m \in Hits(batch, "ack") :
                /\ rx.ack = batch[m].payload
                /\ \A i \in Hits(batch, "ack") : m >= i
         /\ rx.position # NoPosition => rx.position \in Origins
<1>1. \A i \in DOMAIN batch : batch[i] \in Frames
  OBVIOUS
<1>2. /\ \A i \in Hits(batch, "heartbeat") : batch[i].payload \in Heartbeats
      /\ \A i \in Hits(batch, "position") : batch[i].payload \in Origins
      /\ \A i \in Hits(batch, "ack") : batch[i].payload \in Acks
  BY <1>1 DEF Hits, Frames
<1>3. NoHeartbeat \notin Heartbeats /\ NoAck \notin Acks
  BY MessageAssumption DEF NoHeartbeat, Heartbeats, NoAck, Acks, Commands
<1>4. /\ rx.heartbeat = LastOf(batch, "heartbeat", NoHeartbeat)
      /\ rx.position = LastOf(batch, "position", NoPosition)
      /\ rx.ack = LastOf(batch, "ack", NoAck)
      /\ rx = [heartbeat |-> rx.heartbeat, position |-> rx.position,
               ack |-> rx.ack]
  BY DEF receive_px4_messages
<1>h. \/ Hits(batch, "heartbeat") = {} /\ rx.heartbeat = NoHeartbeat
      \/ /\ Hits(batch, "heartbeat") # {} /\ rx.heartbeat \in Heartbeats
         /\ \E m \in Hits(batch, "heartbeat") :
              /\ rx.heartbeat = batch[m].payload
              /\ \A i \in Hits(batch, "heartbeat") : m >= i
  <2>1. CASE Hits(batch, "heartbeat") = {}
    BY <2>1, <1>4 DEF LastOf
  <2>2. CASE Hits(batch, "heartbeat") # {}
    BY <2>2, <1>2, <1>4, LastOfBatch
  <2> QED
    BY <2>1, <2>2
<1>a. \/ Hits(batch, "ack") = {} /\ rx.ack = NoAck
      \/ /\ Hits(batch, "ack") # {} /\ rx.ack \in Acks
         /\ \E m \in Hits(batch, "ack") :
              /\ rx.ack = batch[m].payload
              /\ \A i \in Hits(batch, "ack") : m >= i
  <2>1. CASE Hits(batch, "ack") = {}
    BY <2>1, <1>4 DEF LastOf
  <2>2. CASE Hits(batch, "ack") # {}
    BY <2>2, <1>2, <1>4, LastOfBatch
  <2> QED
    BY <2>1, <2>2
<1>p. rx.position = NoPosition \/ rx.position \in Origins
  <2>1. CASE Hits(batch, "position") = {}
    BY <2>1, <1>4 DEF LastOf
  <2>2. CASE Hits(batch, "position") # {}
    BY <2>2, <1>2, <1>4, LastOfBatch
  <2> QED
    BY <2>1, <2>2
<1>r. rx \in Received
  BY <1>h, <1>a, <1>p, <1>4 DEF Received
<1> QED
  BY <1>h, <1>a, <1>p, <1>r, <1>3

-----------------------------------------------------------------------------
(* What one turn of the loop can come to *)

Accepts(rx, c) == Acknowledges(rx, c) /\ rx.ack.accepted

NoCommand == outbox'.command = "none" /\ attempts' = attempts

Fails == state' = "ERROR" /\ NoCommand

Stays(rx) ==
  /\ NoCommand
  /\ UNCHANGED <<state, send_age, disarm_age>>
  /\ \A c \in Commands : state = Awaited[c] => ~Acknowledges(rx, c) /\ ~RetryDue
  /\ state = "WAIT_DISARMED" => ~ReportsDisarmed(rx) /\ ~DisarmTimedOut(rx)
  /\ state # "COMMAND_LAND"

Repeats(rx, c) ==
  /\ state = Awaited[c]
  /\ ~Acknowledges(rx, c) /\ RetryDue /\ ~AttemptsUsedUp(c)
  /\ outbox'.command = c
  /\ attempts' = NextAttempt(c)
  /\ send_age' = 0
  /\ UNCHANGED <<state, disarm_age>>

Begins(rx, c) ==
  /\ outbox'.command = c
  /\ attempts' = [attempts EXCEPT ![c] = 1]
  /\ send_age' = 0
  /\ state' = Awaited[c]
  /\ \/ c = "offboard" /\ state = "PRESTREAM_SETPOINT"
     \/ c = "arm" /\ state = Awaited["offboard"] /\ Accepts(rx, "offboard")
     \/ c = "land" /\ state = "COMMAND_LAND"

Proceeds(rx) ==
  /\ NoCommand
  /\ \/ state = "WAIT_HEARTBEAT" /\ state' = "WAIT_LOCAL_POSITION"
     \/ state = "WAIT_LOCAL_POSITION" /\ state' = "PRESTREAM_SETPOINT"
     \/ /\ state = Awaited["arm"] /\ state' = "REPLAY_TRAJECTORY"
        /\ Accepts(rx, "arm")
     \/ state = "REPLAY_TRAJECTORY" /\ state' = "HOLD_POSITION"
     \/ state = "HOLD_POSITION" /\ state' = "COMMAND_LAND"
     \/ /\ state = Awaited["land"] /\ state' = "WAIT_DISARMED"
        /\ Accepts(rx, "land") /\ disarm_age' = 0
     \/ /\ state = "WAIT_DISARMED" /\ state' = "COMPLETE"
        /\ ReportsDisarmed(rx)

Outcome(rx) ==
  \/ Fails
  \/ Stays(rx)
  \/ \E c \in Commands : Repeats(rx, c)
  \/ \E c \in Commands : Begins(rx, c)
  \/ Proceeds(rx)

LEMMA AwaitedStates ==
  /\ Awaited["offboard"] = "WAIT_OFFBOARD_ACK"
  /\ Awaited["arm"] = "WAIT_ARM_ACK"
  /\ Awaited["land"] = "WAIT_LAND_ACK"
  /\ "offboard" \in Commands /\ "arm" \in Commands /\ "land" \in Commands
  /\ \A c \in Commands : c = "offboard" \/ c = "arm" \/ c = "land"
  BY DEF Awaited, Commands

LEMMA TurnOutcome ==
  ASSUME IndInv, NEW rx \in Received, Iterate(rx)
  PROVE  Outcome(rx)
<1> USE AwaitedStates DEF NoCommand
<1>f. ASSUME NEW p, Fail(p) PROVE Fails
  BY <1>f DEF Fail, Transmit, progress, Fails
<1>s. ASSUME NEW p, Stay(p),
             \A c \in Commands : state = Awaited[c] =>
                                  ~Acknowledges(rx, c) /\ ~RetryDue,
             state = "WAIT_DISARMED" => ~ReportsDisarmed(rx) /\ ~DisarmTimedOut(rx),
             state # "COMMAND_LAND"
      PROVE  Stays(rx)
  BY <1>s DEF Stay, Transmit, progress, Stays
<1>r. ASSUME NEW p, NEW c \in Commands, RetryCommand(c, p), state = Awaited[c],
             ~Acknowledges(rx, c), RetryDue
      PROVE  Outcome(rx)
  <2>1. CASE Fail(p)
    BY <2>1, <1>f DEF Outcome
  <2>2. CASE ~AttemptsUsedUp(c) /\ ~Fail(p)
    <3>1. /\ Transmit(p, c) /\ attempts' = NextAttempt(c) /\ send_age' = 0
          /\ UNCHANGED <<state, disarm_age>>
      BY <1>r, <2>2 DEF RetryCommand
    <3>2. Repeats(rx, c)
      BY <1>r, <2>2, <3>1 DEF Repeats, Transmit
    <3> QED
      BY <3>2 DEF Outcome
  <2> QED
    BY <1>r, <2>1, <2>2 DEF RetryCommand
<1>1. CASE Idle(rx)
  BY <1>1, <1>s DEF Idle, Turn, Outcome
<1>2. CASE WaitHeartbeat(rx)
  BY <1>2 DEF WaitHeartbeat, Turn, Transmit, Outcome, Proceeds
<1>3. CASE WaitLocalPosition(rx)
  BY <1>3, <1>f DEF WaitLocalPosition, Transmit, Outcome, Proceeds
<1>4. CASE PrestreamSetpoint(rx)
  <2>0. state = "PRESTREAM_SETPOINT"
    BY <1>4 DEF PrestreamSetpoint, Turn
  <2>1. CASE StartCommand("offboard", initial_position, "WAIT_OFFBOARD_ACK")
    BY <2>0, <2>1 DEF StartCommand, Transmit, Outcome, Begins
  <2>2. CASE /\ Transmit(initial_position, "none")
             /\ state' = state \/ state' = "ERROR"
             /\ UNCHANGED <<attempts, send_age, disarm_age>>
    BY <2>0, <2>2 DEF Transmit, Outcome, Stays, Fails
  <2> QED
    BY <1>4, <2>1, <2>2, <1>f DEF PrestreamSetpoint, Outcome
<1>5. CASE WaitOffboardAck(rx)
  <2>0. state = "WAIT_OFFBOARD_ACK"
    BY <1>5 DEF WaitOffboardAck, Turn
  <2>1. CASE Accepts(rx, "offboard") /\ RequestArm
    BY <2>0, <2>1, <1>f
    DEF RequestArm, StartCommand, Transmit, Outcome, Begins
  <2>2. CASE /\ ~Acknowledges(rx, "offboard") /\ ~RetryDue
             /\ Stay(InitialSetpoint)
    BY <2>0, <2>2, <1>s DEF Outcome
  <2> QED
    BY <1>5, <2>0, <2>1, <2>2, <1>f, <1>r
    DEF WaitOffboardAck, AwaitAck, Accepts, Outcome
<1>6. CASE WaitArmAck(rx)
  <2>0. state = "WAIT_ARM_ACK"
    BY <1>6 DEF WaitArmAck, Turn
  <2>1. CASE Accepts(rx, "arm") /\ StartReplay
    BY <2>0, <2>1 DEF StartReplay, Transmit, progress, Outcome, Proceeds
  <2>2. CASE ~Acknowledges(rx, "arm") /\ ~RetryDue /\ Stay(InitialSetpoint)
    BY <2>0, <2>2, <1>s DEF Outcome
  <2> QED
    BY <1>6, <2>0, <2>1, <2>2, <1>f, <1>r
    DEF WaitArmAck, AwaitAck, Accepts, Outcome
<1>7. CASE ReplayTrajectory(rx)
  BY <1>7, <1>f
  DEF ReplayTrajectory, Turn, Transmit, progress, Outcome, Stays, Proceeds
<1>8. CASE HoldPosition(rx)
  <2>0. state = "HOLD_POSITION"
    BY <1>8 DEF HoldPosition, HoldOrLand, Turn
  <2>1. CASE Stay(HeldPosition)
    BY <2>0, <2>1, <1>s DEF Outcome
  <2>2. CASE /\ state' = "COMMAND_LAND" /\ Transmit(NoPosition, "none")
             /\ UNCHANGED progress
    BY <2>0, <2>2 DEF Transmit, progress, Outcome, Proceeds
  <2> QED
    BY <1>8, <2>1, <2>2, <1>f DEF HoldPosition, HoldOrLand, Outcome
<1>9. CASE CommandLand(rx)
  BY <1>9, <1>f DEF CommandLand, Turn, StartCommand, Transmit, Outcome, Begins
<1>10. CASE WaitLandAck(rx)
  <2>0. state = "WAIT_LAND_ACK"
    BY <1>10 DEF WaitLandAck, Turn
  <2>1. CASE Accepts(rx, "land") /\ AwaitDisarm
    BY <2>0, <2>1 DEF AwaitDisarm, Transmit, progress, Outcome, Proceeds
  <2>2. CASE ~Acknowledges(rx, "land") /\ ~RetryDue /\ Stay(NoPosition)
    BY <2>0, <2>2, <1>s DEF Outcome
  <2> QED
    BY <1>10, <2>0, <2>1, <2>2, <1>f, <1>r
    DEF WaitLandAck, AwaitAck, Accepts, Outcome
<1>11. CASE WaitDisarmed(rx)
  <2>0. state = "WAIT_DISARMED"
    BY <1>11 DEF WaitDisarmed, Turn
  <2>1. CASE ~ReportsDisarmed(rx) /\ ~DisarmTimedOut(rx) /\ Stay(NoPosition)
    BY <2>0, <2>1, <1>s DEF Outcome
  <2>2. CASE /\ ReportsDisarmed(rx) /\ state' = "COMPLETE"
             /\ Transmit(NoPosition, "none") /\ UNCHANGED progress
    BY <2>0, <2>2 DEF Transmit, progress, Outcome, Proceeds
  <2> QED
    BY <1>11, <2>1, <2>2, <1>f DEF WaitDisarmed, Outcome
<1>12. CASE LoseConnection(rx)
  BY <1>12, <1>f DEF LoseConnection, Outcome
<1> QED
  BY <1>1, <1>2, <1>3, <1>4, <1>5, <1>6, <1>7, <1>8, <1>9, <1>10, <1>11,
     <1>12 DEF Iterate

-----------------------------------------------------------------------------
(* The link: frames leave at one end and arrive at the other. *)

Links == [command : Commands, to : Components \cup {NoTarget}]

(* t is what is left of s once the first elements are gone. *)
Later(t, s) ==
  \E n \in 0..Len(s) :
    Len(t) = Len(s) - n /\ \A i \in 1..Len(t) : t[i] = s[i + n]

LEMMA DropLater ==
  ASSUME NEW S, NEW s \in Seq(S), NEW n \in 0..Len(s)
  PROVE  /\ Drop(s, n) \in Seq(S) /\ Later(Drop(s, n), s)
         /\ n = Len(s) => Drop(s, n) = <<>>
         /\ SubSeq(s, 1, n) \in Seq(S)
<1>1. Len(s) \in Nat
  OBVIOUS
<1>2. /\ Drop(s, n) \in Seq(S)
      /\ Len(Drop(s, n)) = Len(s) - n
      /\ \A i \in 1..(Len(s) - n) : Drop(s, n)[i] = s[i + n]
  BY <1>1, SubSeqProperties DEF Drop
<1>3. SubSeq(s, 1, n) \in Seq(S)
  BY <1>1, SubSeqProperties
<1>4. n = Len(s) => Drop(s, n) = <<>>
  BY <1>2, EmptySeq
<1> QED
  BY <1>2, <1>3, <1>4 DEF Later

LEMMA TailLater ==
  ASSUME NEW S, NEW s \in Seq(S), s # <<>>
  PROVE  /\ Tail(s) \in Seq(S) /\ Later(Tail(s), s)
         /\ Len(s) > 0 /\ Head(s) = s[1] /\ Head(s) \in S
         /\ Len(Tail(s)) = Len(s) - 1
         /\ \A i \in 1..Len(Tail(s)) : Tail(s)[i] = s[i + 1]
<1>1. /\ Tail(s) \in Seq(S) /\ Head(s) \in S /\ Head(s) = s[1]
      /\ Len(s) \in Nat \ {0}
      /\ Len(Tail(s)) = Len(s) - 1
      /\ \A i \in 1..Len(Tail(s)) : Tail(s)[i] = s[i + 1]
  BY HeadTailProperties, EmptySeq
<1> QED
  BY <1>1 DEF Later

LEMMA SameLater ==
  ASSUME NEW S, NEW s \in Seq(S)
  PROVE  Later(s, s)
<1>1. Len(s) \in Nat /\ \A i \in 1..Len(s) : s[i] = s[i + 0]
  OBVIOUS
<1> QED
  BY <1>1 DEF Later

LEMMA LaterElements ==
  ASSUME NEW S, NEW s \in Seq(S), NEW t \in Seq(S), Later(t, s)
  PROVE  \A i \in DOMAIN t : \E j \in DOMAIN s : t[i] = s[j]
<1>1. PICK n \in 0..Len(s) :
        Len(t) = Len(s) - n /\ \A i \in 1..Len(t) : t[i] = s[i + n]
  BY DEF Later
<1>2. DOMAIN t = 1..Len(t) /\ DOMAIN s = 1..Len(s) /\ Len(s) \in Nat
  OBVIOUS
<1>3. \A i \in DOMAIN t : i + n \in DOMAIN s
  BY <1>1, <1>2
<1> QED
  BY <1>1, <1>2, <1>3

(* The last element of an extended sequence, and the others *)
LEMMA Appended ==
  ASSUME NEW S, NEW s \in Seq(S), NEW e \in S, NEW t, t = Append(s, e)
  PROVE  /\ t \in Seq(S) /\ Len(t) = Len(s) + 1 /\ Len(s) \in Nat
         /\ DOMAIN t = 1..(Len(s) + 1) /\ DOMAIN s = 1..Len(s)
         /\ t[Len(s) + 1] = e
         /\ \A i \in 1..Len(s) : t[i] = s[i]
         /\ \A i \in DOMAIN t : i \in DOMAIN s \/ i = Len(s) + 1
  BY AppendProperties

(* The order of the link is in the frames that wait on it: what leaves it   *)
(* takes nothing away from those that stay.                                *)
LEMMA LaterKeeps ==
  ASSUME SessionTypeOK, RequestInv, OrderInv,
         Later(inbox', inbox), inbox' \in Seq(Frames),
         Later(uplink', uplink), uplink' \in Seq(Links),
         accepted' = accepted, Requested \subseteq Requested',
         foreign' = foreign, uplink # <<>> \/ accepted # {} => target' = target
  PROVE  RequestInv' /\ OrderInv'
<1>1. PICK m \in 0..Len(inbox) :
        /\ Len(inbox') = Len(inbox) - m
        /\ \A i \in 1..Len(inbox') : inbox'[i] = inbox[i + m]
  BY DEF Later
<1>2. PICK n \in 0..Len(uplink) :
        /\ Len(uplink') = Len(uplink) - n
        /\ \A i \in 1..Len(uplink') : uplink'[i] = uplink[i + n]
  BY DEF Later
<1>3. /\ DOMAIN inbox' = 1..Len(inbox') /\ DOMAIN inbox = 1..Len(inbox)
      /\ DOMAIN uplink' = 1..Len(uplink') /\ DOMAIN uplink = 1..Len(uplink)
      /\ Len(inbox) \in Nat /\ Len(uplink) \in Nat
      /\ m \in Nat /\ n \in Nat
  BY DEF SessionTypeOK, Links
<1>4. ASSUME NEW i \in Answers'
      PROVE  i \in Int /\ i + m \in Answers /\ inbox'[i] = inbox[i + m]
  <2>1. i \in 1..Len(inbox') /\ inbox'[i] = inbox[i + m]
    BY <1>1, <1>3, <1>4 DEF Answers
  <2>2. i + m \in DOMAIN inbox
    BY <1>1, <1>3, <2>1
  <2> QED
    BY <1>4, <2>1, <2>2 DEF Answers, Ack
<1>5. ASSUME NEW i \in DOMAIN uplink'
      PROVE  i \in Int /\ i + n \in DOMAIN uplink /\ uplink'[i] = uplink[i + n]
  BY <1>2, <1>3
<1>6. RequestInv'
  <2>1. \A i \in DOMAIN uplink' : uplink # <<>>
    BY <1>3, <1>5
  <2> QED
    BY <1>4, <1>5, <2>1 DEF RequestInv
<1>7. \A i, j \in Int : i <= j => i + m <= j + m /\ i + n <= j + n
  BY <1>3
<1>8. OrderInv'
  <2>1. \A i, j \in DOMAIN uplink' :
          i <= j => Rank[uplink'[i].command] <= Rank[uplink'[j].command]
    BY <1>5, <1>7 DEF OrderInv
  <2>2. \A i, j \in Answers' :
          i <= j => Rank[inbox'[i].payload.command]
                      <= Rank[inbox'[j].payload.command]
    BY <1>4, <1>7 DEF OrderInv
  <2>3. \A i \in DOMAIN uplink' :
          /\ \A c \in accepted' : Rank[c] <= Rank[uplink'[i].command]
          /\ \A j \in Answers' :
               Rank[inbox'[j].payload.command] <= Rank[uplink'[i].command]
    BY <1>4, <1>5 DEF OrderInv
  <2> QED
    BY <2>1, <2>2, <2>3 DEF OrderInv
<1> QED
  BY <1>6, <1>8

LEMMA Ranks ==
  /\ Rank["offboard"] = 1 /\ Rank["arm"] = 2 /\ Rank["land"] = 3
  /\ \A c \in Commands : Rank[c] \in 1..3
  BY DEF Rank, Commands

(* A frame that is no answer of the vehicle joins the receive buffer. *)
LEMMA ReportKeeps ==
  ASSUME SessionTypeOK, RequestInv, OrderInv, NEW f \in Frames,
         f.kind = "ack" => f.payload.command \in foreign',
         foreign \subseteq foreign',
         inbox' = Append(inbox, f),
         UNCHANGED <<uplink, accepted, attempts, target>>
  PROVE  inbox' \in Seq(Frames) /\ RequestInv' /\ OrderInv'
<1>1. inbox \in Seq(Frames)
  BY DEF SessionTypeOK
<1>2. /\ inbox' \in Seq(Frames)
      /\ inbox'[Len(inbox) + 1] = f
      /\ DOMAIN inbox = 1..Len(inbox)
      /\ \A i \in 1..Len(inbox) : inbox'[i] = inbox[i]
      /\ \A i \in DOMAIN inbox' : i \in DOMAIN inbox \/ i = Len(inbox) + 1
  BY <1>1, Appended
<1>3. ASSUME NEW i \in Answers'
      PROVE  i \in Answers /\ inbox'[i] = inbox[i]
  <2>1. i \in DOMAIN inbox' /\ inbox'[i].kind = "ack"
        /\ inbox'[i].payload.command \in Commands \ foreign'
    BY <1>3 DEF Answers, Ack
  <2>2. i \in DOMAIN inbox /\ inbox'[i] = inbox[i]
    BY <1>2, <2>1
  <2> QED
    BY <2>1, <2>2 DEF Answers, Ack
<1>4. Requested' = Requested
  BY DEF Requested
<1> QED
  BY <1>2, <1>3, <1>4 DEF RequestInv, OrderInv

(* The vehicle takes the first command and acknowledges it, with ok or not. *)
LEMMA AnswerKeeps ==
  ASSUME SessionTypeOK, RequestInv, OrderInv, uplink # <<>>,
         NEW c, c = Head(uplink).command, NEW ok \in BOOLEAN,
         inbox' = Append(inbox, [kind |-> "ack",
                                 payload |-> [command |-> c, accepted |-> ok]]),
         uplink' = Tail(uplink),
         Head(uplink).to = Autopilot,
         accepted' = IF ok THEN accepted \cup {c} ELSE accepted,
         UNCHANGED <<attempts, target, foreign>>
  PROVE  /\ inbox' \in Seq(Frames) /\ uplink' \in Seq(Links)
         /\ RequestInv' /\ OrderInv' /\ c \in Commands
<1> DEFINE f == [kind |-> "ack", payload |-> [command |-> c, accepted |-> ok]]
<1>0. inbox \in Seq(Frames) /\ uplink \in Seq(Links)
  BY DEF SessionTypeOK, Links
<1>1. /\ uplink' \in Seq(Links) /\ Len(uplink) > 0 /\ Head(uplink) = uplink[1]
      /\ Head(uplink) \in Links /\ Len(uplink') = Len(uplink) - 1
      /\ \A i \in 1..Len(uplink') : uplink'[i] = uplink[i + 1]
  BY <1>0, TailLater
<1>2. c \in Commands
  BY <1>1 DEF Links
<1>3. f \in Frames
  BY <1>2 DEF Frames, Acks
<1> HIDE DEF f
<1>4. /\ inbox' \in Seq(Frames) /\ Len(inbox) \in Nat
      /\ inbox'[Len(inbox) + 1] = f
      /\ DOMAIN inbox = 1..Len(inbox)
      /\ \A i \in 1..Len(inbox) : inbox'[i] = inbox[i]
      /\ \A i \in DOMAIN inbox' : i \in DOMAIN inbox \/ i = Len(inbox) + 1
  BY <1>0, <1>3, Appended DEF f
<1>5. /\ f.kind = "ack" /\ f.payload.command = c /\ f.payload.accepted = ok
  BY DEF f
<1>6. ASSUME NEW i \in Answers'
      PROVE  \/ i \in Answers /\ inbox'[i] = inbox[i]
             \/ i = Len(inbox) + 1 /\ inbox'[i] = f
  <2>1. i \in DOMAIN inbox' /\ inbox'[i].kind = "ack"
        /\ inbox'[i].payload.command \in Commands \ foreign
    BY <1>6 DEF Answers, Ack
  <2>2. \/ i \in DOMAIN inbox /\ inbox'[i] = inbox[i]
        \/ i = Len(inbox) + 1 /\ inbox'[i] = f
    BY <1>4, <2>1
  <2> QED
    BY <2>1, <2>2 DEF Answers, Ack
<1>7. /\ DOMAIN uplink = 1..Len(uplink) /\ DOMAIN uplink' = 1..Len(uplink')
      /\ Len(uplink) \in Nat /\ 1 \in DOMAIN uplink /\ uplink[1].command = c
      /\ uplink[1].to = Autopilot
  BY <1>0, <1>1
<1>8. ASSUME NEW i \in DOMAIN uplink'
      PROVE  i \in Int /\ i + 1 \in DOMAIN uplink /\ 1 <= i + 1
             /\ uplink'[i] = uplink[i + 1]
  BY <1>1, <1>7
<1>9. Requested' = Requested /\ c \in Requested
  BY <1>7 DEF Requested, RequestInv
<1>10. RequestInv'
  <2>1. accepted' \subseteq Requested'
    BY <1>9 DEF RequestInv
  <2>2. \A i \in DOMAIN uplink' :
          uplink'[i].command \in Requested' /\ uplink'[i].to = target'
    BY <1>8, <1>9 DEF RequestInv
  <2>4. target' = Autopilot
    BY <1>7 DEF RequestInv
  <2>3. ASSUME NEW i \in Answers'
        PROVE  /\ inbox'[i].payload.command \in Requested'
               /\ inbox'[i].payload.accepted
                    => inbox'[i].payload.command \in accepted'
    BY <1>5, <1>6, <1>9 DEF RequestInv
  <2> QED
    BY <2>1, <2>2, <2>3, <2>4 DEF RequestInv
<1>11. \A i \in Answers : Rank[inbox[i].payload.command] <= Rank[c]
  BY <1>7 DEF OrderInv
<1>12. \A i \in DOMAIN uplink' : Rank[c] <= Rank[uplink'[i].command]
  BY <1>7, <1>8 DEF OrderInv
<1>13. Rank[c] \in 1..3 /\ \A i \in Answers : i \in 1..Len(inbox)
  BY <1>2, <1>4, Ranks DEF Answers
<1>14. OrderInv'
  <2>1. \A i, j \in DOMAIN uplink' :
          i <= j => Rank[uplink'[i].command] <= Rank[uplink'[j].command]
    <3>1. \A i, j \in Int : i <= j => i + 1 <= j + 1
      OBVIOUS
    <3> QED
      BY <1>8, <3>1 DEF OrderInv
  <2>2. ASSUME NEW i \in Answers', NEW j \in Answers', i <= j
        PROVE  Rank[inbox'[i].payload.command] <= Rank[inbox'[j].payload.command]
    <3>1. CASE i = Len(inbox) + 1
      <4>1. j = Len(inbox) + 1 /\ inbox'[j] = f
        BY <1>6, <1>4, <1>13, <2>2, <3>1
      <4> QED
        BY <1>5, <1>6, <1>13, <3>1, <4>1
    <3>2. CASE i \in Answers /\ inbox'[i] = inbox[i]
      BY <1>5, <1>6, <1>11, <2>2, <3>2 DEF OrderInv
    <3> QED
      BY <1>6, <3>1, <3>2
  <2>3. ASSUME NEW i \in DOMAIN uplink', NEW d \in accepted'
        PROVE  Rank[d] <= Rank[uplink'[i].command]
    BY <1>8, <1>12 DEF OrderInv
  <2>4. ASSUME NEW i \in DOMAIN uplink', NEW j \in Answers'
        PROVE  Rank[inbox'[j].payload.command] <= Rank[uplink'[i].command]
    BY <1>5, <1>6, <1>8, <1>12 DEF OrderInv
  <2> QED
    BY <2>1, <2>2, <2>3, <2>4 DEF OrderInv
<1> QED
  BY <1>1, <1>2, <1>4, <1>10, <1>14

(* The controller sends a command none of whose successors was requested. *)
LEMMA UplinkKeeps ==
  ASSUME SessionTypeOK, RequestInv, OrderInv,
         NEW c \in Commands, target \in Components \cup {NoTarget},
         uplink' = Append(uplink, [command |-> c, to |-> target]),
         Later(inbox', inbox), inbox' \in Seq(Frames),
         UNCHANGED <<accepted, foreign, target>>,
         Requested \subseteq Requested', c \in Requested',
         \A d \in Requested : Rank[d] <= Rank[c]
  PROVE  uplink' \in Seq(Links) /\ RequestInv' /\ OrderInv'
<1> DEFINE e == [command |-> c, to |-> target]
<1>0. uplink \in Seq(Links) /\ e \in Links
  BY DEF SessionTypeOK, Links
<1> HIDE DEF e
<1>1. /\ uplink' \in Seq(Links) /\ Len(uplink) \in Nat
      /\ uplink'[Len(uplink) + 1] = e
      /\ DOMAIN uplink = 1..Len(uplink)
      /\ \A i \in 1..Len(uplink) : uplink'[i] = uplink[i]
      /\ \A i \in DOMAIN uplink' : i \in DOMAIN uplink \/ i = Len(uplink) + 1
  BY <1>0, Appended DEF e
<1>2. e.command = c /\ e.to = target
  BY DEF e
<1>3. PICK m \in 0..Len(inbox) :
        /\ Len(inbox') = Len(inbox) - m
        /\ \A i \in 1..Len(inbox') : inbox'[i] = inbox[i + m]
  BY DEF Later
<1>4. /\ DOMAIN inbox' = 1..Len(inbox') /\ DOMAIN inbox = 1..Len(inbox)
      /\ Len(inbox) \in Nat /\ m \in Nat
  BY DEF SessionTypeOK
<1>5. ASSUME NEW i \in Answers'
      PROVE  i \in Int /\ i + m \in Answers /\ inbox'[i] = inbox[i + m]
  <2>1. i \in 1..Len(inbox') /\ inbox'[i] = inbox[i + m]
    BY <1>3, <1>4, <1>5 DEF Answers
  <2>2. i + m \in DOMAIN inbox
    BY <1>3, <1>4, <2>1
  <2> QED
    BY <1>5, <2>1, <2>2 DEF Answers, Ack
<1>6. RequestInv'
  BY <1>1, <1>2, <1>5 DEF RequestInv
<1>7. \A i, j \in Int : i <= j => i + m <= j + m
  BY <1>4
<1>8. Rank[c] \in 1..3
  BY Ranks
<1>9. OrderInv'
  <2>1. ASSUME NEW i \in DOMAIN uplink', NEW j \in DOMAIN uplink', i <= j
        PROVE  Rank[uplink'[i].command] <= Rank[uplink'[j].command]
    <3>1. CASE i = Len(uplink) + 1
      <4>1. j = Len(uplink) + 1
        BY <1>1, <2>1, <3>1
      <4> QED
        BY <1>1, <1>2, <1>8, <3>1, <4>1
    <3>2. CASE i \in DOMAIN uplink
      BY <1>1, <1>2, <2>1, <3>2 DEF OrderInv, RequestInv
    <3> QED
      BY <1>1, <3>1, <3>2
  <2>2. \A i, j \in Answers' :
          i <= j => Rank[inbox'[i].payload.command]
                      <= Rank[inbox'[j].payload.command]
    BY <1>5, <1>7 DEF OrderInv
  <2>3. ASSUME NEW i \in DOMAIN uplink', NEW d \in accepted'
        PROVE  Rank[d] <= Rank[uplink'[i].command]
    BY <1>1, <1>2 DEF OrderInv, RequestInv
  <2>4. ASSUME NEW i \in DOMAIN uplink', NEW j \in Answers'
        PROVE  Rank[inbox'[j].payload.command] <= Rank[uplink'[i].command]
    BY <1>1, <1>2, <1>5 DEF OrderInv, RequestInv
  <2> QED
    BY <2>1, <2>2, <2>3, <2>4 DEF OrderInv
<1> QED
  BY <1>1, <1>6, <1>9

-----------------------------------------------------------------------------
(* The steps of the session *)

LEMMA InitSessionInv == SessionInit => SessionInv
<1> SUFFICES ASSUME SessionInit PROVE SessionInv
  OBVIOUS
<1> USE DEF SessionInit
<1>1. IndInv
  BY InitIndInv
<1>2. SessionTypeOK
  <2>1. <<>> \in Seq(Frames) /\ <<>> \in Seq(Links)
    BY EmptySeq
  <2> QED
    BY <2>1 DEF SessionTypeOK, Links
<1>4. inbox = <<>> /\ uplink = <<>> /\ accepted = {} /\ DOMAIN <<>> = {}
  OBVIOUS
<1>5. Answers = {}
  BY <1>4 DEF Answers
<1>6. RequestInv /\ OrderInv
  BY <1>4, <1>5 DEF RequestInv, OrderInv
<1>3. DisarmInv /\ AcknowledgedWereAccepted
  BY DEF Init, DisarmInv, AcknowledgedWereAccepted, Landing, Armed
<1> QED
  BY <1>1, <1>2, <1>3, <1>6 DEF SessionInv

(* Every step of the session is a step of the control loop or none. *)
LEMMA SessionRefines == SessionTypeOK /\ [SessionNext]_session => [Next]_vars
<1> SUFFICES ASSUME SessionTypeOK, [SessionNext]_session PROVE [Next]_vars
  OBVIOUS
<1>1. CASE ControllerTurn
  <2>1. PICK n \in Batches :
          Iterate(receive_px4_messages(SubSeq(inbox, 1, n)))
    BY <1>1 DEF ControllerTurn
  <2>2. inbox \in Seq(Frames) /\ n \in 0..Len(inbox)
    BY DEF SessionTypeOK, Batches
  <2>3. SubSeq(inbox, 1, n) \in Seq(Frames)
    BY <2>2, DropLater
  <2>4. receive_px4_messages(SubSeq(inbox, 1, n)) \in Received
    BY <2>3, Reception
  <2> QED
    BY <2>1, <2>4 DEF Next
<1>2. CASE ControllerOther
  BY <1>2 DEF ControllerOther, Next
<1>3. CASE UNCHANGED vars
  BY <1>3
<1> QED
  BY <1>1, <1>2, <1>3
  DEF SessionNext, session, SendHeartbeat, SendPosition, IgnoreCommand,
      RejectCommand, AcceptCommand, ForeignAck, TouchDown, LeaveOffboard,
      LoseFrame

(* What a turn of the controller finds and leaves in the buffer *)
LEMMA TurnReads ==
  ASSUME IndInv, SessionTypeOK, ControllerTurn
  PROVE  \E n \in 0..Len(inbox), rx \in Received :
           /\ rx = receive_px4_messages(SubSeq(inbox, 1, n))
           /\ n = Len(inbox) \/ state = "WAIT_HEARTBEAT"
           /\ inbox' = Drop(inbox, n)
           /\ inbox' \in Seq(Frames) /\ Later(inbox', inbox)
           /\ n = Len(inbox) => inbox' = <<>>
           /\ Iterate(rx) /\ Outcome(rx)
           /\ \A i \in DOMAIN SubSeq(inbox, 1, n) :
                i \in DOMAIN inbox /\ SubSeq(inbox, 1, n)[i] = inbox[i]
<1>1. PICK n \in Batches :
        /\ Iterate(receive_px4_messages(SubSeq(inbox, 1, n)))
        /\ inbox' = Drop(inbox, n)
  BY DEF ControllerTurn
<1>2. inbox \in Seq(Frames) /\ Len(inbox) \in Nat /\ n \in 0..Len(inbox)
  BY DEF SessionTypeOK, Batches
<1>3. n = Len(inbox) \/ state = "WAIT_HEARTBEAT"
  BY DEF Batches
<1>4. /\ inbox' \in Seq(Frames) /\ Later(inbox', inbox)
      /\ n = Len(inbox) => inbox' = <<>>
      /\ SubSeq(inbox, 1, n) \in Seq(Frames)
  BY <1>1, <1>2, DropLater
<1>5. PICK rx \in Received : rx = receive_px4_messages(SubSeq(inbox, 1, n))
  BY <1>4, Reception
<1>6. Iterate(rx) /\ Outcome(rx)
  BY <1>1, <1>5, TurnOutcome
<1>7. \A i \in DOMAIN SubSeq(inbox, 1, n) :
        i \in DOMAIN inbox /\ SubSeq(inbox, 1, n)[i] = inbox[i]
  BY <1>2, SubSeqProperties
<1> QED
  BY <1>1, <1>2, <1>3, <1>4, <1>5, <1>6, <1>7

(* An acknowledgement a turn accepts is the vehicle's, or one of others of  *)
(* the same command has been on the link.                                  *)
LEMMA AcceptedByVehicle ==
  ASSUME SessionTypeOK, RequestInv, NEW n \in 0..Len(inbox), NEW rx,
         rx = receive_px4_messages(SubSeq(inbox, 1, n)),
         NEW c \in Commands, Accepts(rx, c)
  PROVE  c \in Claimed
<1>1. inbox \in Seq(Frames) /\ Len(inbox) \in Nat
  BY DEF SessionTypeOK
<1>2. SubSeq(inbox, 1, n) \in Seq(Frames)
  BY <1>1, DropLater
<1>3. rx.ack # NoAck
  BY DEF Accepts, NoAck
<1>4. PICK m \in Hits(SubSeq(inbox, 1, n), "ack") :
        rx.ack = SubSeq(inbox, 1, n)[m].payload
  BY <1>2, <1>3, Reception
<1>5. m \in DOMAIN inbox /\ SubSeq(inbox, 1, n)[m] = inbox[m]
  BY <1>1, <1>4, SubSeqProperties DEF Hits
<1>6. c \in foreign \/ m \in Answers
  BY <1>4, <1>5 DEF Hits, Answers, Ack, Accepts, Acknowledges
<1> QED
  BY <1>4, <1>5, <1>6 DEF RequestInv, Accepts, Acknowledges, Claimed

(* A command the controller transmits comes after all it ever sent. *)
LEMMA SentIsLatest ==
  ASSUME IndInv, NEW rx, NEW c \in Commands, Repeats(rx, c) \/ Begins(rx, c)
  PROVE  /\ c \in Requested' /\ Requested \subseteq Requested'
         /\ \A d \in Requested : Rank[d] <= Rank[c]
<1> USE DEF IndInv, TypeOK, AttemptInv, Active, Streaming, Landing, Unplaced
<1>1. \A d \in Commands : attempts[d] > 0 => attempts'[d] > 0
  BY DEF Repeats, Begins, NextAttempt
<1>2. attempts'[c] > 0
  BY DEF Repeats, Begins, NextAttempt
<1>3. Requested \subseteq Requested'
  BY <1>1 DEF Requested
<1>4. CASE c = "offboard"
  <2>1. state \in {"PRESTREAM_SETPOINT", "WAIT_OFFBOARD_ACK"}
    BY <1>4, AwaitedStates DEF Repeats, Begins
  <2>2. attempts["arm"] = 0 /\ attempts["land"] = 0
    BY <2>1
  <2> QED
    BY <1>2, <1>3, <1>4, <2>2, Ranks, AwaitedStates DEF Requested
<1>5. CASE c = "arm"
  <2>1. state \in {"WAIT_OFFBOARD_ACK", "WAIT_ARM_ACK"}
    BY <1>5, AwaitedStates DEF Repeats, Begins
  <2>2. attempts["land"] = 0
    BY <2>1
  <2> QED
    BY <1>2, <1>3, <1>5, <2>2, Ranks, AwaitedStates DEF Requested
<1>6. CASE c = "land"
  <2>1. \A d \in Requested : Rank[d] \in 1..3
    BY Ranks DEF Requested
  <2>2. \A d \in Requested : Rank[d] <= Rank[c]
    BY <2>1, <1>6, Ranks
  <2> QED
    BY <1>2, <1>3, <2>2 DEF Requested
<1> QED
  BY <1>4, <1>5, <1>6, AwaitedStates

(* The target is fixed once, before anything was requested from it. *)
LEMMA TurnKeepsTarget ==
  ASSUME ControllerTurn
  PROVE  \/ target' = target
         \/ state = "WAIT_HEARTBEAT" /\ state' = "WAIT_LOCAL_POSITION"
<1>1. PICK rx : Iterate(rx)
  BY DEF ControllerTurn
<1> QED
  BY <1>1
  DEF Iterate, Idle, Stay, WaitHeartbeat, Turn, WaitLocalPosition,
      PrestreamSetpoint, WaitOffboardAck, WaitArmAck, ReplayTrajectory,
      HoldPosition, HoldOrLand, CommandLand, WaitLandAck, WaitDisarmed,
      LoseConnection, AwaitAck, RetryCommand, RequestArm, StartReplay,
      AwaitDisarm, Fail, progress

LEMMA NothingRequested ==
  ASSUME SessionInv, state = "WAIT_HEARTBEAT"
  PROVE  uplink = <<>> /\ accepted = {}
<1> USE DEF SessionInv
<1>1. Requested = {}
  BY AwaitedStates DEF IndInv, AttemptInv, Unplaced, Streaming, Requested
<1>2. accepted = {} /\ DOMAIN uplink = {}
  BY <1>1 DEF RequestInv
<1>3. uplink \in Seq(Links)
  BY DEF SessionTypeOK, Links
<1>4. DOMAIN uplink = 1..Len(uplink) /\ Len(uplink) \in Nat
  BY <1>3
<1>5. Len(uplink) = 0
  <2>1. Len(uplink) > 0 => 1 \in DOMAIN uplink
    BY <1>4
  <2> QED
    BY <1>2, <1>4, <2>1
<1> QED
  BY <1>2, <1>3, <1>5, EmptySeq

LEMMA TurnSession ==
  ASSUME SessionInv, ControllerTurn
  PROVE  /\ SessionTypeOK' /\ RequestInv' /\ OrderInv'
         /\ DisarmInv' /\ AcknowledgedWereAccepted'
<1> USE DEF SessionInv
<1>1. PICK n \in 0..Len(inbox), rx \in Received :
        /\ rx = receive_px4_messages(SubSeq(inbox, 1, n))
        /\ n = Len(inbox) \/ state = "WAIT_HEARTBEAT"
        /\ inbox' \in Seq(Frames) /\ Later(inbox', inbox)
        /\ n = Len(inbox) => inbox' = <<>>
        /\ Outcome(rx)
  BY TurnReads
<1>2. UNCHANGED <<armed, mode, accepted, foreign>>
  BY DEF ControllerTurn, vehicle
<1>3. target \in Components \cup {NoTarget}
  BY DEF IndInv, TypeOK
<1>4. \/ uplink' = uplink
      \/ /\ outbox'.command # "none"
         /\ uplink' = Append(uplink, [command |-> outbox'.command, to |-> target])
  BY DEF ControllerTurn, Uplinked
<1>5. uplink \in Seq(Links) /\ Later(uplink, uplink)
  BY SameLater DEF SessionTypeOK, Links
<1>10. \/ target' = target
       \/ state = "WAIT_HEARTBEAT" /\ state' = "WAIT_LOCAL_POSITION"
  BY TurnKeepsTarget
<1>11. uplink # <<>> \/ accepted # {} => target' = target
  BY <1>5, <1>10, NothingRequested
<1>12. \A c \in Commands : Repeats(rx, c) \/ Begins(rx, c) => target' = target
  BY <1>10, AwaitedStates DEF Repeats, Begins
<1>6. uplink' \in Seq(Links) /\ RequestInv' /\ OrderInv'
  <2>1. CASE NoCommand
    <3>1. uplink' = uplink /\ Requested' = Requested
      BY <1>4, <2>1 DEF NoCommand, Requested
    <3> QED
      BY <1>1, <1>2, <1>5, <1>11, <3>1, LaterKeeps
  <2>2. ASSUME NEW c \in Commands, Repeats(rx, c) \/ Begins(rx, c)
        PROVE  uplink' \in Seq(Links) /\ RequestInv' /\ OrderInv'
    <3>1. outbox'.command = c
      BY <2>2 DEF Repeats, Begins
    <3>2. /\ c \in Requested' /\ Requested \subseteq Requested'
          /\ \A d \in Requested : Rank[d] <= Rank[c]
      BY <2>2, SentIsLatest
    <3>3. CASE uplink' = uplink
      BY <1>1, <1>2, <1>5, <1>11, <3>2, <3>3, LaterKeeps
    <3>4. CASE uplink' = Append(uplink, [command |-> c, to |-> target])
      BY <1>1, <1>2, <1>3, <1>12, <2>2, <3>2, <3>4, UplinkKeeps
    <3> QED
      BY <1>4, <3>1, <3>3, <3>4
  <2> QED
    BY <1>1, <2>1, <2>2 DEF Outcome, Fails, Stays, Proceeds
<1>7. SessionTypeOK'
  BY <1>1, <1>2, <1>6 DEF SessionTypeOK, Links
<1>8. \A c \in Commands : Accepts(rx, c) => c \in Claimed
  BY <1>1, AcceptedByVehicle
<1>9. AcknowledgedWereAccepted'
  BY <1>1, <1>2, <1>8, AwaitedStates
  DEF Outcome, Fails, Stays, Repeats, Begins, Proceeds,
      AcknowledgedWereAccepted, Landing, Armed, Claimed
<1>13. DisarmInv'
  <2>1. state' = "WAIT_DISARMED" => state # "WAIT_HEARTBEAT"
    BY <1>1, AwaitedStates
    DEF Outcome, Fails, Stays, Repeats, Begins, Proceeds
  <2> QED
    BY <1>1, <2>1 DEF DisarmInv
<1> QED
  BY <1>6, <1>7, <1>9, <1>13

(* The other steps of the session: the program's own exits and the clock *)
LEMMA OtherSession ==
  ASSUME SessionInv, ControllerOther \/ UNCHANGED session
  PROVE  /\ SessionTypeOK' /\ RequestInv' /\ OrderInv'
         /\ DisarmInv' /\ AcknowledgedWereAccepted'
<1> USE DEF SessionInv
<1>1. UNCHANGED <<inbox, uplink, armed, mode, accepted, foreign, attempts,
                  target>>
  BY DEF ControllerOther, IOFailure, Fail, Tick, Stopped, vars, progress,
         vehicle, session
<1>2. state' = state \/ state' = "ERROR"
  BY DEF ControllerOther, IOFailure, Fail, Tick, Stopped, vars, session
<1>3. SessionTypeOK'
  BY <1>1 DEF SessionTypeOK
<1>4. RequestInv' /\ OrderInv'
  BY <1>1 DEF RequestInv, OrderInv, Answers, Ack, Requested
<1>5. DisarmInv' /\ AcknowledgedWereAccepted'
  BY <1>1, <1>2 DEF DisarmInv, AcknowledgedWereAccepted, Landing, Armed, Claimed
<1> QED
  BY <1>3, <1>4, <1>5

(* A report that is no answer of the vehicle *)
LEMMA ReportSession ==
  ASSUME SessionInv, NEW f \in Frames,
         f.kind = "ack" => f.payload.command \in foreign',
         foreign \subseteq foreign', foreign' \subseteq Commands \cup {"other"},
         f.kind = "heartbeat" /\ f.payload.from = Autopilot =>
           f.payload.armed = armed,
         inbox' = Append(inbox, f), UNCHANGED <<vars, uplink, vehicle>>
  PROVE  /\ SessionTypeOK' /\ RequestInv' /\ OrderInv'
         /\ DisarmInv' /\ AcknowledgedWereAccepted'
<1> USE DEF SessionInv
<1>1. UNCHANGED <<state, target, uplink, armed, mode, accepted, attempts>>
  BY DEF vars, progress, vehicle
<1>2. inbox' \in Seq(Frames) /\ RequestInv' /\ OrderInv'
  BY <1>1, ReportKeeps
<1>3. SessionTypeOK'
  BY <1>1, <1>2 DEF SessionTypeOK
<1>4. AcknowledgedWereAccepted'
  BY <1>1 DEF AcknowledgedWereAccepted, Landing, Armed, Claimed
<1>5. DisarmInv'
  <2>1. inbox \in Seq(Frames)
    BY DEF SessionTypeOK
  <2>2. \A i \in DOMAIN inbox' : \/ i \in DOMAIN inbox /\ inbox'[i] = inbox[i]
                                \/ inbox'[i] = f
    BY <2>1, Appended
  <2> QED
    BY <1>1, <2>2 DEF DisarmInv
<1> QED
  BY <1>2, <1>3, <1>4, <1>5

(* The vehicle answers a command; once Land was accepted no Arm is left to  *)
(* be answered.                                                            *)
LEMMA AnswerSession ==
  ASSUME SessionInv, RejectCommand \/ AcceptCommand
  PROVE  /\ SessionTypeOK' /\ RequestInv' /\ OrderInv'
         /\ DisarmInv' /\ AcknowledgedWereAccepted'
         /\ "land" \in accepted => (armed' = armed)
<1> USE DEF SessionInv
<1> DEFINE c == Head(uplink).command
<1>1. PICK b \in BOOLEAN :
        /\ uplink # <<>> /\ uplink' = Tail(uplink)
        /\ inbox' = Append(inbox, [kind |-> "ack",
                                   payload |-> [command |-> c, accepted |-> b]])
        /\ accepted' = IF b THEN accepted \cup {c} ELSE accepted
        /\ armed' = (armed \/ (b /\ c = "arm"))
        /\ b \/ mode' = mode
        /\ ~b \/ mode' = CASE c = "offboard" -> "offboard"
                          [] c = "land" -> "land"
                          [] c = "arm" -> mode
        /\ Head(uplink).to = Autopilot
        /\ UNCHANGED <<vars, foreign>>
  <2>1. CASE AcceptCommand
    <3>1. armed' = (armed \/ (TRUE /\ c = "arm"))
      BY <2>1 DEF AcceptCommand
    <3>2. /\ uplink # <<>> /\ uplink' = Tail(uplink)
          /\ inbox' = Append(inbox, [kind |-> "ack",
                                 payload |-> [command |-> c, accepted |-> TRUE]])
          /\ accepted' = accepted \cup {c}
          /\ mode' = CASE c = "offboard" -> "offboard"
                       [] c = "land" -> "land"
                       [] c = "arm" -> mode
          /\ Head(uplink).to = Autopilot
          /\ UNCHANGED <<vars, foreign>>
      BY <2>1 DEF AcceptCommand, Report
    <3> QED
      BY <3>1, <3>2
  <2>2. CASE RejectCommand
    <3>1. armed' = armed /\ mode' = mode /\ accepted' = accepted
      BY <2>2 DEF RejectCommand, vehicle
    <3>2. /\ uplink # <<>> /\ uplink' = Tail(uplink)
          /\ inbox' = Append(inbox, [kind |-> "ack",
                                payload |-> [command |-> c, accepted |-> FALSE]])
          /\ Head(uplink).to = Autopilot
          /\ UNCHANGED <<vars, foreign>>
      BY <2>2 DEF RejectCommand, Report
    <3>3. armed' = (armed \/ (FALSE /\ c = "arm"))
      BY <3>1 DEF SessionTypeOK
    <3> QED
      BY <3>1, <3>2, <3>3
  <2> QED
    BY <2>1, <2>2
<1> HIDE DEF c
<1>2. UNCHANGED <<state, attempts, target, foreign>>
  BY <1>1 DEF vars, progress
<1>3. /\ inbox' \in Seq(Frames) /\ uplink' \in Seq(Links)
      /\ RequestInv' /\ OrderInv' /\ c \in Commands
  BY <1>1, <1>2, AnswerKeeps DEF c
<1>4. SessionTypeOK'
  <2>1. accepted' \subseteq Commands
    BY <1>1, <1>3 DEF SessionTypeOK
  <2>2. armed' \in BOOLEAN
    BY <1>1
  <2>3. mode' \in {"other", "offboard", "land"}
    BY <1>1, <1>3, AwaitedStates DEF SessionTypeOK
  <2> QED
    BY <1>2, <1>3, <2>1, <2>2, <2>3 DEF SessionTypeOK, Links
<1>5. AcknowledgedWereAccepted'
  <2>1. accepted \subseteq accepted'
    BY <1>1
  <2> QED
    BY <1>2, <2>1 DEF AcknowledgedWereAccepted, Landing, Armed, Claimed
<1>6. "land" \in accepted => (armed' = armed)
  <2> SUFFICES ASSUME "land" \in accepted PROVE armed' = armed
    OBVIOUS
  <2>1. uplink \in Seq(Links) /\ uplink # <<>>
    BY <1>1 DEF SessionTypeOK, Links
  <2>2. 1 \in DOMAIN uplink /\ uplink[1].command = c
    BY <2>1, TailLater DEF c
  <2>3. Rank["land"] <= Rank[c]
    BY <2>2 DEF OrderInv
  <2>4. c # "arm"
    BY <2>3, Ranks
  <2> QED
    BY <1>1, <2>4 DEF SessionTypeOK
<1>7. DisarmInv'
  <2> SUFFICES ASSUME state = "WAIT_DISARMED", "land" \notin foreign
               PROVE  DisarmInv'
    BY <1>2 DEF DisarmInv
  <2>1. armed' = armed
    BY <1>6 DEF AcknowledgedWereAccepted, Claimed
  <2>2. inbox \in Seq(Frames)
    BY DEF SessionTypeOK
  <2>3. [kind |-> "ack", payload |-> [command |-> c, accepted |-> b]] \in Frames
    BY <1>3 DEF Frames, Acks
  <2>4. ASSUME NEW i \in DOMAIN inbox', inbox'[i].kind = "heartbeat"
        PROVE  i \in DOMAIN inbox /\ inbox'[i] = inbox[i]
    <3> DEFINE f == [kind |-> "ack", payload |-> [command |-> c, accepted |-> b]]
    <3>1. f.kind # "heartbeat"
      OBVIOUS
    <3> HIDE DEF f
    <3>2. inbox' = Append(inbox, f) /\ f \in Frames
      BY <1>1, <2>3 DEF f, c
    <3> QED
      BY <2>2, <2>4, <3>1, <3>2, Appended
  <2> QED
    BY <2>1, <2>4 DEF DisarmInv
<1> QED
  BY <1>3, <1>4, <1>5, <1>6, <1>7

(* Frames are lost, or the vehicle changes without saying so. *)
LEMMA VehicleSession ==
  ASSUME SessionInv, IgnoreCommand \/ TouchDown \/ LeaveOffboard \/ LoseFrame
  PROVE  /\ SessionTypeOK' /\ RequestInv' /\ OrderInv'
         /\ DisarmInv' /\ AcknowledgedWereAccepted'
         /\ armed' => armed
<1> USE DEF SessionInv
<1>1. UNCHANGED <<state, attempts, target, accepted, foreign>>
  BY DEF IgnoreCommand, TouchDown, LeaveOffboard, LoseFrame, vars, progress,
         vehicle
<1>2. inbox \in Seq(Frames) /\ uplink \in Seq(Links)
  BY DEF SessionTypeOK, Links
<1>3. /\ inbox' = inbox \/ (inbox # <<>> /\ inbox' = Tail(inbox))
      /\ uplink' = uplink \/ (uplink # <<>> /\ uplink' = Tail(uplink))
  BY DEF IgnoreCommand, TouchDown, LeaveOffboard, LoseFrame
<1>4. Later(inbox', inbox) /\ inbox' \in Seq(Frames)
  BY <1>2, <1>3, SameLater, TailLater
<1>5. Later(uplink', uplink) /\ uplink' \in Seq(Links)
  BY <1>2, <1>3, SameLater, TailLater
<1>6. RequestInv' /\ OrderInv'
  <2>1. Requested' = Requested
    BY <1>1 DEF Requested
  <2> QED
    BY <1>1, <1>4, <1>5, <2>1, LaterKeeps
<1>7. /\ armed' \in BOOLEAN
      /\ armed' => armed
      /\ mode' \in {"other", "offboard", "land"}
  <2>1. armed \in BOOLEAN /\ mode \in {"other", "offboard", "land"}
    BY DEF SessionTypeOK
  <2>2. armed' = armed \/ armed' = FALSE
    BY DEF IgnoreCommand, TouchDown, LeaveOffboard, LoseFrame, vehicle
  <2>3. mode' = mode \/ mode' \in {"other", "land"}
    BY DEF IgnoreCommand, TouchDown, LeaveOffboard, LoseFrame, vehicle
  <2>4. armed' \in BOOLEAN
    BY <2>1, <2>2
  <2>5. armed' => armed
    BY <2>1, <2>2, Zenon
  <2>6. mode' \in {"other", "offboard", "land"}
    BY <2>1, <2>3
  <2> QED
    BY <2>4, <2>5, <2>6
<1>8. SessionTypeOK'
  BY <1>1, <1>4, <1>5, <1>7 DEF SessionTypeOK, Links
<1>9. AcknowledgedWereAccepted'
  BY <1>1 DEF AcknowledgedWereAccepted, Landing, Armed, Claimed
<1>10. DisarmInv'
  <2>1. \A i \in DOMAIN inbox' : \E j \in DOMAIN inbox : inbox'[i] = inbox[j]
    BY <1>2, <1>4, LaterElements
  <2> QED
    BY <1>1, <1>7, <2>1 DEF DisarmInv
<1> QED
  BY <1>6, <1>7, <1>8, <1>9, <1>10

(* SessionInv is inductive. *)
LEMMA NextSessionInv == SessionInv /\ [SessionNext]_session => SessionInv'
<1> SUFFICES ASSUME SessionInv, [SessionNext]_session PROVE SessionInv'
  OBVIOUS
<1> DEFINE Goal == /\ SessionTypeOK' /\ RequestInv' /\ OrderInv'
                   /\ DisarmInv' /\ AcknowledgedWereAccepted'
<1>1. IndInv'
  BY SessionRefines, NextIndInv DEF SessionInv
<1>2. CASE ControllerTurn
  BY <1>1, <1>2, TurnSession DEF SessionInv
<1>3. CASE ControllerOther \/ UNCHANGED session
  BY <1>1, <1>3, OtherSession DEF SessionInv
<1>4. ASSUME NEW c \in Components, SendHeartbeat(c) PROVE Goal
  <2> DEFINE f == [kind |-> "heartbeat",
                   payload |-> [from |-> c, armed |-> c = Autopilot /\ armed]]
  <2>1. f \in Frames
    BY DEF Frames, Heartbeats
  <2>2. /\ f.kind = "heartbeat" /\ f.payload.from = c
        /\ f.payload.armed = (c = Autopilot /\ armed)
    OBVIOUS
  <2>3. inbox' = Append(inbox, f) /\ UNCHANGED <<vars, uplink, vehicle, foreign>>
    BY <1>4 DEF SendHeartbeat, Report
  <2>4. f.payload.from = Autopilot => f.payload.armed = armed
    BY <2>2 DEF SessionInv, SessionTypeOK
  <2>5. foreign \subseteq foreign' /\ foreign' \subseteq Commands \cup {"other"}
    BY <2>3 DEF SessionInv, SessionTypeOK
  <2> HIDE DEF f
  <2> QED
    BY <2>1, <2>2, <2>3, <2>4, <2>5, ReportSession
<1>5. ASSUME NEW p \in Origins, SendPosition(p) PROVE Goal
  <2> DEFINE f == [kind |-> "position", payload |-> p]
  <2>1. f \in Frames /\ f.kind = "position"
    BY DEF Frames
  <2>2. inbox' = Append(inbox, f) /\ UNCHANGED <<vars, uplink, vehicle, foreign>>
    BY <1>5 DEF SendPosition, Report
  <2>3. foreign \subseteq foreign' /\ foreign' \subseteq Commands \cup {"other"}
    BY <2>2 DEF SessionInv, SessionTypeOK
  <2> HIDE DEF f
  <2> QED
    BY <2>1, <2>2, <2>3, ReportSession
<1>6. ASSUME ForeignAck PROVE Goal
  <2>1. PICK c \in ForeignCommands, ok \in BOOLEAN :
          /\ Report("ack", [command |-> c, accepted |-> ok])
          /\ foreign' = foreign \cup {c}
          /\ UNCHANGED <<vars, uplink, vehicle>>
    BY <1>6 DEF ForeignAck
  <2> DEFINE f == [kind |-> "ack",
                   payload |-> [command |-> c, accepted |-> ok]]
  <2>2. c \in Commands \cup {"other"}
    BY SessionAssumption
  <2>3. f \in Frames /\ f.kind = "ack" /\ f.payload.command \in foreign'
    BY <2>1, <2>2 DEF Frames, Acks
  <2>4. inbox' = Append(inbox, f) /\ UNCHANGED <<vars, uplink, vehicle>>
    BY <2>1 DEF Report
  <2>5. foreign \subseteq foreign' /\ foreign' \subseteq Commands \cup {"other"}
    BY <2>1, <2>2 DEF SessionInv, SessionTypeOK
  <2> HIDE DEF f
  <2> QED
    BY <2>3, <2>4, <2>5, ReportSession
<1>7. ASSUME RejectCommand \/ AcceptCommand PROVE Goal
  BY <1>7, AnswerSession
<1>8. ASSUME IgnoreCommand \/ TouchDown \/ LeaveOffboard \/ LoseFrame
      PROVE  Goal
  BY <1>8, VehicleSession
<1>9. Goal
  BY <1>2, <1>3, <1>4, <1>5, <1>6, <1>7, <1>8, TurnSession, OtherSession
  DEF SessionNext
<1> QED
  BY <1>1, <1>9 DEF SessionInv

(* Every reachable state of the session satisfies the inductive invariant:  *)
(* commands keep their order from the controller to its vehicle and their  *)
(* acknowledgements keep it on the way back, whatever is lost or repeated. *)
THEOREM SessionInvariant == SessionSpec => []SessionInv
<1> QED
  BY InitSessionInv, NextSessionInv, PTL DEF SessionSpec

(* Whatever vehicle and link it is connected to, the controller does what   *)
(* ControlLoop says, so that every theorem about ControlLoop holds here.   *)
THEOREM SessionRunsTheLoop == SessionSpec => Spec
<1>1. SessionInit => Init
  BY DEF SessionInit
<1>2. SessionInv /\ [SessionNext]_session => [Next]_vars
  BY SessionRefines DEF SessionInv
<1> QED
  BY <1>1, <1>2, SessionInvariant, PTL DEF SessionSpec, Spec

(* The controller goes on only after its vehicle accepted what it asked     *)
(* for, or after someone else acknowledged that very command (main.c 443,  *)
(* 516, 663), on every lossy link and whatever else is acknowledged on it. *)
THEOREM GoesOnWhenAccepted == SessionSpec => []AcknowledgedWereAccepted
<1>1. SessionInv => AcknowledgedWereAccepted
  BY DEF SessionInv
<1> QED
  BY <1>1, SessionInvariant, PTL

(* With a target that is not the autopilot nothing is ever flown, unless    *)
(* someone else's Offboard is acknowledged on the link (main.c 332, 443).  *)
THEOREM WrongTargetStaysDown == SessionSpec => []WrongTargetNeverFlies
<1>1. SessionInv => WrongTargetNeverFlies
  BY DEF SessionInv, RequestInv, AcknowledgedWereAccepted, Claimed,
         WrongTargetNeverFlies, Armed
<1> QED
  BY <1>1, SessionInvariant, PTL

(* The program ends successfully with a disarmed vehicle, which stays so,   *)
(* unless the last turn reads a heartbeat of another component or someone  *)
(* else's Land was acknowledged on the link (main.c 663, 711-730).         *)
THEOREM EndsDisarmed == SessionSpec => CompletesDisarmed
<1> DEFINE Ends == /\ ControllerTurn /\ state' = "COMPLETE"
                   /\ Strangers = {} /\ "land" \notin foreign
                   => ~armed
           Stays0 == state = "COMPLETE" /\ ~armed /\ "land" \in accepted
                       => ~armed'
<1>1. ASSUME SessionInv PROVE Ends
  <2> SUFFICES ASSUME ControllerTurn, state' = "COMPLETE", Strangers = {},
                      "land" \notin foreign
               PROVE  ~armed
    OBVIOUS
  <2>1. PICK n \in 0..Len(inbox), rx \in Received :
          /\ rx = receive_px4_messages(SubSeq(inbox, 1, n))
          /\ Outcome(rx)
          /\ \A i \in DOMAIN SubSeq(inbox, 1, n) :
               i \in DOMAIN inbox /\ SubSeq(inbox, 1, n)[i] = inbox[i]
    BY <1>1, TurnReads DEF SessionInv
  <2>2. state # "COMPLETE"
    <3>1. ~ConnectionLost(rx) \/ state # "COMPLETE"
      BY DEF ConnectionLost, Terminal
    <3>2. PICK r : Iterate(r)
      BY DEF ControllerTurn
    <3>3. TurnOf(r)
      BY <3>2, EveryTurn
    <3> QED
      BY <3>3 DEF TurnOf, Turn, WaitLocalPosition, LoseConnection,
                  ConnectionLost, Terminal
  <2>3. state = "WAIT_DISARMED" /\ ReportsDisarmed(rx)
    BY <2>1, <2>2, AwaitedStates
    DEF Outcome, Fails, Stays, Repeats, Begins, Proceeds
  <2>4. SubSeq(inbox, 1, n) \in Seq(Frames)
    BY <1>1, DropLater DEF SessionInv, SessionTypeOK
  <2>5. PICK m \in Hits(SubSeq(inbox, 1, n), "heartbeat") :
          rx.heartbeat = SubSeq(inbox, 1, n)[m].payload
    BY <2>1, <2>3, <2>4, Reception DEF ReportsDisarmed
  <2>6. /\ m \in DOMAIN inbox /\ inbox[m].kind = "heartbeat"
        /\ rx.heartbeat = inbox[m].payload
    BY <2>1, <2>5 DEF Hits
  <2>7. inbox[m].payload.from = Autopilot
    BY <2>6 DEF Strangers
  <2> QED
    BY <1>1, <2>3, <2>6, <2>7 DEF SessionInv, DisarmInv, ReportsDisarmed
<1>2. ASSUME SessionInv, [SessionNext]_session PROVE Stays0
  <2> SUFFICES ASSUME state = "COMPLETE", ~armed, "land" \in accepted
               PROVE  ~armed'
    OBVIOUS
  <2>2. CASE RejectCommand \/ AcceptCommand
    BY <1>2, <2>2, AnswerSession
  <2>3. CASE IgnoreCommand \/ TouchDown \/ LeaveOffboard \/ LoseFrame
    BY <1>2, <2>3, VehicleSession
  <2>4. CASE UNCHANGED armed
    BY <2>4
  <2> QED
    BY <1>2, <2>2, <2>3, <2>4
    DEF SessionNext, ControllerTurn, ControllerOther, SendHeartbeat,
        SendPosition, ForeignAck, vehicle, session
<1>3. SessionInv /\ [SessionNext]_session => [Ends /\ Stays0]_session
  BY <1>1, <1>2
<1> QED
  BY <1>3, SessionInvariant, PTL DEF SessionSpec, CompletesDisarmed

(* The acknowledgement a drain keeps is the awaited one, if it has arrived  *)
(* and none of others follows it: it has the rank of the awaited command,   *)
(* because none of lower rank follows and none of higher rank was          *)
(* requested.                                                              *)
LEMMA AwaitedRead ==
  ASSUME SessionInv, NEW c \in Commands, state = Awaited[c], Waiting(c),
         NEW rx, rx = receive_px4_messages(inbox)
  PROVE  Acknowledges(rx, c)
<1> USE DEF SessionInv
<1>1. inbox \in Seq(Frames) /\ Len(inbox) \in Nat /\ DOMAIN inbox = 1..Len(inbox)
  BY DEF SessionTypeOK
<1>2. PICK i \in Answers :
        /\ inbox[i].payload.command = c
        /\ \A j \in i..Len(inbox) : Ack(j) => j \in Answers
  BY DEF Waiting
<1>3. i \in Hits(inbox, "ack") /\ i \in DOMAIN inbox
  BY <1>2 DEF Hits, Ack, Answers
<1>4. PICK m \in Hits(inbox, "ack") :
        /\ rx.ack = inbox[m].payload
        /\ \A j \in Hits(inbox, "ack") : m >= j
  BY <1>1, <1>3, Reception
<1>5. m >= i /\ m \in i..Len(inbox) /\ Ack(m)
  BY <1>1, <1>3, <1>4 DEF Hits, Ack
<1>6. i \in Answers /\ m \in Answers
  BY <1>2, <1>5
<1>7. Rank[c] <= Rank[rx.ack.command]
  BY <1>2, <1>4, <1>5, <1>6 DEF OrderInv
<1>8. rx.ack.command \in Requested
  BY <1>4, <1>6 DEF RequestInv
<1>9. Rank[rx.ack.command] <= Rank[c]
  <2>1. /\ c = "offboard" => attempts["arm"] = 0 /\ attempts["land"] = 0
        /\ c = "arm" => attempts["land"] = 0
    BY AwaitedStates
    DEF IndInv, AttemptInv, Unplaced, Streaming
  <2>2. rx.ack.command \in Commands /\ attempts[rx.ack.command] > 0
    BY <1>8 DEF Requested
  <2> QED
    BY <2>1, <2>2, Ranks, AwaitedStates
<1>10. rx.ack.command = c
  <2>1. rx.ack.command \in Commands
    BY <1>8 DEF Requested
  <2> QED
    BY <1>7, <1>9, <2>1, Ranks, AwaitedStates
<1>11. Acknowledges(rx, c)
  BY <1>10 DEF Acknowledges
<1> QED
  BY <1>11

(* The vehicle's answer is acted on by the turn that reads it if none of    *)
(* others follows it in the buffer (px4_messages.c 78-83): no late answer  *)
(* of its own to an earlier command hides it.                              *)
THEOREM ArrivedAckActedOn == SessionSpec => AwaitedAckActedOn
<1> DEFINE Acted == \A c \in Commands :
                      ControllerTurn /\ state = Awaited[c] /\ Waiting(c)
                        => state' # state
<1>1. ASSUME SessionInv PROVE Acted
  <2> SUFFICES ASSUME NEW c \in Commands, ControllerTurn,
                      state = Awaited[c], Waiting(c)
               PROVE  state' # state
    OBVIOUS
  <2> USE DEF SessionInv
  <2>1. PICK n \in 0..Len(inbox), rx \in Received :
          /\ rx = receive_px4_messages(SubSeq(inbox, 1, n))
          /\ n = Len(inbox) \/ state = "WAIT_HEARTBEAT"
          /\ Outcome(rx)
    BY <1>1, TurnReads
  <2>2. inbox \in Seq(Frames) /\ n = Len(inbox) /\ SubSeq(inbox, 1, n) = inbox
    <3>1. inbox \in Seq(Frames) /\ n = Len(inbox)
      BY <1>1, <2>1, AwaitedStates DEF SessionTypeOK
    <3>2. SubSeq(inbox, 1, Len(inbox)) = inbox
      BY <3>1, SubSeqFull
    <3> QED
      BY <3>1, <3>2
  <2>3. Acknowledges(rx, c)
    BY <1>1, <2>1, <2>2, AwaitedRead
  <2> QED
    BY <2>1, <2>3, AwaitedStates
    DEF Outcome, Fails, Stays, Repeats, Begins, Proceeds
<1>2. SessionInv /\ [SessionNext]_session => [Acted]_session
  BY <1>1
<1> QED
  BY <1>2, SessionInvariant, PTL DEF SessionSpec, AwaitedAckActedOn
=============================================================================
