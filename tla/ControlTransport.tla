--------------------------- MODULE ControlTransport ---------------------------
(***************************************************************************)
(* control_transport.c and the loops of the controller that call it.  The  *)
(* connection is opened as one of two kinds, whose functions are called    *)
(* through pointers:                                                       *)
(*  - udp listens on a port, takes the sender of the first heartbeat as    *)
(*    its peer, and skips the datagrams of everyone else from then on;     *)
(*  - serial writes frames to a port in non-blocking mode, whose driver    *)
(*    takes as many bytes as it has room for.                              *)
(* The controller receives until a heartbeat is found, then turn by turn   *)
(* until nothing is left, and sends; it stops at the first failure.        *)
(***************************************************************************)
EXTENDS Integers, Sequences, FiniteSets

CONSTANTS
  Hosts, Ports,     \* sender.sin_addr and sender.sin_port
  Wire,             \* the other end of a serial line
  NoAddress,
  QueueSize,        \* packets the socket or the serial driver can hold
  DriverSize,       \* bytes the serial driver can hold for sending
  MaxLength,        \* bound: bytes of a frame
  MaxSent           \* bound: frames sent over a serial line in a run

Addresses == [host : Hosts, port : Ports]

ASSUME TransportAssumption ==
  /\ NoAddress \notin Addresses \cup {Wire}
  /\ QueueSize \in Nat /\ DriverSize \in Nat \ {0}
  /\ MaxLength \in Nat \ {0} /\ MaxSent \in Nat

VARIABLES
  pc,               \* "start", "idle", "receive", "parse", "write", "poll",
                    \* "failed" or "closed"
  kind,             \* "none", "udp" or "serial"
  px4_found,        \* CONTROL_WAIT_HEARTBEAT is over
  incoming,         \* packets to be received: their sender, and what they
                    \* hold: whether they complete a valid heartbeat
  delivered,        \* the packet in hand while pc = "parse"
  peer,             \* context.udp.peer, NoAddress while peer_known is false
  last_sender,      \* context.udp.last_sender
  greeted,          \* history: who has sent a heartbeat that was delivered
  sent_to,          \* history: where the last sendto went
  length,           \* of the frame that serial_send writes
  offset,           \* how many of its bytes the driver has taken
  held,             \* bytes in the driver
  line              \* history: the bytes the driver took: [frame, byte, of]

receiving == <<px4_found, incoming, delivered, peer, last_sender, greeted>>
sending == <<sent_to, length, offset, held, line>>
vars == <<pc, kind, receiving, sending>>

Packets == [from : IF kind = "udp" THEN Addresses ELSE {Wire},
            holds : {"heartbeat", "other", "nothing"}]

-----------------------------------------------------------------------------
Init ==
  /\ pc = "start"
  /\ kind = "none"
  /\ px4_found = FALSE
  /\ incoming = <<>> /\ delivered = <<>>
  /\ peer = NoAddress /\ last_sender = NoAddress /\ greeted = {}
  /\ sent_to = NoAddress
  /\ length = 0 /\ offset = 0 /\ held = 0
  /\ line = <<>>

(* control_transport_open_udp or control_transport_open_serial *)
Open ==
  /\ pc = "start"
  /\ \/ pc' = "idle" /\ kind' \in {"udp", "serial"}
     \/ pc' = "closed" /\ UNCHANGED kind
  /\ UNCHANGED <<receiving, sending>>

(* A packet arrives; if the queue is full it is lost.  Anyone may send to   *)
(* the UDP port.                                                           *)
Arrive ==
  /\ kind # "none"
  /\ Len(incoming) < QueueSize
  /\ \E p \in Packets : incoming' = Append(incoming, p)
  /\ UNCHANGED <<pc, kind, px4_found, delivered, peer, last_sender, greeted, sending>>

-----------------------------------------------------------------------------
(* Receiving *)

(* A turn of the controller's loop finds the connection readable; of a UDP  *)
(* socket poll() may say so although there is nothing.                     *)
StartReceive ==
  /\ pc = "idle"
  /\ pc' = "receive"
  /\ UNCHANGED <<kind, receiving, sending>>

(* Variant: only the host is compared. *)
SameHost(a) == peer # NoAddress => a.host = peer.host

(* Whose packets are not skipped; serial_receive skips none. *)
FromPeer(a) == peer # NoAddress => a.host = peer.host /\ a.port = peer.port

(* udp_receive takes a packet, and returns it or goes round its loop;       *)
(* serial_receive returns what there is.                                   *)
TakePacket ==
  /\ pc = "receive"
  /\ incoming # <<>>
  /\ incoming' = Tail(incoming)
  /\ last_sender' = IF kind = "udp" THEN Head(incoming).from ELSE last_sender
  /\ IF FromPeer(Head(incoming).from)
     THEN /\ pc' = "parse"
          /\ delivered' = <<Head(incoming)>>
          /\ greeted' = IF Head(incoming).holds = "heartbeat"
                        THEN greeted \cup {Head(incoming).from} ELSE greeted
     ELSE UNCHANGED <<pc, delivered, greeted>>
  /\ UNCHANGED <<kind, px4_found, peer, sending>>

(* Variant: without MSG_DONTWAIT recvfrom waits for a packet. *)
WaitForPacket == FALSE

(* recvfrom and read fail with EAGAIN. *)
NothingToReceive == incoming = <<>>

ReceiveReturns ==
  /\ pc = "receive"
  /\ NothingToReceive
  /\ pc' = "idle"
  /\ UNCHANGED <<kind, receiving, sending>>

(* Any other error *)
ReceiveFails ==
  /\ pc = "receive"
  /\ pc' = "failed"
  /\ UNCHANGED <<kind, receiving, sending>>

(* Variant: the first sender of anything becomes the peer. *)
AnythingReceived == delivered # <<>>

HeartbeatReceived == delivered[1].holds = "heartbeat"

(* control_transport_accept_peer once the heartbeat is parsed; the serial   *)
(* one does nothing.                                                       *)
AcceptPeer == peer' = IF kind = "udp" THEN last_sender ELSE peer

(* In CONTROL_WAIT_HEARTBEAT a turn receives once, in every later state it  *)
(* receives again until there is nothing, or a packet without a byte       *)
(* (receive_px4_messages).                                                 *)
Parse ==
  /\ pc = "parse"
  /\ delivered' = <<>>
  /\ IF px4_found
     THEN /\ pc' = IF delivered[1].holds = "nothing" THEN "idle" ELSE "receive"
          /\ UNCHANGED <<px4_found, peer>>
     ELSE /\ pc' = "idle"
          /\ px4_found' = HeartbeatReceived
          /\ IF HeartbeatReceived THEN AcceptPeer ELSE UNCHANGED peer
  /\ UNCHANGED <<kind, incoming, last_sender, greeted, sending>>

-----------------------------------------------------------------------------
(* Sending *)

(* udp_send: one datagram, or a failure *)
UdpSend ==
  /\ pc = "idle" /\ kind = "udp" /\ px4_found
  /\ \/ UNCHANGED pc /\ sent_to' = peer
     \/ pc' = "failed" /\ UNCHANGED sent_to
  /\ UNCHANGED <<kind, receiving, length, offset, held, line>>

FrameCount == IF line = <<>> THEN 0 ELSE line[Len(line)].frame

(* serial_send is called with a frame, which is not empty. *)
SerialSend ==
  /\ pc = "idle" /\ kind = "serial" /\ px4_found
  /\ FrameCount < MaxSent
  /\ length' \in 1..MaxLength
  /\ offset' = 0
  /\ pc' = "write"
  /\ UNCHANGED <<kind, receiving, sent_to, held, line>>

Room == DriverSize - held
Sent == offset >= length

(* Variant: every write starts at the beginning of the frame. *)
FirstByteAgain == 1

(* bytes + offset *)
FirstByte == offset + 1

(* The n bytes from FirstByte on, of the frame that began last or begins now *)
Bytes(n) ==
  LET number == IF offset = 0 THEN FrameCount + 1 ELSE FrameCount
  IN  [i \in 1..n |-> [frame |-> number, byte |-> FirstByte + i - 1, of |-> length]]

(* write() takes some of the remaining bytes.  EINTR only repeats it. *)
Write ==
  /\ pc = "write" /\ ~Sent
  /\ \E n \in 1..(length - offset) :
       /\ n <= Room
       /\ line' = line \o Bytes(n)
       /\ held' = held + n
       /\ offset' = offset + n
  /\ UNCHANGED <<pc, kind, receiving, sent_to, length>>

SendReturns ==
  /\ pc = "write" /\ Sent
  /\ pc' = "idle"
  /\ UNCHANGED <<kind, receiving, sending>>

(* EAGAIN: wait for room. *)
WouldBlock ==
  /\ pc = "write" /\ ~Sent
  /\ Room = 0
  /\ pc' = "poll"
  /\ UNCHANGED <<kind, receiving, sending>>

(* Any other error: the rest of the frame is never sent. *)
WriteError ==
  /\ pc = "write" /\ ~Sent
  /\ pc' = "failed"
  /\ UNCHANGED <<kind, receiving, sending>>

(* Variant: poll() waits until there is room. *)
GiveUpNever == FALSE

(* 20 ms have passed, a signal came, or poll() reports an error instead. *)
GiveUp == TRUE

(* poll() reports room, or the frame is given up. *)
PollReturns ==
  /\ pc = "poll"
  /\ \/ Room > 0 /\ pc' = "write"
     \/ GiveUp /\ pc' = "failed"
  /\ UNCHANGED <<kind, receiving, sending>>

(* The UART transmits a byte. *)
Drain ==
  /\ held > 0
  /\ held' = held - 1
  /\ UNCHANGED <<pc, kind, receiving, sent_to, length, offset, line>>

(* The mission is over, or CONTROL_ERROR: control_transport_close *)
Close ==
  /\ pc \in {"idle", "failed"}
  /\ pc' = "closed"
  /\ kind' = "none"
  /\ UNCHANGED <<receiving, sending>>

-----------------------------------------------------------------------------
Receive == TakePacket \/ ReceiveReturns \/ Parse
Send == Write \/ SendReturns \/ WouldBlock \/ PollReturns

Next ==
  \/ Open
  \/ Arrive
  \/ StartReceive \/ Receive \/ ReceiveFails
  \/ UdpSend
  \/ SerialSend \/ Send \/ WriteError
  \/ Drain
  \/ Close

(* A call that was made goes on; nobody need send anything, no error need   *)
(* come to its help, and a serial line need not transmit anything.         *)
Spec == Init /\ [][Next]_vars /\ WF_vars(Receive) /\ WF_vars(Send)

-----------------------------------------------------------------------------
(* Correctness *)

(* What udp_accept_peer would take is the sender of the datagram in hand,   *)
(* although the sender of every datagram passes through last_sender, and   *)
(* setpoints and commands go only to one address, which sent a heartbeat,  *)
(* however many others send to the port before, in between and after       *)
(* (control_transport.c 14-67, main.c 297-352).                            *)
CommandsGoToVehicle ==
  /\ delivered # <<>> /\ kind = "udp" => last_sender = delivered[1].from
  /\ kind = "udp" /\ px4_found => peer \in greeted
  /\ sent_to # NoAddress => sent_to = peer

(* Once the vehicle is known nothing from another address or another port   *)
(* of the same host is handed to the controller, not even if it was in the *)
(* socket before (control_transport.c 46-56).                              *)
OthersIgnored ==
  [][peer # NoAddress /\ delivered' # <<>> => delivered'[1].from = peer]_vars

StrangerSends == Arrive /\ peer # NoAddress /\ incoming'[Len(incoming')].from # peer

(* udp_receive skips packets in a loop without a limit, and the drain goes   *)
(* on while there are packets.  A call returns at the latest when those    *)
(* who are skipped make a pause, even if the vehicle never sends again,    *)
(* and the drain when everybody does: neither ever waits for a packet      *)
(* (control_transport.c 34-58, px4_messages.c 16-39).                      *)
ReceiveEnds ==
  /\ <>[][~StrangerSends]_vars => (pc = "receive" ~> pc # "receive")
  /\ <>[][~Arrive]_vars => (pc \in {"receive", "parse"} ~> pc \in {"idle", "failed"})

LastByte == line[Len(line)]

(* The serial line carries whole frames: no byte is left out or sent twice   *)
(* however the driver splits them, a new frame begins only after the last  *)
(* byte of the one before, and so a frame that fails half-way is the last  *)
(* (control_transport.c 69-103).                                           *)
WholeFramesOnLine ==
  /\ \A i \in 2..Len(line) :
       \/ /\ line[i].frame = line[i - 1].frame
          /\ line[i].byte = line[i - 1].byte + 1
       \/ /\ line[i].frame = line[i - 1].frame + 1
          /\ line[i].byte = 1
          /\ line[i - 1].byte = line[i - 1].of
  /\ pc = "idle" /\ line # <<>> => LastByte.byte = LastByte.of

(* Sending never hangs the control loop, even if the serial line is stuck:  *)
(* the wait for room is bounded (control_transport.c 90-99).               *)
SendEnds == pc \in {"write", "poll"} ~> pc \in {"idle", "failed"}

-----------------------------------------------------------------------------
(* Why the invariants hold *)

Senders == Addresses \cup {Wire}
TakenBytes == [frame : Nat, byte : Nat, of : Nat]

TypeOK ==
  /\ pc \in {"start", "idle", "receive", "parse", "write", "poll", "failed",
             "closed"}
  /\ kind \in {"none", "udp", "serial"}
  /\ px4_found \in BOOLEAN
  /\ incoming \in Seq([from : Senders, holds : {"heartbeat", "other", "nothing"}])
  /\ peer \in Addresses \cup {NoAddress}
  /\ last_sender \in Addresses \cup {NoAddress}
  /\ length \in Nat /\ offset \in Nat /\ held \in Nat
  /\ line \in Seq(TakenBytes)

(* Only a UDP connection has a peer; it is fixed together with px4_found,   *)
(* when the packet in hand is the heartbeat of last_sender.                *)
PeerInv ==
  /\ kind = "udp" => \A i \in DOMAIN incoming : incoming[i].from \in Addresses
  /\ kind # "udp" => pc \in {"start", "closed"} \/ peer = NoAddress
  /\ pc = "start" => kind = "none" /\ ~px4_found /\ incoming = <<>>
  /\ ~px4_found => peer = NoAddress /\ sent_to = NoAddress
  /\ kind = "udp" /\ px4_found => peer # NoAddress
  /\ pc # "parse" => delivered = <<>>
  /\ pc = "parse" =>
       /\ delivered # <<>>
       /\ kind = "udp" => delivered[1].from \in Addresses
       /\ kind = "udp" /\ HeartbeatReceived => last_sender \in greeted
       /\ peer # NoAddress => delivered[1].from = peer

(* Between two calls of serial_send the last frame is complete; during one  *)
(* the line ends with the offset bytes that the driver took, or, while it  *)
(* took none, with the last byte of the frame before.                      *)
LineInv ==
  /\ pc \in {"start", "idle", "receive", "parse"} /\ line # <<>> =>
       LastByte.byte = LastByte.of
  /\ pc \in {"write", "poll"} =>
       /\ length > 0 /\ offset <= length
       /\ offset = 0 /\ line # <<>> => LastByte.byte = LastByte.of
       /\ offset > 0 =>
            line # <<>> /\ LastByte.byte = offset /\ LastByte.of = length

IndInv ==
  /\ TypeOK
  /\ PeerInv
  /\ LineInv
  /\ CommandsGoToVehicle
  /\ WholeFramesOnLine
=============================================================================
