------------------------ MODULE ControlTransport_proofs ------------------------
(***************************************************************************)
(* The safety properties of ControlTransport, for every set of addresses,  *)
(* every queue and driver size and every frame length.  The receiving and  *)
(* the sending side have an invariant each, PeerInv and LineInv.           *)
(***************************************************************************)
EXTENDS ControlTransport, SequenceTheorems, TLAPS

LEMMA InitIndInv == Init => IndInv
<1> SUFFICES ASSUME Init PROVE IndInv
  OBVIOUS
<1> USE DEF Init
<1>1. TypeOK
  <2>1. /\ <<>> \in Seq(TakenBytes)
        /\ <<>> \in Seq([from : Senders, holds : {"heartbeat", "other", "nothing"}])
    BY EmptySeq
  <2> QED
    BY <2>1 DEF TypeOK
<1>2. PeerInv
  BY DEF PeerInv
<1>3. LineInv
  BY DEF LineInv
<1>4. CommandsGoToVehicle
  BY DEF CommandsGoToVehicle
<1>5. WholeFramesOnLine
  BY DEF WholeFramesOnLine
<1> QED
  BY <1>1, <1>2, <1>3, <1>4, <1>5 DEF IndInv

-----------------------------------------------------------------------------
(* Types *)

LEMMA PacketTypes ==
  ASSUME NEW p \in Packets
  PROVE  /\ p \in [from : Senders, holds : {"heartbeat", "other", "nothing"}]
         /\ kind = "udp" => p.from \in Addresses
  BY DEF Packets, Senders

LEMMA HeadOfIncoming ==
  ASSUME TypeOK, incoming # <<>>
  PROVE  /\ Head(incoming) \in [from : Senders, holds : {"heartbeat", "other", "nothing"}]
         /\ Head(incoming) = incoming[1] /\ 1 \in DOMAIN incoming
         /\ Tail(incoming)
              \in Seq([from : Senders, holds : {"heartbeat", "other", "nothing"}])
         /\ \A i \in DOMAIN Tail(incoming) :
              Tail(incoming)[i] = incoming[i + 1] /\ i + 1 \in DOMAIN incoming
<1> DEFINE P == [from : Senders, holds : {"heartbeat", "other", "nothing"}]
<1>1. incoming \in Seq(P)
  BY DEF TypeOK
<1> HIDE DEF P
<1>2. /\ Head(incoming) \in P /\ Tail(incoming) \in Seq(P)
      /\ Len(Tail(incoming)) = Len(incoming) - 1
      /\ \A i \in 1..Len(Tail(incoming)) : Tail(incoming)[i] = incoming[i + 1]
  BY <1>1, HeadTailProperties
<1>3. Len(incoming) \in Nat \ {0} /\ DOMAIN incoming = 1..Len(incoming)
      /\ DOMAIN Tail(incoming) = 1..Len(Tail(incoming))
  BY <1>1, <1>2, EmptySeq, LenProperties
<1>4. Head(incoming) = incoming[1]
  BY <1>1, <1>3
<1> QED
  BY <1>2, <1>3, <1>4 DEF P

(* The bytes a write puts on the line *)
LEMMA TakenByWrite ==
  ASSUME TypeOK, NEW n \in Nat
  PROVE  /\ Bytes(n) \in Seq(TakenBytes) /\ Len(Bytes(n)) = n
         /\ FrameCount \in Nat
         /\ \A i \in 1..n :
              /\ Bytes(n)[i].byte = offset + i
              /\ Bytes(n)[i].of = length
              /\ Bytes(n)[i].frame =
                   IF offset = 0 THEN FrameCount + 1 ELSE FrameCount
<1>1. FrameCount \in Nat
  <2>1. line \in Seq(TakenBytes)
    BY DEF TypeOK
  <2>2. CASE line # <<>>
    <3>1. Len(line) \in 1..Len(line)
      BY <2>1, <2>2, EmptySeq
    <3>2. line[Len(line)] \in TakenBytes
      BY <2>1, <3>1, ElementOfSeq
    <3> QED
      BY <2>2, <3>2 DEF FrameCount, TakenBytes
  <2> QED
    BY <2>2 DEF FrameCount
<1> DEFINE number == IF offset = 0 THEN FrameCount + 1 ELSE FrameCount
           e == [i \in 1..n |->
                   [frame |-> number, byte |-> FirstByte + i - 1, of |-> length]]
<1>2. number \in Nat
  BY <1>1
<1>3. Bytes(n) = e
  BY DEF Bytes
<1>4. \A i \in 1..n : e[i] \in TakenBytes
  BY <1>2 DEF TypeOK, TakenBytes, FirstByte
<1>5. e \in Seq(TakenBytes) /\ Len(e) = n
  BY <1>4
<1>6. \A i \in 1..n : e[i].byte = offset + i /\ e[i].of = length /\ e[i].frame = number
  BY DEF FirstByte, TypeOK
<1> QED
  BY <1>1, <1>3, <1>5, <1>6

LEMMA TypeNext == TypeOK /\ PeerInv /\ [Next]_vars => TypeOK'
<1> SUFFICES ASSUME TypeOK, PeerInv, [Next]_vars PROVE TypeOK'
  OBVIOUS
<1> USE TransportAssumption
<1>1. CASE Open
  BY <1>1 DEF Open, TypeOK, receiving, sending
<1>2. CASE Arrive
  BY <1>2, PacketTypes DEF Arrive, TypeOK, sending
<1>3. CASE StartReceive \/ ReceiveReturns \/ ReceiveFails \/ SendReturns
           \/ WouldBlock \/ WriteError \/ PollReturns \/ Close
  BY <1>3 DEF StartReceive, ReceiveReturns, ReceiveFails, SendReturns, WouldBlock,
              WriteError, PollReturns, Close, TypeOK, receiving, sending
<1>4. CASE TakePacket
  <2>1. kind = "udp" => Head(incoming).from \in Addresses
    BY <1>4, HeadOfIncoming DEF TakePacket, PeerInv
  <2> QED
    BY <1>4, <2>1, HeadOfIncoming DEF TakePacket, TypeOK, sending
<1>5. CASE Parse
  BY <1>5 DEF Parse, TypeOK, AcceptPeer, HeartbeatReceived, sending
<1>6. CASE UdpSend \/ SerialSend
  BY <1>6 DEF UdpSend, SerialSend, TypeOK, receiving
<1>7. CASE Write
  <2> PICK n \in 1..(length - offset) :
        n <= Room /\ line' = line \o Bytes(n) /\ held' = held + n /\ offset' = offset + n
    BY <1>7 DEF Write
  <2>1. n \in Nat
    BY DEF TypeOK
  <2>2. line' \in Seq(TakenBytes)
    BY <2>1, TakenByWrite, ConcatProperties DEF TypeOK
  <2> QED
    BY <1>7, <2>1, <2>2 DEF Write, TypeOK, receiving
<1>8. CASE Drain
  BY <1>8 DEF Drain, TypeOK, receiving
<1>9. CASE UNCHANGED vars
  BY <1>9 DEF vars, receiving, sending, TypeOK
<1> QED
  BY <1>1, <1>2, <1>3, <1>4, <1>5, <1>6, <1>7, <1>8, <1>9
  DEF Next, Receive, Send

-----------------------------------------------------------------------------
(* The receiving side *)

(* A packet that is not skipped comes from the peer, if there is one. *)
LEMMA FromPeerMeansPeer ==
  ASSUME TypeOK, PeerInv, NEW a \in Addresses, FromPeer(a), peer # NoAddress
  PROVE  a = peer
  BY DEF FromPeer, TypeOK, Addresses

LEMMA TakenPacket ==
  ASSUME TypeOK, PeerInv, TakePacket, pc' = "parse"
  PROVE  /\ delivered' = <<Head(incoming)>>
         /\ kind = "udp" =>
              delivered'[1].from \in Addresses /\ last_sender' = delivered'[1].from
         /\ peer # NoAddress => delivered'[1].from = peer
         /\ delivered'[1].holds = "heartbeat" => delivered'[1].from \in greeted'
<1>1. /\ delivered' = <<Head(incoming)>> /\ FromPeer(Head(incoming).from)
      /\ pc = "receive" /\ incoming # <<>>
  BY DEF TakePacket
<1>2. delivered'[1] = Head(incoming)
  BY <1>1
<1>3. kind = "udp" => Head(incoming).from \in Addresses
  BY <1>1, HeadOfIncoming DEF PeerInv
<1>4. peer # NoAddress => kind = "udp"
  BY <1>1 DEF PeerInv
<1>5. peer # NoAddress => Head(incoming).from = peer
  BY <1>1, <1>3, <1>4, FromPeerMeansPeer
<1> QED
  BY <1>1, <1>2, <1>3, <1>5 DEF TakePacket

LEMMA PeerNext ==
  TypeOK /\ PeerInv /\ CommandsGoToVehicle /\ [Next]_vars
    => (PeerInv /\ CommandsGoToVehicle)'
<1> SUFFICES ASSUME TypeOK, PeerInv, CommandsGoToVehicle, [Next]_vars
             PROVE  (PeerInv /\ CommandsGoToVehicle)'
  OBVIOUS
<1> USE DEF PeerInv, CommandsGoToVehicle, HeartbeatReceived
<1>1. CASE Open
  BY <1>1 DEF Open, receiving, sending
<1>2. CASE Arrive
  <2> PICK p \in Packets : incoming' = Append(incoming, p)
    BY <1>2 DEF Arrive
  <2>1. kind' = "udp" => \A i \in DOMAIN incoming' : incoming'[i].from \in Addresses
    BY <1>2, PacketTypes DEF Arrive, TypeOK
  <2> QED
    BY <1>2, <2>1 DEF Arrive, sending
<1>3. CASE StartReceive \/ ReceiveReturns \/ ReceiveFails \/ SendReturns
           \/ WouldBlock \/ WriteError \/ PollReturns \/ SerialSend \/ Write \/ Drain
  BY <1>3 DEF StartReceive, ReceiveReturns, ReceiveFails, SendReturns, WouldBlock,
              WriteError, PollReturns, SerialSend, Write, Drain, receiving, sending
<1>4. CASE TakePacket
  <2>1. kind' = "udp" => \A i \in DOMAIN incoming' : incoming'[i].from \in Addresses
    BY <1>4, HeadOfIncoming DEF TakePacket
  <2>2. CASE pc' = "parse"
    BY <1>4, <2>1, <2>2, TakenPacket DEF TakePacket, sending
  <2>3. CASE pc' # "parse"
    BY <1>4, <2>1, <2>3 DEF TakePacket, sending
  <2> QED
    BY <2>2, <2>3
<1>5. CASE Parse
  <2>1. ASSUME kind = "udp", px4_found'
        PROVE  peer' # NoAddress /\ peer' \in greeted'
    <3>1. CASE px4_found
      BY <1>5, <2>1, <3>1 DEF Parse
    <3>2. CASE ~px4_found
      <4>1. HeartbeatReceived /\ peer' = last_sender /\ greeted' = greeted /\ pc = "parse"
        BY <1>5, <2>1, <3>2 DEF Parse, AcceptPeer
      <4>2. last_sender = delivered[1].from /\ delivered[1].from \in Addresses
        BY <2>1, <4>1
      <4> QED
        BY <2>1, <4>1, <4>2, TransportAssumption
    <3> QED
      BY <3>1, <3>2
  <2>2. kind # "udp" => peer' = NoAddress
    BY <1>5 DEF Parse, AcceptPeer
  <2>3. ~px4_found' => peer' = NoAddress /\ sent_to' = NoAddress
    BY <1>5 DEF Parse, sending
  <2>4. sent_to' # NoAddress => sent_to' = peer'
    BY <1>5 DEF Parse, sending
  <2>5. pc' # "parse" /\ pc' # "start" /\ delivered' = <<>>
    BY <1>5 DEF Parse
  <2>6. UNCHANGED <<kind, incoming>>
    BY <1>5 DEF Parse
  <2> QED
    BY <2>1, <2>2, <2>3, <2>4, <2>5, <2>6
<1>6. CASE UdpSend
  BY <1>6 DEF UdpSend, receiving
<1>7. CASE Close
  BY <1>7 DEF Close, receiving, sending
<1>8. CASE UNCHANGED vars
  BY <1>8 DEF vars, receiving, sending
<1> QED
  BY <1>1, <1>2, <1>3, <1>4, <1>5, <1>6, <1>7, <1>8 DEF Next, Receive, Send

-----------------------------------------------------------------------------
(* The sending side *)

(* What the line carries after a write of n bytes *)
LEMMA LineAfterWrite ==
  ASSUME TypeOK, NEW n \in Nat, n > 0, line' = line \o Bytes(n)
  PROVE  /\ Len(line') = Len(line) + n
         /\ \A i \in 1..Len(line) : line'[i] = line[i]
         /\ \A i \in (Len(line) + 1)..(Len(line) + n) :
              /\ line'[i].byte = offset + i - Len(line)
              /\ line'[i].of = length
              /\ line'[i].frame = IF offset = 0 THEN FrameCount + 1 ELSE FrameCount
<1>1. Bytes(n) \in Seq(TakenBytes) /\ Len(Bytes(n)) = n
  BY TakenByWrite
<1>2. line \in Seq(TakenBytes)
  BY DEF TypeOK
<1>3. /\ Len(line') = Len(line) + n
      /\ \A i \in 1..(Len(line) + n) :
           line'[i] = IF i <= Len(line) THEN line[i] ELSE Bytes(n)[i - Len(line)]
  BY <1>1, <1>2, ConcatProperties
<1>4. ASSUME NEW i \in (Len(line) + 1)..(Len(line) + n)
      PROVE  i - Len(line) \in 1..n /\ line'[i] = Bytes(n)[i - Len(line)]
  BY <1>2, <1>3
<1>5. Len(line) \in Nat /\ offset \in Nat
  BY DEF TypeOK
<1>6. ASSUME NEW i \in (Len(line) + 1)..(Len(line) + n)
      PROVE  /\ line'[i].byte = offset + i - Len(line)
             /\ line'[i].of = length
             /\ line'[i].frame = IF offset = 0 THEN FrameCount + 1 ELSE FrameCount
  <2>1. /\ Bytes(n)[i - Len(line)].byte = offset + (i - Len(line))
        /\ Bytes(n)[i - Len(line)].of = length
        /\ Bytes(n)[i - Len(line)].frame =
             IF offset = 0 THEN FrameCount + 1 ELSE FrameCount
    BY <1>4, TakenByWrite
  <2>2. offset + (i - Len(line)) = offset + i - Len(line)
    BY <1>5
  <2> QED
    BY <1>4, <2>1, <2>2
<1> QED
  BY <1>2, <1>3, <1>6

LEMMA WritePreserves ==
  ASSUME TypeOK, LineInv, WholeFramesOnLine, Write
  PROVE  LineInv' /\ WholeFramesOnLine'
<1> PICK n \in 1..(length - offset) :
      line' = line \o Bytes(n) /\ offset' = offset + n
  BY DEF Write
<1>1. /\ pc = "write" /\ pc' = "write" /\ length' = length
      /\ length \in Nat /\ offset \in Nat
      /\ n \in Nat /\ n > 0 /\ offset + n <= length
      /\ line \in Seq(TakenBytes)
  BY DEF Write, TypeOK
<1>2. /\ Len(line') = Len(line) + n
      /\ \A i \in 1..Len(line) : line'[i] = line[i]
      /\ \A i \in (Len(line) + 1)..(Len(line) + n) :
           /\ line'[i].byte = offset + i - Len(line)
           /\ line'[i].of = length
           /\ line'[i].frame = IF offset = 0 THEN FrameCount + 1 ELSE FrameCount
  BY <1>1, LineAfterWrite
<1>3. LineInv'
  <2>1. Len(line) + n \in (Len(line) + 1)..(Len(line) + n)
    BY <1>1
  <2>2. LastByte'.byte = offset + n /\ LastByte'.of = length
    BY <1>1, <1>2, <2>1 DEF LastByte
  <2> QED
    BY <1>1, <1>2, <2>2 DEF LineInv
<1>4. ASSUME NEW i \in 2..Len(line')
      PROVE  \/ /\ line'[i].frame = line'[i - 1].frame
                /\ line'[i].byte = line'[i - 1].byte + 1
             \/ /\ line'[i].frame = line'[i - 1].frame + 1
                /\ line'[i].byte = 1
                /\ line'[i - 1].byte = line'[i - 1].of
  <2>1. CASE i <= Len(line)
    <3>1. i \in 2..Len(line) /\ i \in 1..Len(line) /\ i - 1 \in 1..Len(line)
      BY <1>1, <2>1
    <3> QED
      BY <1>2, <3>1 DEF WholeFramesOnLine
  <2>2. CASE i = Len(line) + 1
    <3>1. /\ i - 1 = Len(line) /\ Len(line) \in 1..Len(line) /\ line # <<>>
          /\ i \in (Len(line) + 1)..(Len(line) + n)
      BY <1>1, <1>2, <2>2
    <3>2. line'[i - 1] = LastByte /\ FrameCount = LastByte.frame
      BY <1>2, <3>1 DEF LastByte, FrameCount
    <3>3. line'[i].byte = offset + 1
      BY <1>1, <1>2, <2>2, <3>1
    <3>4. line'[i].frame = IF offset = 0 THEN FrameCount + 1 ELSE FrameCount
      BY <1>2, <3>1
    <3> QED
      BY <1>1, <3>1, <3>2, <3>3, <3>4 DEF LineInv
  <2>3. CASE i > Len(line) + 1
    <3>1. /\ i \in (Len(line) + 1)..(Len(line) + n)
          /\ i - 1 \in (Len(line) + 1)..(Len(line) + n)
      BY <1>1, <1>2, <2>3
    <3>2. /\ line'[i].byte = offset + i - Len(line)
          /\ line'[i - 1].byte = offset + (i - 1) - Len(line)
          /\ line'[i].frame = line'[i - 1].frame
      BY <1>2, <3>1
    <3> QED
      BY <1>1, <3>1, <3>2
  <2> QED
    BY <1>1, <1>2, <2>1, <2>2, <2>3
<1> QED
  BY <1>1, <1>3, <1>4 DEF WholeFramesOnLine

LEMMA LineNext ==
  TypeOK /\ LineInv /\ WholeFramesOnLine /\ [Next]_vars
    => (LineInv /\ WholeFramesOnLine)'
<1> SUFFICES ASSUME TypeOK, LineInv, WholeFramesOnLine, [Next]_vars
             PROVE  (LineInv /\ WholeFramesOnLine)'
  OBVIOUS
<1>1. CASE Write
  BY <1>1, WritePreserves
<1>2. CASE SendReturns
  BY <1>2 DEF SendReturns, Sent, TypeOK, LineInv, WholeFramesOnLine, LastByte,
              receiving, sending
<1>3. CASE SerialSend
  BY <1>3 DEF SerialSend, TypeOK, LineInv, WholeFramesOnLine, LastByte, receiving
<1>4. CASE WouldBlock \/ WriteError \/ PollReturns
  BY <1>4 DEF WouldBlock, WriteError, PollReturns, LineInv, WholeFramesOnLine,
              LastByte, receiving, sending
<1>5. CASE Open \/ Arrive \/ StartReceive \/ TakePacket \/ ReceiveReturns \/ Parse
           \/ ReceiveFails \/ UdpSend \/ Drain \/ Close
  <2>1. /\ UNCHANGED <<line, length, offset>>
        /\ pc' # pc => pc' \in {"closed", "failed"}
                        \/ {pc, pc'} \subseteq {"start", "idle", "receive", "parse"}
    BY <1>5 DEF Open, Arrive, StartReceive, TakePacket, ReceiveReturns, Parse,
                ReceiveFails, UdpSend, Drain, Close, receiving, sending
  <2>2. pc \notin {"write", "poll"} => pc' \notin {"write", "poll"}
    BY <2>1
  <2> QED
    BY <2>1, <2>2 DEF LineInv, WholeFramesOnLine, LastByte
<1>6. CASE UNCHANGED vars
  BY <1>6 DEF vars, receiving, sending, LineInv, WholeFramesOnLine, LastByte
<1> QED
  BY <1>1, <1>2, <1>3, <1>4, <1>5, <1>6 DEF Next, Receive, Send

-----------------------------------------------------------------------------
(* The results *)

(* The invariant of both transports, whatever arrives, fails or is split:   *)
(* last_sender is the sender of the datagram that is parsed, and offset    *)
(* counts the bytes of the frame that the line has (control_transport.c).  *)
THEOREM TransportInvariant == Spec => []IndInv
<1>1. Init => IndInv
  BY InitIndInv
<1>2. IndInv /\ [Next]_vars => IndInv'
  BY TypeNext, PeerNext, LineNext DEF IndInv
<1> QED
  BY <1>1, <1>2, PTL DEF Spec

(* Setpoints and commands go to one address only, which sent a heartbeat,   *)
(* whoever else sends to the port and whenever (main.c 297-352).           *)
THEOREM CommandsReachTheVehicle == Spec => []CommandsGoToVehicle
BY TransportInvariant, PTL DEF IndInv

(* However the driver splits the frames, the serial line carries them whole *)
(* and in order; only the last may be cut (control_transport.c 69-103).    *)
THEOREM SerialFramesWhole == Spec => []WholeFramesOnLine
BY TransportInvariant, PTL DEF IndInv

(* Once the vehicle is known, the controller sees no packet of another      *)
(* sender (control_transport.c 46-56).                                     *)
THEOREM StrangersIgnored == Spec => OthersIgnored
<1>1. IndInv /\ [Next]_vars
        => [peer # NoAddress /\ delivered' # <<>> => delivered'[1].from = peer]_vars
  <2> SUFFICES ASSUME IndInv, [Next]_vars, peer # NoAddress, delivered' # <<>>
               PROVE  delivered'[1].from = peer
    OBVIOUS
  <2>1. PeerInv' /\ pc' = "parse" /\ peer' # NoAddress => delivered'[1].from = peer'
    BY DEF PeerInv
  <2>2. PeerInv' /\ pc' = "parse"
    BY PeerNext DEF IndInv, PeerInv
  <2>3. peer' = peer
    BY <2>2 DEF Next, Receive, Send, Open, Arrive, StartReceive, TakePacket,
             ReceiveReturns, Parse, ReceiveFails, UdpSend, SerialSend, Write,
             SendReturns, WouldBlock, WriteError, PollReturns, Drain, Close,
             vars, receiving, sending
  <2> QED
    BY <2>1, <2>2, <2>3
<1> QED
  BY <1>1, TransportInvariant, PTL DEF Spec, OthersIgnored
===============================================================================
