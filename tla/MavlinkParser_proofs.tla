------------------------- MODULE MavlinkParser_proofs -------------------------
(***************************************************************************)
(* For all byte values and frame lengths the parser writes inside its      *)
(* buffer, completes every intact frame, unchanged and at its last byte,   *)
(* and is back in step soon after bytes were lost.                         *)
(***************************************************************************)
EXTENDS MavlinkParser, WellFoundedInduction, TLAPS

(* Every frame the length byte and the flags can describe has more than     *)
(* three bytes and fits the buffer.                                        *)
LEMMA FrameFits ==
  ASSUME NEW b \in Seq(Byte), Len(b) >= 3
  PROVE  /\ FrameLength(b) \in Nat
         /\ FrameLength(b) > 3
         /\ FrameLength(b) <= MaxFrameLength
<1>1. b[2] \in Byte /\ b[3] \in Byte
  OBVIOUS
<1>2. b[2] \in Nat /\ b[2] <= MaxByte
  BY <1>1, ParserAssumption DEF Byte
<1> DEFINE s == IF Signed(b[3]) THEN SignatureLength ELSE 0
<1>3. s \in Nat /\ s <= SignatureLength
  BY ParserAssumption
<1>4. FrameLength(b) = HeaderLength + b[2] + ChecksumLength + s
  BY DEF FrameLength
<1> HIDE DEF s
<1> QED
  BY <1>2, <1>3, <1>4, ParserAssumption

(* The length depends on the first three bytes only. *)
LEMMA LengthOfPrefix ==
  ASSUME NEW b, NEW c, b[2] = c[2], b[3] = c[3]
  PROVE  FrameLength(b) = FrameLength(c)
BY DEF FrameLength

LEMMA AppendByte ==
  ASSUME NEW b \in Seq(Byte), NEW y \in Byte
  PROVE  /\ Append(b, y) \in Seq(Byte)
         /\ Len(Append(b, y)) = Len(b) + 1
         /\ Append(b, y)[Len(b) + 1] = y
         /\ \A i \in 1..Len(b) : Append(b, y)[i] = b[i]
OBVIOUS

(* A frame is one byte longer than a prefix once that byte is appended. *)
LEMMA NextPrefix ==
  ASSUME NEW f \in Seq(Byte), NEW n \in Nat, n < Len(f)
  PROVE  Append(SubSeq(f, 1, n), f[n + 1]) = SubSeq(f, 1, n + 1)
OBVIOUS

LEMMA FirstPrefix ==
  ASSUME NEW f \in Seq(Byte), Len(f) > 0
  PROVE  SubSeq(f, 1, 1) = <<f[1]>>
<1>1. SubSeq(f, 1, 0) = <<>>
  OBVIOUS
<1>2. Append(<<>>, f[1]) = <<f[1]>>
  OBVIOUS
<1>3. Append(SubSeq(f, 1, 0), f[0 + 1]) = SubSeq(f, 1, 0 + 1)
  BY NextPrefix
<1>4. 0 + 1 = 1
  OBVIOUS
<1> QED
  BY <1>1, <1>2, <1>3, <1>4

LEMMA WholePrefix ==
  ASSUME NEW f \in Seq(Byte)
  PROVE  SubSeq(f, 1, Len(f)) = f
OBVIOUS

-----------------------------------------------------------------------------
(* What one call of mavlink_parser_consume does *)

LEMMA SeekPreserves ==
  ASSUME TypeOK, NEW y \in Byte, SeekMagic(y)
  PROVE  TypeOK'
<1>1. CASE y = Magic
  <2>1. /\ state' = "READ_FRAME" /\ bytes' = <<y>> /\ expected_length' = 0
        /\ completed' = <<>>
    BY <1>1 DEF SeekMagic
  <2>2. MaxFrameLength \in Nat /\ MaxFrameLength - 1 >= 1
    BY ParserAssumption DEF Byte
  <2> QED
    BY <1>1, <2>1, <2>2 DEF TypeOK
<1>2. CASE y # Magic
  BY <1>2 DEF SeekMagic, TypeOK
<1> QED
  BY <1>1, <1>2

(* The buffer is not full, the byte is stored, and the frame is completed   *)
(* exactly when it has the length its header announces.                    *)
LEMMA ReadStores ==
  ASSUME TypeOK, NEW y \in Byte, ReadFrame(y)
  PROVE  LET b == Append(bytes, y) IN
         /\ b \in Seq(Byte) /\ Len(b) = Len(bytes) + 1 /\ b[1] = Magic
         /\ \/ /\ Len(b) >= 3 /\ Len(b) = FrameLength(b)
               /\ Reset /\ completed' = b
            \/ /\ Len(b) < 3 \/ Len(b) < FrameLength(b)
               /\ state' = "READ_FRAME" /\ bytes' = b /\ completed' = <<>>
               /\ expected_length' = IF Len(b) < 3 THEN 0 ELSE FrameLength(b)
<1> DEFINE b == Append(bytes, y)
<1>1. /\ state = "READ_FRAME" /\ bytes \in Seq(Byte)
      /\ Len(bytes) \in 1..(MaxFrameLength - 1) /\ bytes[1] = Magic
      /\ IF Len(bytes) < 3 THEN expected_length = 0
         ELSE /\ expected_length = FrameLength(bytes)
              /\ expected_length \in (Len(bytes) + 1)..MaxFrameLength
  BY DEF TypeOK, ReadFrame
<1>2. MaxFrameLength \in Nat
  BY ParserAssumption DEF Byte
<1>3. ~(Len(bytes) >= MaxFrameLength)
  BY <1>1, <1>2
<1>4. b \in Seq(Byte) /\ Len(b) = Len(bytes) + 1
  BY <1>1, AppendByte
<1>5. b[1] = Magic /\ (Len(bytes) >= 3 => FrameLength(b) = FrameLength(bytes))
  <2>1. \A i \in 1..Len(bytes) : b[i] = bytes[i]
    BY <1>1, AppendByte
  <2>2. Len(bytes) \in Nat /\ Len(bytes) >= 1
    BY <1>1
  <2> HIDE DEF b
  <2>3. b[1] = Magic
    BY <1>1, <2>1, <2>2
  <2>4. Len(bytes) >= 3 => b[2] = bytes[2] /\ b[3] = bytes[3]
    BY <2>1, <2>2
  <2> QED
    BY <2>3, <2>4, LengthOfPrefix
<1>6. LengthKnown(b) = IF Len(b) < 3 THEN 0 ELSE FrameLength(b)
  BY <1>1, <1>4, <1>5 DEF LengthKnown
<1>7. Len(b) >= 3 => FrameLength(b) \in Nat /\ FrameLength(b) > 3
  BY <1>4, FrameFits
<1>8. Len(bytes) >= 3 => Len(b) <= FrameLength(b)
  BY <1>1, <1>4, <1>5
<1>9. CASE Complete(b, LengthKnown(b))
  <2>1. Reset /\ completed' = b
    BY <1>3, <1>9 DEF ReadFrame
  <2>2. Len(b) >= 3 /\ Len(b) = FrameLength(b)
    BY <1>4, <1>6, <1>9 DEF Complete
  <2> QED
    BY <1>4, <1>5, <2>1, <2>2
<1>10. CASE ~Complete(b, LengthKnown(b))
  <2>1. /\ bytes' = b /\ expected_length' = LengthKnown(b)
        /\ completed' = <<>> /\ state' = "READ_FRAME"
    BY <1>1, <1>3, <1>10 DEF ReadFrame
  <2>2. Len(b) < 3 \/ Len(b) < FrameLength(b)
    BY <1>1, <1>4, <1>6, <1>7, <1>8, <1>10 DEF Complete
  <2> QED
    BY <1>4, <1>5, <1>6, <2>1, <2>2
<1> QED
  BY <1>9, <1>10

LEMMA ReadPreserves ==
  ASSUME TypeOK, NEW y \in Byte, ReadFrame(y)
  PROVE  TypeOK'
<1> DEFINE b == Append(bytes, y)
<1>1. b \in Seq(Byte) /\ Len(b) = Len(bytes) + 1 /\ b[1] = Magic
  BY ReadStores
<1>2. bytes \in Seq(Byte) /\ Len(bytes) >= 1
  BY DEF TypeOK, ReadFrame
<1>3. CASE Reset /\ completed' = b /\ Len(b) = FrameLength(b)
  BY <1>1, <1>3 DEF Reset, TypeOK
<1>4. CASE /\ Len(b) < 3 \/ Len(b) < FrameLength(b)
           /\ state' = "READ_FRAME" /\ bytes' = b /\ completed' = <<>>
           /\ expected_length' = IF Len(b) < 3 THEN 0 ELSE FrameLength(b)
  <2>1. MaxFrameLength \in Nat /\ MaxFrameLength > 3
    BY ParserAssumption DEF Byte
  <2>2. Len(b) >= 3 => /\ FrameLength(b) \in Nat
                       /\ FrameLength(b) <= MaxFrameLength
    BY <1>1, FrameFits
  <2>3. Len(b) \in 1..(MaxFrameLength - 1)
    BY <1>1, <1>2, <1>4, <2>1, <2>2
  <2>4. Len(b) >= 3 => FrameLength(b) \in (Len(b) + 1)..MaxFrameLength
    BY <1>1, <1>2, <1>4, <2>1, <2>2
  <2> HIDE DEF b
  <2> QED
    BY <1>1, <1>4, <2>3, <2>4 DEF TypeOK
<1> QED
  BY <1>3, <1>4, ReadStores

-----------------------------------------------------------------------------
(* The steps *)

LEMMA InitEstablishes == Init => TypeOK /\ IntactInv
BY FramesAssumption DEF Init, TypeOK, IntactInv

LEMMA DeliverPreserves ==
  ASSUME TypeOK, IntactInv, Deliver
  PROVE  /\ TypeOK' /\ IntactInv'
         /\ intact =>
              completed' = IF offset' = Len(frame) THEN frame ELSE <<>>
<1>1. /\ frame \in SentFrames /\ frame' = frame
      /\ offset \in 0..Len(frame) /\ offset < Len(frame)
      /\ offset' = offset + 1
      /\ intact' = intact /\ Consume(NextByte)
  BY DEF IntactInv, Deliver
<1>2. /\ frame \in Seq(Byte) /\ frame[1] = Magic
      /\ Len(frame) = FrameLength(frame) /\ Len(frame) >= 3
  BY <1>1, FramesAssumption
<1>3. NextByte \in Byte /\ Len(frame) \in Nat /\ Len(frame) > 3
  BY <1>1, <1>2, FrameFits DEF NextByte
<1>4. TypeOK'
  BY <1>1, <1>3, SeekPreserves, ReadPreserves DEF Consume
<1>5. ASSUME ~intact
      PROVE  IntactInv'
  BY <1>1, <1>3, <1>5 DEF IntactInv
<1>6. ASSUME intact
      PROVE  /\ IntactInv'
             /\ completed' = IF offset' = Len(frame) THEN frame ELSE <<>>
  <2>1. CASE offset = 0
    <3>1. state = "WAIT_MAGIC" /\ NextByte = Magic
      BY <1>2, <1>6, <2>1 DEF IntactInv, NextByte
    <3>2. SeekMagic(NextByte)
      BY <1>1, <3>1 DEF Consume, ReadFrame
    <3>3. state' = "READ_FRAME" /\ bytes' = <<NextByte>> /\ completed' = <<>>
      BY <3>1, <3>2 DEF SeekMagic
    <3>4. SubSeq(frame, 1, 1) = <<frame[1]>>
      BY <1>2, <1>3, FirstPrefix
    <3> QED
      BY <1>1, <1>2, <1>3, <2>1, <3>1, <3>3, <3>4 DEF IntactInv
  <2>2. CASE offset # 0
    <3>1. state = "READ_FRAME" /\ bytes = SubSeq(frame, 1, offset)
      BY <1>1, <1>3, <1>6, <2>2 DEF IntactInv
    <3>2. ReadFrame(NextByte)
      BY <1>1, <3>1 DEF Consume, SeekMagic
    <3> DEFINE b == Append(bytes, NextByte)
    <3>3. b = SubSeq(frame, 1, offset + 1) /\ Len(b) = offset + 1
      BY <1>1, <1>2, <1>3, <3>1, NextPrefix DEF NextByte
    <3>4. Len(b) >= 3 => FrameLength(b) = Len(frame)
      <4> SUFFICES ASSUME Len(b) >= 3
                   PROVE  FrameLength(b) = FrameLength(frame)
        BY <1>2
      <4>1. b[2] = frame[2] /\ b[3] = frame[3]
        BY <1>1, <1>2, <1>3, <3>3
      <4> QED
        BY <4>1, LengthOfPrefix
    <3>5. \/ /\ Len(b) >= 3 /\ Len(b) = FrameLength(b)
             /\ Reset /\ completed' = b
          \/ /\ Len(b) < 3 \/ Len(b) < FrameLength(b)
             /\ state' = "READ_FRAME" /\ bytes' = b /\ completed' = <<>>
      BY <1>3, <3>2, ReadStores
    <3> HIDE DEF b
    <3>6. CASE Len(b) >= 3 /\ Len(b) = FrameLength(b)
               /\ Reset /\ completed' = b
      <4>1. offset' = Len(frame) /\ b = frame
        BY <1>1, <1>2, <3>3, <3>4, <3>6, WholePrefix
      <4> QED
        BY <1>1, <1>3, <3>6, <4>1 DEF IntactInv, Reset
    <3>7. CASE /\ Len(b) < 3 \/ Len(b) < FrameLength(b)
               /\ state' = "READ_FRAME" /\ bytes' = b /\ completed' = <<>>
      <4>1. offset' # Len(frame) /\ offset' \in 1..Len(frame)
        BY <1>1, <1>3, <3>3, <3>4, <3>7
      <4> QED
        BY <1>1, <1>3, <3>3, <3>7, <4>1 DEF IntactInv
    <3> QED
      BY <3>5, <3>6, <3>7
  <2> QED
    BY <2>1, <2>2
<1> QED
  BY <1>4, <1>5, <1>6

LEMMA NextPreserves ==
  TypeOK /\ IntactInv /\ [Next]_vars => (TypeOK /\ IntactInv)'
<1> SUFFICES ASSUME TypeOK, IntactInv, [Next]_vars
             PROVE  (TypeOK /\ IntactInv)'
  OBVIOUS
<1>1. CASE Deliver
  BY <1>1, DeliverPreserves
<1>2. CASE Lose
  BY <1>2 DEF Lose, TypeOK, IntactInv
<1>3. CASE SendFrame
  <2>1. /\ frame' \in SentFrames /\ offset' = 0
        /\ intact' = (state = "WAIT_MAGIC")
        /\ completed' = <<>>
        /\ UNCHANGED <<state, bytes, expected_length>>
    BY <1>3 DEF SendFrame
  <2>2. frame' \in Seq(Byte)
    BY <2>1, FramesAssumption
  <2>3. offset' \in 0..Len(frame')
    BY <2>1, <2>2
  <2>4. TypeOK'
    BY <2>1 DEF TypeOK
  <2>5. IntactInv'
    BY <2>1, <2>3 DEF IntactInv
  <2> QED
    BY <2>4, <2>5
<1>4. CASE UNCHANGED vars
  BY <1>4 DEF vars, parser, TypeOK, IntactInv
<1> QED
  BY <1>1, <1>2, <1>3, <1>4 DEF Next

-----------------------------------------------------------------------------
(* The results *)

(* The parser's fields agree with the part of the frame sent so far,        *)
(* wherever bytes were lost before it (mavlink_parser.c 23-70).            *)
THEOREM ParserInvariant == Spec => [](TypeOK /\ IntactInv)
<1>1. Init => TypeOK /\ IntactInv
  BY InitEstablishes
<1>2. TypeOK /\ IntactInv /\ [Next]_vars => (TypeOK /\ IntactInv)'
  BY NextPreserves
<1> QED
  BY <1>1, <1>2, PTL DEF Spec

(* The parser never writes outside parser.bytes, and the frame it completes *)
(* has the length its header announces.                                    *)
THEOREM ParserInBounds == Spec => []TypeOK
BY ParserInvariant, PTL

(* Every frame that arrives whole is completed by its last byte, unchanged, *)
(* and nothing is completed inside it, whatever bytes it holds.            *)
THEOREM IntactFramesCompleted == Spec => IntactFrameCompleted
<1>1. TypeOK /\ IntactInv /\ [Next]_vars
        => [Deliver /\ intact =>
              completed' = IF offset' = Len(frame) THEN frame ELSE <<>>]_vars
  BY DeliverPreserves
<1> QED
  BY <1>1, ParserInvariant, PTL DEF Spec, IntactFrameCompleted

-----------------------------------------------------------------------------
(* The way back into step *)

(* The lengths of the sent frames are bounded by the buffer, so one of them *)
(* is the longest.                                                         *)
LEMMA LongestBounds ==
  ASSUME NEW f \in SentFrames
  PROVE  LongestFrame \in Nat /\ Len(f) <= LongestFrame
<1> DEFINE Lengths == {Len(g) : g \in SentFrames}
           Room == {MaxFrameLength - n : n \in Lengths}
<1>1. \A g \in SentFrames : /\ g \in Seq(Byte) /\ Len(g) >= 3
                            /\ Len(g) = FrameLength(g)
  BY FramesAssumption
<1>2. MaxFrameLength \in Nat
  BY ParserAssumption DEF Byte
<1>3. \A g \in SentFrames : Len(g) \in Nat /\ Len(g) <= MaxFrameLength
  BY <1>1, <1>2, FrameFits
<1>4. /\ Lengths # {} /\ Lengths \subseteq Nat
      /\ \A n \in Lengths : MaxFrameLength - n \in Nat
  <2>1. \A g \in SentFrames : MaxFrameLength - Len(g) \in Nat
    BY <1>2, <1>3
  <2> QED
    BY <1>3, <2>1
<1> HIDE DEF Lengths
<1>5. Room # {} /\ Room \subseteq Nat
      /\ \A n \in Lengths : MaxFrameLength - n \in Room
  BY <1>4
<1>6. PICK k \in Room : \A m \in Room : ~(<<m, k>> \in OpToRel(<, Nat))
  BY <1>5, WFMin, NatLessThanWellFounded, Zenon
<1>7. \A m \in Room : ~(m < k)
  BY <1>5, <1>6 DEF OpToRel
<1>8. PICK n \in Lengths : k = MaxFrameLength - n
  OBVIOUS
<1> HIDE DEF Room
<1>9. \A m \in Lengths : m <= n
  BY <1>2, <1>4, <1>5, <1>7, <1>8
<1>10. LongestFrame \in Lengths /\ \A m \in Lengths : m <= LongestFrame
  <2>1. \E m \in Lengths : \A l \in Lengths : l <= m
    BY <1>9
  <2>2. LongestFrame = CHOOSE m \in Lengths : \A l \in Lengths : l <= m
    <3>1. \A m : (\A g \in SentFrames : Len(g) <= m)
                   <=> (\A l \in Lengths : l <= m)
      BY DEF Lengths
    <3> QED
      BY <3>1 DEF LongestFrame, Lengths
  <2> QED
    BY <2>1, <2>2
<1>11. Len(f) \in Lengths
  BY DEF Lengths
<1> QED
  BY <1>4, <1>10, <1>11

LEMMA DeliverAstray ==
  ASSUME TypeOK, IntactInv, AstrayInv, Deliver
  PROVE  AstrayInv'
<1>1. /\ frame \in SentFrames /\ frame \in Seq(Byte)
      /\ offset \in 0..Len(frame) /\ offset < Len(frame)
      /\ offset' = offset + 1 /\ frame' = frame /\ intact' = intact
      /\ Consume(NextByte)
  BY FramesAssumption DEF IntactInv, Deliver
<1>2. NextByte \in Byte /\ offset \in Nat /\ Len(frame) \in Nat
      /\ MaxFrameLength \in Nat
  BY <1>1, ParserAssumption DEF NextByte, Byte
<1>3. /\ astray \in Nat /\ astray' \in Nat /\ astray' <= astray + 1
      /\ intact \/ ~Plain(frame) => astray' = 0
  BY DEF Deliver, AstrayInv
<1>4. CASE SeekMagic(NextByte)
  <2>1. CASE NextByte = Magic
    <3>1. state' = "READ_FRAME" /\ bytes' = <<NextByte>>
      BY <1>4, <2>1 DEF SeekMagic
    <3>2. astray' = 0
      <4>1. offset >= 1 => offset + 1 \in 2..Len(frame)
        BY <1>1, <1>2
      <4>2. offset >= 1 => ~Plain(frame)
        BY <2>1, <4>1 DEF Plain, NextByte
      <4> QED
        BY <1>3, <1>4, <4>2 DEF AstrayInv, SeekMagic
    <3> QED
      BY <1>1, <1>3, <3>1, <3>2 DEF AstrayInv
  <2>2. CASE NextByte # Magic
    <3>1. state' = "WAIT_MAGIC" /\ state = "WAIT_MAGIC"
      BY <1>4, <2>2 DEF SeekMagic
    <3> QED
      BY <1>1, <1>2, <1>3, <3>1 DEF AstrayInv
  <2> QED
    BY <2>1, <2>2
<1>5. CASE ReadFrame(NextByte)
  <2> DEFINE b == Append(bytes, NextByte)
  <2>1. /\ b \in Seq(Byte) /\ Len(b) = Len(bytes) + 1
        /\ \/ Len(b) >= 3 /\ Len(b) = FrameLength(b) /\ Reset
           \/ state' = "READ_FRAME" /\ bytes' = b
    BY <1>2, <1>5, ReadStores
  <2>2. astray <= Len(bytes) /\ Len(bytes) \in Nat
    BY <1>5 DEF AstrayInv, ReadFrame, TypeOK
  <2> HIDE DEF b
  <2>3. intact => astray' = 0
    BY <1>3
  <2>4. CASE Len(b) >= 3 /\ Len(b) = FrameLength(b) /\ Reset
    <3>1. Len(b) <= MaxFrameLength
      BY <2>1, <2>4, FrameFits
    <3>2. state' = "WAIT_MAGIC"
      BY <2>4 DEF Reset
    <3> QED
      BY <1>1, <1>2, <1>3, <2>1, <2>2, <2>3, <3>1, <3>2 DEF AstrayInv
  <2>5. CASE state' = "READ_FRAME" /\ bytes' = b
    BY <1>1, <1>3, <2>1, <2>2, <2>3, <2>5 DEF AstrayInv
  <2> QED
    BY <2>1, <2>4, <2>5
<1> QED
  BY <1>1, <1>4, <1>5 DEF Consume

LEMMA NextAstray ==
  ASSUME TypeOK, IntactInv, AstrayInv, [Next]_vars
  PROVE  AstrayInv'
<1>1. MaxFrameLength \in Nat
  BY ParserAssumption DEF Byte
<1>2. CASE Deliver
  BY <1>2, DeliverAstray
<1>3. CASE Lose
  <2>1. Len(bytes) \in Nat /\ offset \in Nat
    BY FramesAssumption DEF TypeOK, IntactInv
  <2> QED
    BY <1>1, <1>3, <2>1 DEF Lose, AstrayInv
<1>4. CASE SendFrame
  <2>1. UNCHANGED <<state, bytes>>
    BY <1>4 DEF SendFrame
  <2>2. astray' = 0 \/ astray' = astray
    BY <1>4 DEF SendFrame
  <2>3. Len(bytes) \in Nat
    BY DEF TypeOK
  <2>4. CASE state = "WAIT_MAGIC"
    <3>1. astray' = 0 /\ intact' = TRUE
      BY <1>4, <2>4 DEF SendFrame
    <3> QED
      BY <2>1, <2>4, <3>1 DEF AstrayInv
  <2>5. CASE state = "READ_FRAME"
    <3>1. intact' = FALSE
      BY <1>4, <2>5 DEF SendFrame
    <3> QED
      BY <2>1, <2>2, <2>3, <2>5, <3>1 DEF AstrayInv
  <2> QED
    BY <2>4, <2>5 DEF TypeOK
<1>5. CASE UNCHANGED vars
  BY <1>5 DEF vars, parser, AstrayInv
<1> QED
  BY <1>2, <1>3, <1>4, <1>5 DEF Next

(* After bytes were lost the parser is in step again before it has consumed *)
(* one longest parser frame and one longest sent frame of plain bytes, for *)
(* all lengths (mavlink_parser.c 45-60).                                   *)
THEOREM BackInStep == Spec => []RecoveryBounded
<1>1. Init => AstrayInv
  BY DEF Init, AstrayInv
<1>2. TypeOK /\ IntactInv /\ AstrayInv /\ [Next]_vars => AstrayInv'
  BY NextAstray
<1>3. TypeOK /\ IntactInv /\ AstrayInv => RecoveryBounded
  <2> SUFFICES ASSUME TypeOK, IntactInv, AstrayInv
               PROVE  astray < MaxFrameLength + LongestFrame
    BY DEF RecoveryBounded
  <2>1. LongestFrame \in Nat /\ Len(frame) <= LongestFrame
        /\ offset \in 0..Len(frame) /\ Len(frame) \in Nat
    BY LongestBounds, FramesAssumption DEF IntactInv
  <2>2. MaxFrameLength \in Nat \ {0} /\ astray \in Nat
    BY ParserAssumption DEF Byte, AstrayInv
  <2>3. CASE state = "READ_FRAME"
    BY <2>1, <2>2, <2>3 DEF AstrayInv, TypeOK
  <2>4. CASE state = "WAIT_MAGIC"
    BY <2>1, <2>2, <2>4 DEF AstrayInv
  <2> QED
    BY <2>3, <2>4 DEF TypeOK
<1> QED
  BY <1>1, <1>2, <1>3, ParserInvariant, PTL DEF Spec
===============================================================================
