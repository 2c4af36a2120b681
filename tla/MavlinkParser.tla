---------------------------- MODULE MavlinkParser ----------------------------
(***************************************************************************)
(* The frame delimiter of mavlink_parser.c at the end of a link that loses *)
(* bytes.  One step is one call of mavlink_parser_consume, or one byte     *)
(* that is lost.                                                           *)
(*                                                                         *)
(* parser.bytes holds parser.position bytes; what an earlier frame left    *)
(* beyond them is never read, so bytes is a sequence and position is its   *)
(* length.                                                                 *)
(***************************************************************************)
EXTENDS Integers, Sequences, FiniteSets

CONSTANTS
  MaxByte,            \* 255
  Magic,              \* MAVLINK2_MAGIC
  HeaderLength,       \* 10
  ChecksumLength,     \* 2
  SignatureLength,    \* 13
  MaxFrameLength,     \* MAVLINK2_MAX_FRAME_LENGTH
  SentFrames,         \* what the vehicle sends
  MaxAstray           \* where the history variable astray stops counting

Byte == 0..MaxByte

ASSUME ParserAssumption ==
  /\ MaxByte \in Nat /\ Magic \in Byte
  /\ HeaderLength \in Nat /\ HeaderLength >= 3
  /\ ChecksumLength \in Nat \ {0}
  /\ SignatureLength \in Nat
  /\ MaxFrameLength = HeaderLength + MaxByte + ChecksumLength + SignatureLength
  /\ MaxAstray \in Nat

Signed(flags) == flags % 2 = 1

(* The length of a frame by its length byte and its flags *)
FrameLength(b) ==
  HeaderLength + b[2] + ChecksumLength
    + (IF Signed(b[3]) THEN SignatureLength ELSE 0)

ASSUME FramesAssumption ==
  \A f \in SentFrames :
    /\ f \in Seq(Byte) /\ Len(f) >= 3
    /\ f[1] = Magic
    /\ Len(f) = FrameLength(f)

VARIABLES
  state,              \* "WAIT_MAGIC" or "READ_FRAME"
  bytes,              \* the first position bytes of parser.bytes
  expected_length,
  completed,          \* completed_frame if the last call returned true, or <<>>
  (* The link: the frame under way and how much of it was sent. *)
  frame, offset,
  intact,             \* it began while the parser was waiting, nothing is lost
  astray              \* plain bytes consumed since the parser lost its step

parser == <<state, bytes, expected_length, completed>>
vars == <<parser, frame, offset, intact, astray>>

-----------------------------------------------------------------------------
(* Variant: only the position is reset. *)
ResetPositionOnly ==
  /\ UNCHANGED state
  /\ bytes' = <<>>
  /\ expected_length' = 0

(* mavlink_parser_reset *)
Reset ==
  /\ state' = "WAIT_MAGIC"
  /\ bytes' = <<>>
  /\ expected_length' = 0

(* state == WAIT_MAGIC *)
SeekMagic(byte) ==
  /\ state = "WAIT_MAGIC"
  /\ completed' = <<>>
  /\ IF byte = Magic
     THEN /\ state' = "READ_FRAME"
          /\ bytes' = <<byte>>
          /\ expected_length' = 0
     ELSE UNCHANGED <<state, bytes, expected_length>>

(* Variant: the length is known one byte late. *)
LengthLate(b) == IF Len(b) = 4 THEN FrameLength(b) ELSE expected_length

(* The value of expected_length once the bytes b are there *)
LengthKnown(b) == IF Len(b) = 3 THEN FrameLength(b) ELSE expected_length

(* Variant: the frame goes on until the byte after its last one. *)
CompletePastEnd(b, length) == length # 0 /\ Len(b) = length + 1

Complete(b, length) == length # 0 /\ Len(b) = length

(* state == READ_FRAME *)
ReadFrame(byte) ==
  LET b == Append(bytes, byte)
      length == LengthKnown(b)
  IN  /\ state = "READ_FRAME"
      /\ IF Len(bytes) >= MaxFrameLength
         THEN Reset /\ completed' = <<>>
         ELSE IF Complete(b, length)
         THEN Reset /\ completed' = b
         ELSE /\ bytes' = b
              /\ expected_length' = length
              /\ completed' = <<>>
              /\ UNCHANGED state

(* mavlink_parser_consume *)
Consume(byte) == SeekMagic(byte) \/ ReadFrame(byte)

-----------------------------------------------------------------------------
Init ==
  /\ state = "WAIT_MAGIC"
  /\ bytes = <<>>
  /\ expected_length = 0
  /\ completed = <<>>
  /\ frame \in SentFrames
  /\ offset = 0
  /\ intact = TRUE
  /\ astray = 0

NextByte == frame[offset + 1]

(* Its magic byte only starts it. *)
Plain(f) == \A i \in 2..Len(f) : f[i] # Magic

(* The next byte of the frame reaches the parser. *)
Deliver ==
  /\ offset < Len(frame)
  /\ Consume(NextByte)
  /\ offset' = offset + 1
  /\ astray' = CASE intact \/ ~Plain(frame) -> 0
                 [] ~intact /\ Plain(frame) /\ astray < MaxAstray -> astray + 1
                 [] OTHER -> astray
  /\ UNCHANGED <<frame, intact>>

(* It is lost: a serial overrun, or the rest of a datagram. *)
Lose ==
  /\ offset < Len(frame)
  /\ offset' = offset + 1
  /\ intact' = FALSE
  /\ astray' = 0
  /\ completed' = <<>>
  /\ UNCHANGED <<state, bytes, expected_length, frame>>

(* The vehicle starts its next frame. *)
SendFrame ==
  /\ offset = Len(frame)
  /\ frame' \in SentFrames
  /\ offset' = 0
  /\ intact' = (state = "WAIT_MAGIC")
  /\ astray' = IF state = "WAIT_MAGIC" \/ ~Plain(frame') THEN 0 ELSE astray
  /\ completed' = <<>>
  /\ UNCHANGED <<state, bytes, expected_length>>

Next == Deliver \/ Lose \/ SendFrame

Spec == Init /\ [][Next]_vars

-----------------------------------------------------------------------------
(* Correctness *)

(* The parser's fields are consistent: while a frame is read its bytes are   *)
(* fewer than its expected length, which the buffer can hold.  So the      *)
(* write to parser.bytes is in bounds, and the reset at a full buffer      *)
(* (mavlink_parser.c 31-34) is never taken.                                *)
TypeOK ==
  /\ bytes \in Seq(Byte)
  /\ \/ state = "WAIT_MAGIC" /\ bytes = <<>> /\ expected_length = 0
     \/ /\ state = "READ_FRAME"
        /\ Len(bytes) \in 1..(MaxFrameLength - 1)
        /\ bytes[1] = Magic
        /\ IF Len(bytes) < 3 THEN expected_length = 0
           ELSE /\ expected_length = FrameLength(bytes)
                /\ expected_length \in (Len(bytes) + 1)..MaxFrameLength
  /\ completed \in Seq(Byte)
  /\ completed # <<>> => Len(completed) = FrameLength(completed)

(* A frame that begins while the parser waits and loses nothing is          *)
(* completed by its last byte, unchanged and not before, whatever its      *)
(* payload holds: a magic byte inside a frame starts nothing               *)
(* (mavlink_parser.c 20-62).  A frame that is hit may be completed with    *)
(* the first bytes of the next, which is then not intact; how long this    *)
(* can go on is RecoveryBounded.                                           *)
IntactFrameCompleted ==
  [][Deliver /\ intact =>
       completed' = IF offset' = Len(frame) THEN frame ELSE <<>>]_vars

LongestFrame == CHOOSE n \in {Len(f) : f \in SentFrames} :
                  \A f \in SentFrames : Len(f) <= n

(* Lost bytes cost a bounded part of the stream: once magic bytes only      *)
(* start frames, the parser is back in step before it has consumed one     *)
(* longest parser frame and one longest sent frame (mavlink_parser.c       *)
(* 45-60).                                                                 *)
RecoveryBounded == astray < MaxFrameLength + LongestFrame

-----------------------------------------------------------------------------
(* What an intact frame has left in the parser so far *)
IntactInv ==
  /\ frame \in SentFrames
  /\ offset \in 0..Len(frame)
  /\ intact =>
       IF offset \in {0, Len(frame)} THEN state = "WAIT_MAGIC"
       ELSE state = "READ_FRAME" /\ bytes = SubSeq(frame, 1, offset)

(* A frame that began in the middle of a sent one ends within one buffer;   *)
(* from then on the parser waits for the magic byte of the next sent one.  *)
AstrayInv ==
  /\ astray \in Nat
  /\ intact => astray = 0
  /\ state = "READ_FRAME" => astray <= Len(bytes)
  /\ state = "WAIT_MAGIC" /\ ~intact =>
       offset >= 1 /\ astray < MaxFrameLength + offset
=============================================================================
