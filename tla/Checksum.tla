------------------------------- MODULE Checksum -------------------------------
(***************************************************************************)
(* The checksum of a MAVLink frame, mavlink_decode.c: what the loader of   *)
(* recordings (tlog.c 193-206) and the drain of the control loop           *)
(* (px4_messages.c 45-52) find when the frame was damaged on the line.     *)
(* The sender computes the checksum bit by bit, as its definition says;    *)
(* the program takes a byte at a time.  Both are run side by side, one     *)
(* byte per step.  A byte that stands for the message's definition is  *)
(* added at the end: the sender takes that of the message it sends, the    *)
(* program that of the message id it received.                             *)
(*                                                                         *)
(* A byte is the set of its bits that are 1, numbered from the lowest, and *)
(* so is a 16-bit register.                                                *)
(***************************************************************************)
EXTENDS Integers, Sequences

CONSTANTS
  Frames,         \* the bytes 1 to 9 + payload length of frames, which the
                  \* checksum covers; the first is the payload length
  crc_extra,      \* the byte that stands for a message's definition, by id
  Known,          \* the ids in the program's own table
  Flips           \* the ways in which the line may flip the bits of a byte

Byte == SUBSET (0..7)
Word == SUBSET (0..15)

frame_msgid(f) == <<f[7], f[8], f[9]>>

ASSUME ChecksumAssumption ==
  /\ Frames \subseteq {f \in Seq(Byte) : Len(f) >= 9}
  /\ \A f \in Frames : frame_msgid(f) \in DOMAIN crc_extra
  /\ \A id \in DOMAIN crc_extra : crc_extra[id] \in Byte
  /\ Known \subseteq DOMAIN crc_extra
  /\ Flips \subseteq Byte

VARIABLES
  sent,           \* the frame that was sent
  damage,         \* the bits that the line has flipped in each of its bytes
  crc_damage,     \* and in the checksum at its end
  i,              \* the loop's index
  sent_crc,       \* history: the sender's register
  crc,            \* the program's register
  verdict         \* "none", "unknown" (message), "valid" or "invalid"

vars == <<sent, damage, crc_damage, i, sent_crc, crc, verdict>>

-----------------------------------------------------------------------------
Xor(a, b) == (a \ b) \cup (b \ a)

(* a << n in w bits, a >> -n if n is negative *)
Shift(w, a, n) == {k \in 0..(w - 1) : k - n \in a}

(* The checksum's definition, CRC-16 X.25: the register is divided by the   *)
(* polynomial 0x8408, bit by bit.                                          *)
Divide(r) == Xor(Shift(16, r, -1), IF 0 \in r THEN {3, 10, 15} ELSE {})

x25_accumulate(byte, r) ==
  Divide(Divide(Divide(Divide(Divide(Divide(Divide(Divide(Xor(r, byte)))))))))

Folded(t) == Xor(t, Shift(8, t, 4))

(* Variant: tmp is as wide as an int, and keeps the bits it should lose. *)
accumulate_wide(byte, r) ==
  LET t   == Xor(byte, r \cap 0..7)
      tmp == Xor(t, Shift(16, t, 4))
  IN  Xor(Xor(Shift(16, r, -8), Shift(16, tmp, 8)),
          Xor(Shift(16, tmp, 3), Shift(16, tmp, -4)))

crc_accumulate(byte, r) ==
  LET tmp == Folded(Xor(byte, r \cap 0..7))
  IN  Xor(Xor(Shift(16, r, -8), Shift(16, tmp, 8)),
          Xor(Shift(16, tmp, 3), Shift(16, tmp, -4)))

-----------------------------------------------------------------------------
(* The line flips bits in two neighbouring bytes at most, and not in the    *)
(* payload length, which decides where the frame ends.                     *)
Intact(f) == [k \in DOMAIN f |-> {}]

Bursts(f) ==
  {Intact(f)}
    \cup {[Intact(f) EXCEPT ![k] = b] : k \in 2..Len(f), b \in Flips}
    \cup {[Intact(f) EXCEPT ![k] = b[1], ![k + 1] = b[2]] :
            k \in 2..(Len(f) - 1), b \in Flips \X Flips}

CrcBursts == {Xor(b[1], Shift(16, b[2], 8)) : b \in Flips \X Flips}

Received == [k \in DOMAIN sent |-> Xor(sent[k], damage[k])]

Init ==
  /\ sent \in Frames
  /\ \/ damage \in Bursts(sent) /\ crc_damage = {}
     \/ damage = Intact(sent) /\ crc_damage \in CrcBursts
  /\ i = 1
  /\ sent_crc = 0..15 /\ crc = 0..15
  /\ verdict = "none"

(* The message id, as it arrived, is not in the table: mavlink_crc_extra_for *)
(* returns false and the checksum is not looked at.                        *)
Skip ==
  /\ i = 1 /\ verdict = "none"
  /\ frame_msgid(Received) \notin Known
  /\ verdict' = "unknown"
  /\ UNCHANGED <<sent, damage, crc_damage, i, sent_crc, crc>>

(* The loop of mavlink_frame_crc_calculate *)
Accumulate ==
  /\ i <= Len(sent) /\ frame_msgid(Received) \in Known
  /\ crc' = crc_accumulate(Received[i], crc)
  /\ sent_crc' = x25_accumulate(sent[i], sent_crc)
  /\ i' = i + 1
  /\ UNCHANGED <<sent, damage, crc_damage, verdict>>

(* The message's byte is accumulated, and the result compared with the      *)
(* received checksum.                                                      *)
Compare ==
  /\ i = Len(sent) + 1 /\ frame_msgid(Received) \in Known
  /\ crc' = crc_accumulate(crc_extra[frame_msgid(Received)], crc)
  /\ sent_crc' = x25_accumulate(crc_extra[frame_msgid(sent)], sent_crc)
  /\ verdict' = IF crc' = Xor(sent_crc', crc_damage) THEN "valid" ELSE "invalid"
  /\ i' = i + 1
  /\ UNCHANGED <<sent, damage, crc_damage>>

Next == Skip \/ Accumulate \/ Compare

Spec == Init /\ [][Next]_vars

-----------------------------------------------------------------------------
(* Correctness *)

Damaged == damage # Intact(sent) \/ crc_damage # {}

(* The frame arrived as a message of another definition: its id was damaged *)
(* into another known one.                                                 *)
Misread ==
  /\ frame_msgid(Received) \in Known
  /\ crc_extra[frame_msgid(Received)] # crc_extra[frame_msgid(sent)]

(* A frame of a known message that arrived as it was sent is always taken:  *)
(* the byte-wise computation agrees with the definition the sender         *)
(* follows.  A damaged one never is, if the damage is to one byte, to two  *)
(* neighbouring bytes or to the checksum, unless it made of the message id *)
(* another known one with another byte of its own (mavlink_decode.c 57-100, *)
(* tlog.c 193-206, px4_messages.c 45-52).  That byte is then part of the   *)
(* damage, and can undo what the id did to the checksum: such frames exist. *)
(* Damage to the last payload byte and the checksum at once is not covered  *)
(* either: the message's byte comes between them.                          *)
CorruptionDetected ==
  /\ verdict = "valid" => ~Damaged \/ Misread
  /\ verdict \in {"invalid", "unknown"} =>
       Damaged \/ frame_msgid(sent) \notin Known
=============================================================================
