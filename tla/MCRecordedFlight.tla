--------------------------- MODULE MCRecordedFlight ---------------------------
(* One frame of each kind: two local positions, one of them cut or corrupt  *)
(* in the air, a servo output that is cut, a message that is known but not *)
(* stored and two that are unknown, of which the table holds one.          *)
EXTENDS RecordedFlight

MCMinimumPayload == 32 :> 28 @@ 36 :> 0

MCFrame(msgid, crc, length, seq) ==
  [msgid |-> msgid, crc |-> crc, length |-> length, seq |-> seq]

MCFrames ==
  {MCFrame(32, TRUE, 28, 1), MCFrame(32, TRUE, 28, 2),
   MCFrame(32, FALSE, 28, 1), MCFrame(32, TRUE, 27, 1),
   MCFrame(36, TRUE, 20, 1), MCFrame(77, TRUE, 3, 1),
   MCFrame(501, TRUE, 9, 1), MCFrame(502, TRUE, 9, 1)}
=============================================================================
