------------------------------ MODULE MCChecksum ------------------------------
(* Three short frames: a LOCAL_POSITION_NED and a COMMAND_ACK, whose zeros at *)
(* the end are cut off, and a SYSTEM_TIME, which the program does not know. *)
(* Damage makes of their ids unknown ones, known ones (32 and 2 become 0, a *)
(* HEARTBEAT) and one with the same byte (77 becomes 84).  The first is     *)
(* then one that passes the check: component id and message id damaged by   *)
(* 22 and 32.  The bits that the line flips in a byte are next to each      *)
(* other, or one of the two patterns that this takes.                      *)
EXTENDS Checksum

Id(b) == <<b, {}, {}>>

MCFrames ==
  {<<{0}, {}, {}, {1}, {0}, {0}, {5}, {}, {}, {0, 1, 2}>>,
   <<{0}, {}, {}, {1}, {0}, {0}, {0, 2, 3, 6}, {}, {}, {4, 5, 7}>>,
   <<{0}, {}, {}, {1}, {0}, {0}, {1}, {}, {}, {6}>>}

MCextra ==
  [id \in {Id({}), Id({1}), Id({5}), Id({0, 2, 3, 6}), Id({2, 4, 6})} |->
     CASE id = Id({}) -> {1, 4, 5}
       [] id = Id({1}) -> {0, 3, 7}
       [] id = Id({5}) -> {0, 3, 4, 5, 7}
       [] OTHER -> {0, 1, 2, 3, 7}]

MCKnown == DOMAIN MCextra \ {Id({1})}

MCFlips == {a..b : a \in 0..7, b \in 0..7} \cup {{1, 2, 4}, {0, 3, 4}}
=============================================================================
