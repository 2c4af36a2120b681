--------------------------- MODULE MCMavlinkParser ---------------------------
(* A header of four bytes: magic, length, flags, sequence number. *)
EXTENDS MavlinkParser

MCFrame(payload, flags, seq, signature) ==
  <<Magic, Len(payload), flags, seq>> \o payload \o <<1>> \o signature

MCFrames(data) ==
  {MCFrame(payload, 0, seq, <<>>) :
     payload \in {<<>>} \cup {<<d>> : d \in data}, seq \in data}
  \cup {MCFrame(payload, 1, seq, <<0>>) :
     payload \in {<<>>} \cup {<<d>> : d \in data}, seq \in data}

MCAnyFrames == MCFrames({0, 2, Magic})    \* with and without magic bytes inside
==============================================================================
