------------------------------- MODULE MCReplay -------------------------------
(* Up to three samples, with time stamps in any order. *)
EXTENDS Replay

MCStamps == 0..7
MCHeights == {0, -2}
MCStart == [timestamp_us : {1}, x : {1}, z : {0, NonFinite}]
MCSample == [timestamp_us : MCStamps, x : {0, 2, NonFinite}, z : MCHeights]

MCRecordings ==
  {<<>>}
    \cup {<<a>> : a \in MCStart}
    \cup {<<a, b>> : a \in MCStart, b \in MCSample}
    \cup {<<a, b, c>> : a \in MCStart, b \in MCSample, c \in MCSample}
===============================================================================
