---------------------------- MODULE MCReplaySession ----------------------------
(* ReplaySession with a coarse clock: the timeouts still fire in some turns   *)
(* and not in others, which is all the order of messages depends on.       *)
EXTENDS ReplaySession

MCTrajectory == <<0, 1>>
MCOrigins == {4}
=============================================================================
