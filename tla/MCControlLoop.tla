----------------------------- MODULE MCControlLoop -----------------------------
(* ControlLoop on a small instance: three samples, one origin at which they *)
(* stay finite, one at which the last does not and one that is not finite.  *)
EXTENDS ControlLoop

MCTrajectory == <<0, 1, 3>>
MCOrigins == {4, 8, 11}
=============================================================================
