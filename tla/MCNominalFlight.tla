---------------------------- MODULE MCNominalFlight ----------------------------
(* NominalFlight with an answer slow enough that commands are repeated. *)
EXTENDS NominalFlight

MCTrajectory == <<0, 1>>
MCOrigins == {4}
=============================================================================
