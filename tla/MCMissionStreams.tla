-------------------------- MODULE MCMissionStreams --------------------------
(* TLC instance of MissionStreams: two missions that share four streams. *)
EXTENDS MissionStreams

CONSTANTS m1, m2, s1, s2, s3, s4

MCMissions == {m1, m2}
MCPatient  == {m1}
MCNone     == {}
MCStreams  == {s1, s2, s3, s4}
=============================================================================
