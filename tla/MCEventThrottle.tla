--------------------------- MODULE MCEventThrottle ---------------------------
(* TLC instance of EventThrottle. *)
EXTENDS EventThrottle

CONSTANTS a1, s1, s2, s3

MCAgents    == {a1}
MCTwo       == {s1, s2}
=============================================================================
