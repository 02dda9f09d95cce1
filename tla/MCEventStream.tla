---------------------------- MODULE MCEventStream ----------------------------
(* Model values of EventStream for TLC.                                    *)
EXTENDS EventStream

CONSTANT v1

=============================================================================
