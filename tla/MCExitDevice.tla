---------------------------- MODULE MCExitDevice ----------------------------
(* Instances of ExitDevice for TLC. *)
EXTENDS ExitDevice

CONSTANTS v1

\* The case in which events interfere: several swipes of one visitor.
OneVisit == [e \in Events |-> v1]
=============================================================================
