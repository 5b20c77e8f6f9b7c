---------------------------- MODULE MCVisitSync ----------------------------
(* Instances of VisitSync for TLC. *)
EXTENDS VisitSync, TLC

CONSTANTS v1, v2, u1, r1, r2

\* All visits belong to one visitor, the case in which handlers interfere.
OneVisitor == [v \in Visits |-> u1]

\* All servers are of one kind and have one id for a visitor.
SameId == [cu \in Conns \X Visitors |-> "uuid"]

RequestSymmetry == Permutations(Requests)
=============================================================================
