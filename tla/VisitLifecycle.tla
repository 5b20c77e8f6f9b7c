--------------------------- MODULE VisitLifecycle ---------------------------
(***************************************************************************)
(* What the backend promises of a visit: it moves along one diagram, from  *)
(* the booking over the admission to the departure, which the visitor may  *)
(* dispute and an operator may undo.  A visit is disturbed once two        *)
(* handlers worked on its visitor at a time; then a stale copy may put it  *)
(* anywhere but back to the booking.  VisitSync implements this module.    *)
(***************************************************************************)
CONSTANT Visits

VARIABLES stage, disturbed

Stages == {"none", "booked", "registered", "missed", "inside", "left", "disputed"}

\* The diagram: VisitStatus and the transitions that visitors.service.ts offers.
Diagram ==
    {<<"none", "booked">>, <<"booked", "registered">>}
        \cup ({"booked", "registered"} \X {"missed"})
        \cup ({"booked", "registered", "missed"} \X {"inside", "left"})
        \cup {<<"inside", "left">>, <<"left", "inside">>, <<"left", "disputed">>}
        \cup ({"disputed"} \X {"left", "inside"})

Init == /\ stage = [v \in Visits |-> "none"]
        /\ disturbed = {}

\* A visit takes one step of the diagram.
Advance(v) ==
    /\ \E s \in Stages : /\ <<stage[v], s>> \in Diagram
                         /\ stage' = [stage EXCEPT ![v] = s]
    /\ UNCHANGED disturbed

\* A disturbed visit leaves the diagram; its registration does not come back.
Derail(v) ==
    /\ v \in disturbed
    /\ stage[v] # "none"
    /\ \E s \in Stages \ {"none", "booked"} : stage' = [stage EXCEPT ![v] = s]
    /\ UNCHANGED disturbed

Disturb ==
    /\ \E S \in SUBSET Visits : disturbed' = disturbed \cup S
    /\ UNCHANGED stage

Next == Disturb \/ \E v \in Visits : Advance(v) \/ Derail(v)

Spec == Init /\ [][Next]_<<stage, disturbed>>
=============================================================================
