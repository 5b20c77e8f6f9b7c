--------------------------- MODULE CircuitBreaker ---------------------------
(***************************************************************************)
(* The circuit breaker the Suprema gateway keeps per tenant, shared by all *)
(* requests of that tenant (circuit-breaker.service.ts).  execute() is two *)
(* steps: what it does before it awaits the call, and what it does with    *)
(* the call's outcome.  Between them any other request may run.            *)
(***************************************************************************)
EXTENDS Naturals, FiniteSets

CONSTANTS
    Callers,          \* requests that may be inside execute() at once
    FailureThreshold, \* options.failureThreshold
    FailureWindow,    \* options.failureWindow, in units of time
    ResetTimeout      \* options.resetTimeout, in units of time

ASSUME OptionsAssumption == /\ FailureThreshold \in Nat \ {0}
                            /\ FailureWindow \in Nat
                            /\ ResetTimeout \in Nat

VARIABLES
    state,        \* CLOSED, OPEN or HALF_OPEN
    failureCount, \* counted up to FailureThreshold: beyond, nothing depends on it
    failureAge,   \* Date.now() - lastFailureTime, up to FailureWindow + 1
    stateAge,     \* Date.now() - lastStateChangeTime, up to ResetTimeout
    pending,      \* callers whose call was let through and has not come to its end
    streak        \* ghost: failures since the last success, up to FailureThreshold

vars == <<state, failureCount, failureAge, stateAge, pending, streak>>

States == {"CLOSED", "OPEN", "HALF_OPEN"}
Pending(p) == p \in pending

\* One more, up to a bound.
UpTo(n, bound) == IF n < bound THEN n + 1 ELSE n

transitionTo(s) == /\ state' = s
                   /\ stateAge' = IF state = s THEN stateAge ELSE 0

\* A call is let through in CLOSED and HALF_OPEN, and in OPEN when the reset
\* timeout is over (then the circuit becomes HALF_OPEN); else it is rejected.
Begin(p) ==
    /\ ~Pending(p)
    /\ IF state = "OPEN" THEN stateAge >= ResetTimeout /\ transitionTo("HALF_OPEN")
                         ELSE UNCHANGED <<state, stateAge>>
    /\ pending' = pending \cup {p}
    /\ UNCHANGED <<failureCount, failureAge, streak>>

\* Mutant: the failure counter is not reset by a success.
SuccessKeepingCount(p) ==
    /\ Pending(p)
    /\ pending' = pending \ {p}
    /\ streak' = 0
    /\ transitionTo("CLOSED")
    /\ UNCHANGED <<failureCount, failureAge>>

\* Mutant: a success outside HALF_OPEN does not touch the state, and one in
\* HALF_OPEN only resets the counter.
SuccessNotClosing(p) ==
    /\ Pending(p)
    /\ pending' = pending \ {p}
    /\ failureCount' = 0
    /\ streak' = 0
    /\ UNCHANGED <<state, stateAge, failureAge>>

onSuccess(p) ==
    /\ Pending(p)
    /\ pending' = pending \ {p}
    /\ failureCount' = 0
    /\ streak' = 0
    /\ transitionTo("CLOSED")
    /\ UNCHANGED failureAge

\* Mutant: the threshold is compared before the failure is counted.
FailureComparedLate(p) ==
    LET count == IF failureAge > FailureWindow THEN 0 ELSE failureCount IN
    /\ Pending(p)
    /\ pending' = pending \ {p}
    /\ failureCount' = UpTo(count, FailureThreshold)
    /\ failureAge' = 0
    /\ streak' = UpTo(streak, FailureThreshold)
    /\ IF count >= FailureThreshold THEN transitionTo("OPEN") ELSE UNCHANGED <<state, stateAge>>

\* Mutant for TypeOK: a failure is counted where it is thrown and in the catch.
FailureCountedTwice(p) ==
    /\ Pending(p)
    /\ pending' = pending \ {p}
    /\ failureCount' = (IF failureAge > FailureWindow THEN 0 ELSE failureCount) + 2
    /\ failureAge' = 0
    /\ streak' = UpTo(streak, FailureThreshold)
    /\ IF failureCount' >= FailureThreshold THEN transitionTo("OPEN")
                                            ELSE UNCHANGED <<state, stateAge>>

\* A failure more than a window after the previous one starts a new count.
onFailure(p) ==
    /\ Pending(p)
    /\ pending' = pending \ {p}
    /\ failureCount' = UpTo(IF failureAge > FailureWindow THEN 0 ELSE failureCount,
                            FailureThreshold)
    /\ failureAge' = 0
    /\ streak' = UpTo(streak, FailureThreshold)
    /\ IF failureCount' >= FailureThreshold THEN transitionTo("OPEN")
                                            ELSE UNCHANGED <<state, stateAge>>

Tick == /\ failureAge' = UpTo(failureAge, FailureWindow + 1)
        /\ stateAge' = UpTo(stateAge, ResetTimeout)
        /\ UNCHANGED <<state, failureCount, pending, streak>>

\* lastFailureTime is 0, the epoch.
Init == /\ state = "CLOSED"
        /\ failureCount = 0
        /\ failureAge = FailureWindow + 1
        /\ stateAge = 0
        /\ pending = {}
        /\ streak = 0

Next == Tick \/ \E p \in Callers : Begin(p) \/ onSuccess(p) \/ onFailure(p)

Spec == Init /\ [][Next]_vars

\* Time passes, a call ends, and the application goes on making calls.
Fairness == /\ WF_vars(Tick)
            /\ \A p \in Callers : WF_vars(Begin(p)) /\ WF_vars(onSuccess(p) \/ onFailure(p))
FairSpec == Spec /\ Fairness

----------------------------------------------------------------------------
(* Properties *)

\* Every variable has its type.
TypeOK == /\ state \in States
          /\ failureCount \in 0..FailureThreshold
          /\ failureAge \in 0..(FailureWindow + 1)
          /\ stateAge \in 0..ResetTimeout
          /\ pending \subseteq Callers
          /\ streak \in 0..FailureThreshold

\* A closed circuit has not reached the threshold, however the outcomes of
\* concurrent calls interleave: failures never pile up unnoticed.
ClosedBelowThreshold == state = "CLOSED" => failureCount < FailureThreshold

\* The circuit opens only after FailureThreshold failures in a row ("fallos
\* consecutivos"), with no success of any caller between them.
OpensOnConsecutiveFailures ==
    [][state # "OPEN" /\ state' = "OPEN" => streak' >= FailureThreshold]_vars

\* When BioStar has recovered for good and calls go on, the circuit closes for
\* good, whatever state the outage left it in.
Recovered == <>[][\A p \in Callers : ~onFailure(p)]_vars
RecoversFromOutage == Recovered => <>[](state = "CLOSED")
=============================================================================
