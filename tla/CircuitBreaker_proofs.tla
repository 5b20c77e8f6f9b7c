----------------------- MODULE CircuitBreaker_proofs -----------------------
(***************************************************************************)
(* Proofs about CircuitBreaker, for any number of callers and any options. *)
(***************************************************************************)
EXTENDS CircuitBreaker, TLAPS

\* The outcome of a call and the passing of time keep every variable's type.
LEMMA TypeStep == TypeOK /\ [Next]_vars => TypeOK'
<1> SUFFICES ASSUME TypeOK, [Next]_vars PROVE TypeOK'
  OBVIOUS
<1> USE OptionsAssumption DEF TypeOK, States, transitionTo, UpTo
<1>1. ASSUME NEW p \in Callers, Begin(p) PROVE TypeOK'
  BY <1>1 DEF Begin
<1>2. ASSUME NEW p \in Callers, onSuccess(p) PROVE TypeOK'
  BY <1>2 DEF onSuccess
<1>3. ASSUME NEW p \in Callers, onFailure(p) PROVE TypeOK'
  BY <1>3 DEF onFailure
<1>4. CASE Tick
  BY <1>4 DEF Tick
<1>5. CASE UNCHANGED vars
  BY <1>5 DEF vars
<1>. QED  BY <1>1, <1>2, <1>3, <1>4, <1>5 DEF Next

\* Every variable keeps its type, in all interleavings of the calls.
THEOREM TypeCorrect == Spec => []TypeOK
<1>1. Init => TypeOK
  BY OptionsAssumption DEF Init, TypeOK, States
<1>. QED  BY <1>1, TypeStep, PTL DEF Spec

\* ClosedBelowThreshold needs only the types; that the circuit opens on
\* consecutive failures needs that the counter, which a window may reset but
\* nothing else raises, never exceeds the failures since the last success.
IInv == /\ TypeOK
        /\ ClosedBelowThreshold
        /\ failureCount <= streak

LEMMA InvariantStep == IInv /\ [Next]_vars => IInv'
<1> SUFFICES ASSUME IInv, [Next]_vars PROVE (ClosedBelowThreshold /\ failureCount <= streak)'
  BY TypeStep DEF IInv
<1> USE OptionsAssumption DEF IInv, TypeOK, States, ClosedBelowThreshold
<1>1. ASSUME NEW p \in Callers, Begin(p) PROVE (ClosedBelowThreshold /\ failureCount <= streak)'
  BY <1>1 DEF Begin, transitionTo
<1>2. ASSUME NEW p \in Callers, onSuccess(p) PROVE (ClosedBelowThreshold /\ failureCount <= streak)'
  BY <1>2 DEF onSuccess
<1>3. ASSUME NEW p \in Callers, onFailure(p) PROVE (ClosedBelowThreshold /\ failureCount <= streak)'
  <2>1. failureCount' <= streak'
    BY <1>3 DEF onFailure, UpTo
  <2>2. CASE failureCount' >= FailureThreshold
    BY <1>3, <2>1, <2>2 DEF onFailure, transitionTo
  <2>3. CASE ~(failureCount' >= FailureThreshold)
    BY <1>3, <2>1, <2>3 DEF onFailure, UpTo
  <2>. QED  BY <2>2, <2>3
<1>4. CASE Tick
  BY <1>4 DEF Tick
<1>5. CASE UNCHANGED vars
  BY <1>5 DEF vars
<1>. QED  BY <1>1, <1>2, <1>3, <1>4, <1>5 DEF Next

LEMMA Invariant == Spec => []IInv
<1>1. Init => IInv
  BY OptionsAssumption DEF Init, IInv, TypeOK, States, ClosedBelowThreshold
<1>. QED  BY <1>1, InvariantStep, PTL DEF Spec

\* No interleaving of the outcomes leaves a closed circuit at its threshold.
THEOREM ClosedIsBelowThreshold == Spec => []ClosedBelowThreshold
<1>. QED  BY Invariant, PTL DEF IInv

\* The circuit opens only after FailureThreshold failures since the last success.
THEOREM OpeningIsJustified == Spec => OpensOnConsecutiveFailures
<1>1. IInv /\ IInv' /\ [Next]_vars =>
        [state # "OPEN" /\ state' = "OPEN" => streak' >= FailureThreshold]_vars
  <2> SUFFICES ASSUME IInv, IInv', [Next]_vars, state # "OPEN", state' = "OPEN"
               PROVE  streak' >= FailureThreshold
    OBVIOUS
  <2> USE OptionsAssumption DEF IInv, TypeOK, States
  <2>1. PICK p \in Callers : onFailure(p)
    BY DEF Next, Tick, Begin, onSuccess, transitionTo, vars
  <2>2. failureCount' >= FailureThreshold
    BY <2>1 DEF onFailure
  <2>. QED  BY <2>2
<1>. QED  BY <1>1, Invariant, PTL DEF Spec, OpensOnConsecutiveFailures
=============================================================================
