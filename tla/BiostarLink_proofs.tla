------------------------ MODULE BiostarLink_proofs ------------------------
(***************************************************************************)
(* Proofs about BiostarLink: there is one listener, and its delay belongs  *)
(* to the failures it has counted, for any number of calls and executions. *)
(***************************************************************************)
EXTENDS BiostarLink, TLAPS

\* A timer runs only after a failure was counted, so that the delay of the
\* attempt before it can be computed from the counter.
TimerAfterFailure == Pending => failures >= 1

IInv == TypeOK /\ OneListener /\ BackoffFollowsFailures /\ TimerAfterFailure

(***************************************************************************)
(* The delays                                                              *)
(***************************************************************************)

LEMMA BackoffValues ==
    ASSUME NEW n \in Nat
    PROVE  /\ Backoff(n) \in {5, 10, 20, 40, 60}
           /\ n >= 4 => Backoff(n) = 60
           /\ Backoff(0) = 5
           /\ Backoff(n + 1) = Min2(2 * Backoff(n), 60)
<1> DEFINE s == <<5, 10, 20, 40, 60>>
<1>1. s[1] = 5 /\ s[2] = 10 /\ s[3] = 20 /\ s[4] = 40 /\ s[5] = 60
    OBVIOUS
<1>2. CASE n >= 4
    BY <1>1, <1>2 DEF Backoff, Min2
<1>3. CASE n = 0
    BY <1>1, <1>3 DEF Backoff, Min2
<1>4. CASE n = 1
    BY <1>1, <1>4 DEF Backoff, Min2
<1>5. CASE n = 2
    BY <1>1, <1>5 DEF Backoff, Min2
<1>6. CASE n = 3
    BY <1>1, <1>6 DEF Backoff, Min2
<1>. QED
    BY <1>2, <1>3, <1>4, <1>5, <1>6

(***************************************************************************)
(* One task of the listener moves                                          *)
(***************************************************************************)

\* What a step of execution i does to the variables the invariant is about.
Moves(i, t) == /\ i \in Slots /\ i \in Active
               /\ t \in [at : TaskPCs, session : Held]
               /\ task' = [task EXCEPT ![i] = t]

LEMMA MovesAlone ==
    ASSUME IInv, NEW i, NEW t, Moves(i, t)
    PROVE  /\ task' \in [Slots -> [at : TaskPCs, session : Held]]
           /\ Active' = IF t.at = "none" THEN {} ELSE {i}
           /\ Pending' <=> t.at = "timer"
           /\ Pending <=> task[i].at = "timer"
<1>1. task \in [Slots -> [at : TaskPCs, session : Held]]
    BY DEF IInv, TypeOK
<1>2. /\ task' \in [Slots -> [at : TaskPCs, session : Held]]
      /\ \A j \in Slots : task'[j] = IF j = i THEN t ELSE task[j]
    BY <1>1 DEF Moves
<1>3. \A j \in Slots : j # i => task[j].at = "none"
    BY DEF IInv, OneListener, Moves, Active, On
<1>. QED
    BY <1>2, <1>3 DEF Moves, Active, Pending, On

\* The invariant is kept by a step that leaves the timer, the delay and the
\* counter alone.
LEMMA QuietStep ==
    ASSUME IInv, NEW i, NEW t, Moves(i, t),
           task[i].at # "timer", t.at # "timer", t.at = "none" => lost',
           retryDelay' = retryDelay, failures' = failures, lost' \in BOOLEAN,
           cache' \in Held, call' \in [Calls -> [at : CallPCs, session : Held]],
           up' = up, configured' = configured
    PROVE  IInv'
<1>1. /\ task' \in [Slots -> [at : TaskPCs, session : Held]]
      /\ Active' = IF t.at = "none" THEN {} ELSE {i}
      /\ ~Pending /\ ~Pending'
    BY MovesAlone
<1>2. TypeOK'
    BY <1>1 DEF IInv, TypeOK
<1>3. OneListener'
    BY <1>1 DEF OneListener
<1>4. BackoffFollowsFailures' /\ TimerAfterFailure'
    BY <1>1 DEF IInv, BackoffFollowsFailures, TimerAfterFailure, Backoff
<1>. QED
    BY <1>2, <1>3, <1>4 DEF IInv

\* A failure is counted and a timer set.
LEMMA ReconnectStep ==
    ASSUME IInv, LinkAssumption, NEW i \in Active, task[i].at # "timer", Reconnect(i),
           UNCHANGED <<cache, call, up, configured>>
    PROVE  IInv'
<1> DEFINE t == [at |-> "timer", session |-> "none"]
<1>0. t \in [at : TaskPCs, session : Held]
    BY DEF TaskPCs, Held
<1>1. Moves(i, t)
    BY <1>0 DEF Moves, Reconnect, SetTask, Active
<1>2. /\ task' \in [Slots -> [at : TaskPCs, session : Held]]
      /\ Active' = {i}
      /\ ~Pending /\ Pending'
    BY <1>1, MovesAlone, t.at = "timer"
<1>3. /\ failures \in 0..MaxFailures /\ failures' \in 0..MaxFailures
      /\ failures' >= 1
      /\ failures' = failures + 1 \/ (failures' = failures /\ failures >= 5)
    BY DEF IInv, TypeOK, Reconnect, Min2, LinkAssumption
<1>4. TypeOK'
    BY <1>2, <1>3 DEF IInv, TypeOK, Reconnect
<1>5. OneListener'
    BY <1>2 DEF OneListener
<1>6. retryDelay' = Backoff(failures)
    BY <1>2 DEF IInv, BackoffFollowsFailures, Reconnect
<1>7. Backoff(failures) = Backoff(failures' - 1)
    <2>1. CASE failures' = failures + 1
        BY <2>1, <1>3, failures' - 1 = failures
    <2>2. CASE failures' = failures /\ failures >= 5
        <3>1. failures \in Nat /\ failures' - 1 \in Nat /\ failures >= 4 /\ failures' - 1 >= 4
            BY <2>2, <1>3
        <3>. QED
            BY <3>1, BackoffValues
    <2>. QED
        BY <2>1, <2>2, <1>3
<1>8. BackoffFollowsFailures' /\ TimerAfterFailure'
    BY <1>2, <1>3, <1>6, <1>7 DEF BackoffFollowsFailures, TimerAfterFailure, Backoff
<1>. QED
    BY <1>4, <1>5, <1>8 DEF IInv

(***************************************************************************)
(* The invariant                                                           *)
(***************************************************************************)

LEMMA FirstTaskIsOne ==
    ASSUME LinkAssumption
    PROVE  /\ FirstTask \in [Slots -> [at : TaskPCs, session : Held]]
           /\ \E i \in Slots : \A j \in Slots :
                FirstTask[j].at = IF j = i THEN "connect" ELSE "none"
<1> DEFINE first == CHOOSE j \in Slots : TRUE
<1>1. first \in Slots
    BY DEF LinkAssumption
<1>2. [at |-> "connect", session |-> "none"] \in [at : TaskPCs, session : Held]
    BY DEF TaskPCs, Held
<1>3. Nobody \in [at : TaskPCs, session : Held] /\ Nobody.at = "none"
    BY DEF Nobody, TaskPCs, CallPCs, Held
<1>4. \A j \in Slots : FirstTask[j] = IF j = first THEN [at |-> "connect", session |-> "none"]
                                                   ELSE Nobody
    BY DEF FirstTask
<1>. QED
    BY <1>1, <1>2, <1>3, <1>4 DEF FirstTask

LEMMA FreshListener ==
    ASSUME LinkAssumption, task = FirstTask, retryDelay = 5, failures = 0,
           cache \in Held, call \in [Calls -> [at : CallPCs, session : Held]],
           up \in BOOLEAN, configured \in BOOLEAN, lost = FALSE
    PROVE  IInv
<1>1. PICK i \in Slots : \A j \in Slots :
          FirstTask[j].at = IF j = i THEN "connect" ELSE "none"
    BY FirstTaskIsOne
<1>2. Active = {i} /\ ~Pending
    BY <1>1 DEF Active, Pending, On
<1>3. TypeOK
    <2>1. lost \in BOOLEAN
        OBVIOUS
    <2>2. failures \in 0..MaxFailures /\ retryDelay \in {5, 10, 20, 40, 60}
        BY DEF LinkAssumption
    <2>. QED
        BY <2>1, <2>2, FirstTaskIsOne DEF TypeOK
<1>. QED
    BY <1>2, <1>3, BackoffValues DEF IInv, OneListener, BackoffFollowsFailures, TimerAfterFailure

LEMMA IInvInit == Init => IInv
<1>1. ASSUME Init PROVE IInv
    <2>1. Nobody \in [at : CallPCs, session : Held]
        BY DEF Nobody, CallPCs, Held
    <2>. QED
        BY <1>1, <2>1, FreshListener, LinkAssumption DEF Init, Held
<1>. QED
    BY <1>1

(***************************************************************************)
(* The steps                                                               *)
(***************************************************************************)

\* Steps that leave the listener alone: of BioStar, Redis and the calls.
LEMMA OtherSteps ==
    ASSUME IInv, UNCHANGED listener, cache' \in Held,
           call' \in [Calls -> [at : CallPCs, session : Held]],
           up' \in BOOLEAN, configured' \in BOOLEAN
    PROVE  IInv'
<1>1. task' = task /\ retryDelay' = retryDelay /\ failures' = failures /\ lost' = lost
    BY DEF listener
<1>2. TypeOK'
    BY <1>1 DEF IInv, TypeOK
<1>3. Active' = Active /\ (Pending' <=> Pending)
    BY <1>1 DEF Active, Pending, On
<1>. QED
    BY <1>1, <1>2, <1>3 DEF IInv, OneListener, BackoffFollowsFailures, TimerAfterFailure, Backoff

LEMMA CallTypes ==
    ASSUME TypeOK, NEW c \in Calls, CallNext(c)
    PROVE  /\ UNCHANGED <<listener, up, configured>>
           /\ cache' \in Held
           /\ call' \in [Calls -> [at : CallPCs, session : Held]]
<1>1. cache \in Held /\ call \in [Calls -> [at : CallPCs, session : Held]]
    BY DEF TypeOK
<1>2. "none" \in Held /\ "ok" \in Held
    BY DEF Held
<1>3. call[c].session \in Held
    BY <1>1
<1>4. \A pc \in CallPCs : \A held \in Held :
          [call EXCEPT ![c] = [at |-> pc, session |-> held]]
              \in [Calls -> [at : CallPCs, session : Held]]
    BY <1>1
<1>5. {"none", "login", "store", "request"} \subseteq CallPCs
    BY DEF CallPCs
<1>6. EndCall(c) => call' \in [Calls -> [at : CallPCs, session : Held]]
    BY <1>2, <1>4, <1>5 DEF EndCall, Nobody
<1>7. CASE StartCall(c)
    BY <1>7, <1>1, <1>2, <1>4, <1>5 DEF StartCall, SetCall
<1>8. CASE Login(c)
    BY <1>8, <1>1, <1>2, <1>4, <1>5 DEF Login, SetCall
<1>9. CASE Store(c)
    BY <1>9, <1>1, <1>3, <1>4, <1>5, <1>6 DEF Store, SetCall
<1>10. CASE Answered(c) \/ CallFails(c)
    BY <1>10, <1>1, <1>6 DEF Answered, CallFails
<1>11. CASE Refused(c)
    BY <1>11, <1>1, <1>2, <1>6 DEF Refused
<1>. QED
    BY <1>7, <1>8, <1>9, <1>10, <1>11 DEF CallNext

\* Sessions end under the executions that hold them, which go on as before.
LEMMA EndSessionsStep ==
    ASSUME IInv, EndSessions
    PROVE  IInv'
<1>1. PICK k \in BOOLEAN, dead \in SUBSET Calls, n \in SUBSET Slots :
          /\ cache' = Ended(cache, k)
          /\ call' = [x \in Calls |-> [call[x] EXCEPT !.session = Ended(@, x \in dead)]]
          /\ task' = [i \in Slots |-> [task[i] EXCEPT !.session = Ended(@, i \in n)]]
          /\ UNCHANGED <<retryDelay, failures, lost, up, configured>>
    BY DEF EndSessions
<1>2. \A held \in Held : \A ends \in BOOLEAN : Ended(held, ends) \in Held
    BY DEF Ended, Held
<1>3. cache' \in Held
    BY <1>1, <1>2 DEF IInv, TypeOK
<1>4. ASSUME NEW x \in Calls
      PROVE  [call[x] EXCEPT !.session = Ended(@, x \in dead)] \in [at : CallPCs, session : Held]
    <2>1. call[x] \in [at : CallPCs, session : Held]
        BY DEF IInv, TypeOK
    <2>2. Ended(call[x].session, x \in dead) \in Held
        BY <1>2, <2>1, (x \in dead) \in BOOLEAN
    <2>. QED
        BY <2>1, <2>2
<1>5. call' \in [Calls -> [at : CallPCs, session : Held]]
    BY <1>1, <1>4
<1>6. ASSUME NEW i \in Slots
      PROVE  /\ task'[i] \in [at : TaskPCs, session : Held]
             /\ task'[i].at = task[i].at
    <2>1. task[i] \in [at : TaskPCs, session : Held]
        BY DEF IInv, TypeOK
    <2>2. Ended(task[i].session, i \in n) \in Held
        BY <1>2, <2>1, (i \in n) \in BOOLEAN
    <2>3. task'[i] = [task[i] EXCEPT !.session = Ended(task[i].session, i \in n)]
        BY <1>1
    <2>. QED
        BY <2>1, <2>2, <2>3
<1>7. task' \in [Slots -> [at : TaskPCs, session : Held]]
    BY <1>1, <1>6
<1>8. TypeOK'
    BY <1>1, <1>3, <1>5, <1>7 DEF IInv, TypeOK
<1>9. Active' = Active /\ (Pending' <=> Pending)
    BY <1>6 DEF Active, Pending, On
<1>. QED
    BY <1>1, <1>8, <1>9 DEF IInv, OneListener, BackoffFollowsFailures, TimerAfterFailure, Backoff

LEMMA TaskSteps ==
    ASSUME IInv, NEW i \in Slots, TaskNext(i)
    PROVE  IInv'
<1> USE LinkAssumption
<1>1. task[i] \in [at : TaskPCs, session : Held] /\ cache \in Held
    BY DEF IInv, TypeOK
<1>2. {"none", "connect", "login", "store", "opening", "open", "timer"} \subseteq TaskPCs
    BY DEF TaskPCs, CallPCs
<1>3. "none" \in Held /\ "ok" \in Held
    BY DEF Held
<1>4. /\ lost \in BOOLEAN
      /\ call \in [Calls -> [at : CallPCs, session : Held]]
    BY DEF IInv, TypeOK
<1>5. CASE Connect(i)
    <2>1. i \in Active /\ task[i].at = "connect"
        BY <1>5 DEF Connect, On, Active
    <2>2. PICK t \in [at : TaskPCs, session : Held] :
              /\ task' = [task EXCEPT ![i] = t]
              /\ t.at # "timer" /\ (t.at = "none" => lost')
              /\ lost' \in BOOLEAN
        <3>1. CASE lost' = TRUE /\ task' = [task EXCEPT ![i] = Nobody]
            BY <3>1, <1>2, <1>3, Nobody \in [at : TaskPCs, session : Held] DEF Nobody
        <3>2. CASE SetTask(i, "login", "none") /\ UNCHANGED lost
            <4> DEFINE t == [at |-> "login", session |-> "none"]
            <4>1. t \in [at : TaskPCs, session : Held]
                BY <1>1, <1>2, <1>3
            <4>2. task' = [task EXCEPT ![i] = t] /\ lost' \in BOOLEAN
                BY <3>2, <1>4 DEF SetTask
            <4>. QED
                BY <4>1, <4>2, t.at = "login"
        <3>3. CASE SetTask(i, "opening", cache) /\ UNCHANGED lost
            <4> DEFINE t == [at |-> "opening", session |-> cache]
            <4>1. t \in [at : TaskPCs, session : Held]
                BY <1>1, <1>2, <1>3
            <4>2. task' = [task EXCEPT ![i] = t] /\ lost' \in BOOLEAN
                BY <3>3, <1>4 DEF SetTask
            <4>. QED
                BY <4>1, <4>2, t.at = "opening"
        <3>. QED
            BY <1>5, <3>1, <3>2, <3>3 DEF Connect
    <2>. QED
        BY <1>1, <1>4, <1>5, <2>1, <2>2, QuietStep DEF Connect, Moves
<1>6. CASE ListenerLogin(i)
    <2>1. i \in Active /\ task[i].at = "login"
        BY <1>6 DEF ListenerLogin, On, Active
    <2>2. CASE SetTask(i, "store", "ok") /\ UNCHANGED <<retryDelay, failures, lost>>
        <3> DEFINE t == [at |-> "store", session |-> "ok"]
        <3>1. Moves(i, t) /\ t.at = "store"
            BY <2>1, <2>2, <1>2, <1>3 DEF Moves, SetTask
        <3>. QED
            BY <1>1, <1>4, <1>6, <2>1, <2>2, <3>1, QuietStep DEF ListenerLogin
    <2>3. CASE Reconnect(i)
        BY <1>6, <2>1, <2>3, ReconnectStep DEF ListenerLogin
    <2>. QED
        BY <1>6, <2>2, <2>3 DEF ListenerLogin
<1>7. CASE ListenerStore(i)
    <2> DEFINE t == [at |-> "opening", session |-> task[i].session]
    <2>1. i \in Active /\ task[i].at = "store" /\ cache' \in Held
        BY <1>1, <1>7 DEF ListenerStore, On, Active
    <2>2. Moves(i, t) /\ t.at = "opening"
        BY <1>1, <1>2, <1>7, <2>1 DEF ListenerStore, Moves, SetTask
    <2>. QED
        BY <1>4, <1>7, <2>1, <2>2, QuietStep DEF ListenerStore
<1>8. CASE HandshakeRefused(i)
    <2>1. i \in Active /\ task[i].at = "opening" /\ cache' \in Held
        BY <1>1, <1>3, <1>8 DEF HandshakeRefused, On, Active
    <2>2. Moves(i, Nobody) /\ Nobody.at = "none"
        BY <1>2, <1>3, <1>8, <2>1 DEF HandshakeRefused, Moves, Nobody
    <2>3. lost' = TRUE
        BY <1>8 DEF HandshakeRefused
    <2>. QED
        BY <1>4, <1>8, <2>1, <2>2, <2>3, QuietStep DEF HandshakeRefused
<1>9. CASE Closed(i)
    <2>1. i \in Active /\ task[i].at # "timer" /\ Reconnect(i)
        BY <1>9 DEF Closed, On, Active
    <2>. QED
        BY <1>9, <2>1, ReconnectStep DEF Closed
<1>10. CASE Opened(i)
    <2> DEFINE t == [at |-> "open", session |-> task[i].session]
    <2>1. i \in Active /\ task[i].at = "opening"
        BY <1>10 DEF Opened, On, Active
    <2>2. Moves(i, t) /\ t.at = "open"
        BY <1>1, <1>2, <1>10, <2>1 DEF Opened, Moves, SetTask
    <2>3. /\ task' \in [Slots -> [at : TaskPCs, session : Held]]
          /\ Active' = {i} /\ ~Pending'
        BY <2>2, MovesAlone
    <2>4. TypeOK'
        BY <1>10, <2>3 DEF IInv, TypeOK, Opened
    <2>5. retryDelay' = 5 /\ failures' = 0
        BY <1>10 DEF Opened
    <2>. QED
        BY <2>3, <2>4, <2>5, BackoffValues
        DEF IInv, OneListener, BackoffFollowsFailures, TimerAfterFailure, Backoff
<1>11. CASE TimerFires(i)
    <2> DEFINE t == [at |-> "connect", session |-> "none"]
    <2>1. i \in Active /\ task[i].at = "timer"
        BY <1>11 DEF TimerFires, On, Active
    <2>2. Moves(i, t) /\ t.at = "connect"
        BY <1>2, <1>3, <1>11, <2>1 DEF TimerFires, Moves, SetTask
    <2>3. /\ task' \in [Slots -> [at : TaskPCs, session : Held]]
          /\ Active' = {i} /\ ~Pending' /\ Pending
        BY <2>1, <2>2, MovesAlone
    <2>4. failures \in Nat /\ failures >= 1 /\ failures' = failures
        BY <1>11, <2>3 DEF IInv, TypeOK, TimerAfterFailure, TimerFires
    <2>5. retryDelay = Backoff(failures - 1)
        BY <2>3 DEF IInv, BackoffFollowsFailures
    <2>6. retryDelay' = Backoff(failures)
        BY <1>11, <2>4, <2>5, BackoffValues, failures - 1 \in Nat, (failures - 1) + 1 = failures
        DEF TimerFires
    <2>7. retryDelay' \in {5, 10, 20, 40, 60}
        BY <2>4, <2>6, BackoffValues
    <2>8. TypeOK'
        BY <1>11, <2>3, <2>7 DEF IInv, TypeOK, TimerFires
    <2>. QED
        BY <2>3, <2>4, <2>6, <2>8
        DEF IInv, OneListener, BackoffFollowsFailures, TimerAfterFailure, Backoff
<1>. QED
    BY <1>5, <1>6, <1>7, <1>8, <1>9, <1>10, <1>11 DEF TaskNext

LEMMA IInvNext == IInv /\ [Next]_vars => IInv'
<1>1. SUFFICES ASSUME IInv, [Next]_vars PROVE IInv'
    OBVIOUS
<1>2. /\ cache \in Held /\ call \in [Calls -> [at : CallPCs, session : Held]]
      /\ up \in BOOLEAN /\ configured \in BOOLEAN
    BY <1>1 DEF IInv, TypeOK
<1>3. CASE UNCHANGED vars
    BY <1>1, <1>2, <1>3, OtherSteps DEF vars
<1>4. CASE GoDown \/ ComeUp \/ Configure
    <2>1. UNCHANGED <<cache, call, listener>> /\ up' \in BOOLEAN /\ configured' \in BOOLEAN
        BY <1>2, <1>4 DEF GoDown, ComeUp, Configure
    <2>. QED
        BY <1>1, <1>2, <2>1, OtherSteps
<1>5. CASE CacheExpires
    BY <1>1, <1>2, <1>5, OtherSteps DEF CacheExpires, Held
<1>6. CASE EndSessions
    BY <1>1, <1>6, EndSessionsStep
<1>7. CASE Restart
    <2>1. Nobody \in [at : CallPCs, session : Held]
        BY DEF Nobody, CallPCs, Held
    <2>2. /\ FirstTask \in [Slots -> [at : TaskPCs, session : Held]]
          /\ \E i \in Slots : \A j \in Slots :
               FirstTask[j].at = IF j = i THEN "connect" ELSE "none"
        BY FirstTaskIsOne, LinkAssumption
    <2>3. PICK i \in Slots : \A j \in Slots :
              task'[j].at = IF j = i THEN "connect" ELSE "none"
        BY <1>7, <2>2 DEF Restart
    <2>4. Active' = {i} /\ ~Pending'
        BY <2>3 DEF Active, Pending, On
    <2>5. TypeOK'
        <3>1. lost' \in BOOLEAN /\ retryDelay' \in {5, 10, 20, 40, 60}
            BY <1>7 DEF Restart
        <3>2. failures' \in 0..MaxFailures
            BY <1>7, LinkAssumption DEF Restart
        <3>. QED
            BY <1>2, <1>7, <2>1, <2>2, <3>1, <3>2 DEF Restart, TypeOK
    <2>. QED
        BY <1>7, <2>4, <2>5, BackoffValues
        DEF Restart, IInv, OneListener, BackoffFollowsFailures, TimerAfterFailure, Backoff
<1>8. CASE \E c \in Calls : CallNext(c)
    BY <1>1, <1>2, <1>8, CallTypes, OtherSteps DEF IInv
<1>9. CASE \E i \in Slots : TaskNext(i)
    BY <1>1, <1>9, TaskSteps
<1>. QED
    BY <1>1, <1>3, <1>4, <1>5, <1>6, <1>7, <1>8, <1>9 DEF Next, Environment

LEMMA IInvAlways == Spec => []IInv
    BY IInvInit, IInvNext, PTL DEF Spec

\* Every variable of the link keeps its type.
THEOREM TypesOfLink == Spec => []TypeOK
<1>1. IInv => TypeOK
    BY DEF IInv
<1>. QED
    BY <1>1, IInvAlways, PTL

\* Whatever fails, closes, expires or restarts, in whatever order, the listener
\* is one execution: there are never two, and none only once it was lost.
THEOREM ListenerIsOne == Spec => []OneListener
<1>1. IInv => OneListener
    BY DEF IInv
<1>. QED
    BY <1>1, IInvAlways, PTL

\* The delay of the next attempt is the one the failures since the last open
\* socket call for.
THEOREM DelayFollowsFailures == Spec => []BackoffFollowsFailures
<1>1. IInv => BackoffFollowsFailures
    BY DEF IInv
<1>. QED
    BY <1>1, IInvAlways, PTL
=============================================================================
