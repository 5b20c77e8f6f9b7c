------------------------------ MODULE Gateway ------------------------------
(***************************************************************************)
(* suprema-gateway.service.ts and its two clients, for one tenant: calls   *)
(* that go through the tenant's circuit breaker (CircuitBreaker) and share *)
(* one BioStar session kept in Redis.  A call is an operation on a user, a *)
(* door or events (executeWithRetry), the check of a face image or a       *)
(* capture with a device.  A health check goes past the breaker, but takes *)
(* and renews the session like a call.                                     *)
(***************************************************************************)
EXTENDS Naturals, FiniteSets

CONSTANTS
    Callers,           \* calls under way at a time
    Checkers,          \* health checks under way at a time
    FailureThreshold, FailureWindow, ResetTimeout,  \* options of the breaker
    MaxPolls           \* MAX_POLLS of pollForScanPicture

ASSUME GatewayAssumption == /\ Callers \cap Checkers = {}
                            /\ MaxPolls \in Nat \ {0}
                            /\ FailureThreshold \in Nat \ {0}
                            /\ FailureWindow \in Nat
                            /\ ResetTimeout \in Nat

Operations == {"user", "face", "capture"}
Runners == Callers \cup Checkers
Platforms == {"BIOSTAR_2", "BIOSTAR_X"}
PCs == {"none", "session", "login", "store", "request", "delete", "poll"}
Held == {"none", "ok", "ended"}   \* no session, a valid one, one BioStar dropped
NoCall == [op |-> "none", pc |-> "none", session |-> "none", tries |-> 0, polls |-> 0,
           troubled |-> FALSE]

VARIABLES
    state, failureCount, failureAge, stateAge, pending, streak,  \* the breaker
    platform,   \* biostarPlatform of the tenant, which picks the client
    cache,      \* the session in Redis
    run,        \* where each call and health check is; tries counts requests (of a
                \* capture: endpoints), polls those at the endpoint; troubled (ghost,
                \* of operations only): BioStar ended sessions while the call ran
    up          \* BioStar can be reached

breaker == <<state, failureCount, failureAge, stateAge, pending, streak>>
vars == <<breaker, platform, cache, run, up>>

Breaker == INSTANCE CircuitBreaker

At(c, pc) == run[c].pc = pc
Active(c) == ~At(c, "none")

\* What execute() does with the outcome; nobody counts that of a health check.
Succeeds(c) == /\ run' = [run EXCEPT ![c] = NoCall]
               /\ IF c \in Callers THEN Breaker!onSuccess(c) ELSE UNCHANGED breaker
Fails(c) == /\ run' = [run EXCEPT ![c] = NoCall]
            /\ IF c \in Callers THEN Breaker!onFailure(c) ELSE UNCHANGED breaker

----------------------------------------------------------------------------
(* BioStar and Redis *)

GoDown == up /\ up' = FALSE /\ UNCHANGED <<breaker, platform, cache, run>>

ComeUp == ~up /\ up' = TRUE /\ UNCHANGED <<breaker, platform, cache, run>>

Troubled == [c \in Runners |->
    IF run[c].op = "user" THEN [run[c] EXCEPT !.troubled = TRUE] ELSE run[c]]

\* BioStar ends the cached session, or all there are (it restarts).
EndSessions ==
    /\ cache' = IF cache = "ok" THEN "ended" ELSE cache
    /\ \/ run' = Troubled
       \/ run' = [c \in Runners |-> [Troubled[c] EXCEPT
                                        !.session = IF @ = "ok" THEN "ended" ELSE @]]
    /\ cache' # cache \/ \E c \in Runners : run'[c].session # run[c].session
    /\ UNCHANGED <<breaker, platform, up>>

\* Mutant for RecoversFromTrouble: the session is kept without a TTL.
NeverExpires == FALSE /\ UNCHANGED vars

\* The 25 minutes of setex are over.
CacheExpires == cache # "none" /\ cache' = "none" /\ UNCHANGED <<breaker, platform, run, up>>

----------------------------------------------------------------------------
(* A call *)

\* A call or a health check is about to store a session that BioStar has ended
\* already: the login and setex are separate awaits.
DeadLogin == \E d \in Runners : At(d, "store") /\ run[d].session = "ended"

\* Let through by the breaker; a call it rejects changes nothing.
Start(c, op) ==
    /\ ~Active(c)
    /\ Breaker!Begin(c)
    /\ run' = [run EXCEPT ![c] = [NoCall EXCEPT
                  !.op = op, !.pc = "session", !.tries = 1,
                  !.troubled = op = "user" /\ DeadLogin]]
    /\ UNCHANGED <<platform, cache, up>>

\* Whatever its request gives, 401 included, a health check only reports it: one
\* that finds a session in Redis changes nothing, another logs in.
HealthCheck(c) ==
    /\ ~Active(c) /\ cache = "none"
    /\ run' = [run EXCEPT ![c] = [NoCall EXCEPT !.op = "health", !.pc = "login", !.tries = 1]]
    /\ UNCHANGED <<breaker, platform, cache, up>>

\* getSessionId: the session in Redis, or a new one.
GetSession(c) ==
    /\ At(c, "session")
    /\ run' = [run EXCEPT ![c].pc = IF cache = "none" THEN "login" ELSE "request",
                          ![c].session = cache]
    /\ UNCHANGED <<breaker, platform, cache, up>>

\* BioStar X tries one path of login after another, to the same end.
Login(c) ==
    /\ At(c, "login") /\ up
    /\ run' = [run EXCEPT ![c].pc = "store", ![c].session = "ok"]
    /\ UNCHANGED <<breaker, platform, cache, up>>

\* The error thrown is a new one, without the response: it is not retried.
LoginFails(c) ==
    /\ At(c, "login") /\ ~up
    /\ Fails(c)
    /\ UNCHANGED <<platform, cache, up>>

Store(c) ==
    /\ At(c, "store")
    /\ cache' = run[c].session
    /\ run' = [run EXCEPT ![c] = IF c \in Checkers THEN NoCall ELSE [@ EXCEPT !.pc = "request"]]
    /\ UNCHANGED <<breaker, platform, up>>

\* A request of the call, or one of a capture's polls, is with BioStar.
Asking(c) == At(c, "request") \/ At(c, "poll")

\* What a call does with an error that is not a 401: the check of a face turns
\* it into a result, a capture tries the second endpoint, also when it was
\* polling (the polls are awaited inside the loop's try), the others give up.
GetsError(c) ==
    CASE run[c].op = "face" -> Succeeds(c)
      [] run[c].op = "capture" /\ run[c].tries = 1 ->
            /\ run' = [run EXCEPT ![c].pc = "request", ![c].tries = 2, ![c].polls = 0]
            /\ UNCHANGED breaker
      [] OTHER -> Fails(c)

Unreachable(c) ==
    /\ Asking(c) /\ ~up
    /\ GetsError(c)
    /\ UNCHANGED <<platform, cache, up>>

\* The session is good, and BioStar does what it is asked to; a capture may be
\* accepted only (202).
Accepted(c) ==
    /\ At(c, "request") /\ up /\ run[c].session = "ok"
    /\ \/ Succeeds(c)
       \/ run[c].op = "capture" /\ run' = [run EXCEPT ![c].pc = "poll"] /\ UNCHANGED breaker
    /\ UNCHANGED <<platform, cache, up>>

\* BioStar does not do it, answers a capture without a picture, or does it and
\* its answer is lost.
ServerErrs(c) ==
    /\ Asking(c) /\ up /\ run[c].session = "ok"
    /\ GetsError(c)
    /\ UNCHANGED <<platform, cache, up>>

\* Mutant for SessionHeals: the cached session is not dropped.
RetriesUnauthorized(c) ==
    IF run[c].op = "user" /\ run[c].tries = 1
    THEN /\ run' = [run EXCEPT ![c].pc = "session", ![c].tries = 2, ![c].session = "none"]
         /\ UNCHANGED breaker
    ELSE IF run[c].op = "face" THEN Succeeds(c) ELSE Fails(c)

\* A 401: executeWithRetry drops the session and tries once more, but it never
\* sees the one the check of a face gets; a capture, polling or not, ends, and
\* drops the session with BioStar 2 only.
GetsUnauthorized(c) ==
    CASE \/ run[c].op = "user" /\ run[c].tries = 1
         \/ run[c].op = "capture" /\ platform = "BIOSTAR_2" ->
            /\ run' = [run EXCEPT ![c].pc = "delete", ![c].session = "none"]
            /\ UNCHANGED breaker
      [] run[c].op = "face" -> Succeeds(c)
      [] OTHER -> Fails(c)

Unauthorized(c) ==
    /\ Asking(c) /\ up /\ run[c].session = "ended"
    /\ GetsUnauthorized(c)
    /\ UNCHANGED <<platform, cache, up>>

DeleteSession(c) ==
    /\ At(c, "delete")
    /\ cache' = "none"
    /\ IF run[c].op = "capture" THEN Fails(c)
       ELSE run' = [run EXCEPT ![c].pc = "session", ![c].tries = 2] /\ UNCHANGED breaker
    /\ UNCHANGED <<platform, up>>

\* Mutant for TypeOK: it polls as long as nothing comes.
PollForever(c) ==
    /\ At(c, "poll")
    /\ up /\ run[c].session = "ok"
    /\ run' = [run EXCEPT ![c].polls = @ + 1]
    /\ UNCHANGED <<breaker, platform, cache, up>>

\* A poll brings the picture, or nothing yet.
Poll(c) ==
    /\ At(c, "poll") /\ up /\ run[c].session = "ok"
    /\ \/ Succeeds(c)
       \/ /\ run[c].polls + 1 < MaxPolls
          /\ run' = [run EXCEPT ![c].polls = @ + 1] /\ UNCHANGED breaker
    /\ UNCHANGED <<platform, cache, up>>

\* The last poll at this endpoint brings nothing: an error like any other.
PollTimesOut(c) ==
    /\ At(c, "poll") /\ up /\ run[c].session = "ok"
    /\ run[c].polls + 1 = MaxPolls
    /\ GetsError(c)
    /\ UNCHANGED <<platform, cache, up>>

----------------------------------------------------------------------------

Tick == Breaker!Tick /\ UNCHANGED <<platform, cache, run, up>>

Init ==
    /\ Breaker!Init
    /\ platform \in Platforms
    /\ cache = "none"
    /\ run = [c \in Runners |-> NoCall]
    /\ up = TRUE

Step(c) ==
    \/ GetSession(c) \/ Login(c) \/ LoginFails(c) \/ Store(c)
    \/ Unreachable(c) \/ Accepted(c) \/ Unauthorized(c) \/ DeleteSession(c)
    \/ Poll(c)

Next ==
    \/ GoDown \/ ComeUp \/ EndSessions \/ CacheExpires \/ Tick
    \/ \E c \in Callers, op \in Operations : Start(c, op)
    \/ \E c \in Checkers : HealthCheck(c)
    \/ \E c \in Runners : Step(c) \/ ServerErrs(c) \/ PollTimesOut(c)

Spec == Init /\ [][Next]_vars

\* Time passes, a session in Redis has its TTL, a call goes on, and the
\* application goes on making calls through the breaker.
Fairness ==
    /\ WF_vars(Tick) /\ WF_vars(CacheExpires)
    /\ \A c \in Callers : WF_vars(\/ Step(c) \/ ServerErrs(c) \/ PollTimesOut(c)
                                  \/ \E op \in Operations : Start(c, op))

FairSpec == Spec /\ Fairness

----------------------------------------------------------------------------
(* Properties *)

\* Every variable has its type; a call is tried twice at most, and a capture
\* polls fewer than MaxPolls times in vain before it goes on.
TypeOK ==
    /\ Breaker!TypeOK
    /\ platform \in Platforms
    /\ cache \in Held
    /\ run \in [Runners -> [op : Operations \cup {"health", "none"}, pc : PCs, session : Held,
                            tries : 0..2, polls : 0..(MaxPolls - 1), troubled : BOOLEAN]]
    /\ up \in BOOLEAN

\* "La sesión se renueva automáticamente": after a 401 a call comes with a
\* session BioStar accepts, whatever other calls and health checks did to the one
\* in Redis, unless BioStar ended sessions anew meanwhile, or had ended one, when
\* the call started, that somebody who had logged in was still to store.
SessionHeals ==
    \A c \in Runners :
        run[c].op = "user" /\ run[c].tries = 2 /\ run[c].session = "ended" => run[c].troubled

\* When BioStar stays up, ends no more sessions and gives no more errors, the
\* circuit closes for good: a dead session in Redis cannot hold it open, not
\* even when only captures come, which BioStar X does not let drop it.
Disturbance == EndSessions \/ \E c \in Callers : ServerErrs(c) \/ PollTimesOut(c)
RecoversFromTrouble ==
    (<>[]up /\ <>[][~Disturbance]_vars) => <>[](state = "CLOSED")

=============================================================================
