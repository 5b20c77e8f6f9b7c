--------------------------- MODULE Gateway_proofs ---------------------------
(***************************************************************************)
(* A call that is retried after a 401 never comes with a dead session,     *)
(* unless BioStar ended sessions meanwhile: for any number of callers and  *)
(* health checks, and whatever the breaker, of which nothing is used.  And *)
(* the gateway uses the breaker as CircuitBreaker describes it, so what is *)
(* proved there holds here.                                                *)
(***************************************************************************)
EXTENDS Gateway, TLAPS

RunType == [op : Operations \cup {"health", "none"}, pc : PCs, session : Held,
            tries : Nat, polls : Nat, troubled : BOOLEAN]
RunTypes ==
    /\ cache \in Held
    /\ run \in [Runners -> RunType]

Undisturbed(c) == run[c].op = "user" /\ ~run[c].troubled

\* While an undisturbed call runs, no other call is about to store a dead
\* session; so once it has dropped the one in Redis, no dead one comes back.
NoDeadLogin ==
    \A c \in Runners : Undisturbed(c) =>
        \A d \in Runners : At(d, "store") => run[d].session # "ended"
FreshAfterDrop ==
    \A c \in Runners : Undisturbed(c) /\ run[c].tries = 2 =>
        cache # "ended" /\ run[c].session # "ended"
\* A call that drops the session holds none; only captures poll.
CallShape ==
    \A c \in Runners : /\ At(c, "delete") => run[c].session = "none"
                       /\ At(c, "poll") => run[c].op = "capture"
HealInv == RunTypes /\ CallShape /\ NoDeadLogin /\ FreshAfterDrop

LEMMA HealInit == Init => HealInv
  BY DEF Init, HealInv, RunTypes, CallShape, NoDeadLogin, FreshAfterDrop, Undisturbed, At, NoCall,
         RunType, Operations, PCs, Held

\* The end of a call only takes it away.
LEMMA CallEnds ==
  ASSUME HealInv, NEW c \in Runners, run' = [run EXCEPT ![c] = NoCall],
         cache' \in {cache, "none"}
  PROVE  HealInv'
<1>1. /\ run' \in [Runners -> RunType]
      /\ run'[c] = NoCall
      /\ \A d \in Runners \ {c} : run'[d] = run[d]
  BY DEF HealInv, RunTypes, RunType, NoCall, PCs, Held, Operations
<1>2. NoCall.op # "user" /\ NoCall.pc # "store"
  BY DEF NoCall
<1>3. RunTypes'
  BY <1>1 DEF HealInv, RunTypes, RunType, Held
<1>4. NoDeadLogin'
  BY <1>1, <1>2 DEF HealInv, NoDeadLogin, Undisturbed, At
<1>5. FreshAfterDrop'
  BY <1>1, <1>2 DEF HealInv, FreshAfterDrop, Undisturbed
<1>6. CallShape'
  BY <1>1 DEF HealInv, CallShape, At, NoCall
<1> QED BY <1>3, <1>4, <1>5, <1>6 DEF HealInv

\* A call starts undisturbed only when nobody is about to store a dead session.
LEMMA HealStart ==
  ASSUME HealInv, NEW c \in Callers, NEW op \in Operations, Start(c, op)
  PROVE  HealInv'
<1>. c \in Runners
  BY DEF Runners
<1> DEFINE t == op = "user" /\ DeadLogin
           started == [NoCall EXCEPT !.op = op, !.pc = "session", !.tries = 1, !.troubled = t]
<1>1. /\ run' = [run EXCEPT ![c] = started]
      /\ cache' = cache
  BY DEF Start
<1>2. t \in BOOLEAN
  OBVIOUS
<1>3. /\ started.op = op /\ started.pc = "session" /\ started.tries = 1
      /\ started.troubled = t
      /\ started \in RunType
  BY <1>2 DEF NoCall, PCs, Held, RunType
<1>4. op = "user" /\ ~t => \A d \in Runners : At(d, "store") => run[d].session # "ended"
  BY DEF DeadLogin
<1> HIDE DEF started, t
<1>5. /\ run'[c] = started
      /\ \A d \in Runners \ {c} : run'[d] = run[d]
  BY <1>1 DEF HealInv, RunTypes, RunType
<1>6. RunTypes'
  BY <1>1, <1>3 DEF HealInv, RunTypes, RunType
<1>7. NoDeadLogin'
  BY <1>3, <1>4, <1>5 DEF HealInv, NoDeadLogin, Undisturbed, At
<1>8. FreshAfterDrop'
  BY <1>1, <1>3, <1>5 DEF HealInv, FreshAfterDrop, Undisturbed
<1>9. CallShape'
  BY <1>3, <1>5 DEF HealInv, CallShape, At
<1> QED BY <1>6, <1>7, <1>8, <1>9 DEF HealInv

\* A health check is no operation, and has nothing to store before it logs in.
LEMMA HealHealthCheck ==
  ASSUME HealInv, NEW c \in Checkers, HealthCheck(c)
  PROVE  HealInv'
<1> DEFINE started == [NoCall EXCEPT !.op = "health", !.pc = "login", !.tries = 1]
<1>1. c \in Runners /\ run' = [run EXCEPT ![c] = started] /\ cache' = cache
  BY DEF Runners, HealthCheck
<1>2. started.op = "health" /\ started.pc = "login" /\ started \in RunType
  BY DEF NoCall, PCs, Held, RunType
<1> HIDE DEF started
<1>3. run'[c] = started /\ \A d \in Runners \ {c} : run'[d] = run[d]
  BY <1>1 DEF HealInv, RunTypes
<1>4. RunTypes'
  BY <1>1, <1>2 DEF HealInv, RunTypes
<1> QED BY <1>1, <1>2, <1>3, <1>4 DEF HealInv, CallShape, NoDeadLogin, FreshAfterDrop,
                                    Undisturbed, At

LEMMA HealGetSession ==
  ASSUME HealInv, NEW c \in Runners, GetSession(c)
  PROVE  HealInv'
<1> DEFINE next == IF cache = "none" THEN "login" ELSE "request"
<1>1. /\ run' = [run EXCEPT ![c].pc = next, ![c].session = cache]
      /\ cache' = cache
  BY DEF GetSession
<1>2. next \in PCs /\ next \notin {"store", "delete", "poll"}
  BY DEF PCs
<1> HIDE DEF next
<1> QED BY <1>1, <1>2 DEF HealInv, RunTypes, RunType, CallShape, NoDeadLogin, FreshAfterDrop,
                          Undisturbed, At

LEMMA HealLogin ==
  ASSUME HealInv, NEW c \in Runners, Login(c)
  PROVE  HealInv'
<1>2. cache' = cache
  BY DEF Login
<1>1. /\ run' \in [Runners -> RunType]
      /\ \A d \in Runners \ {c} : run'[d] = run[d]
      /\ run'[c].op = run[c].op /\ run'[c].troubled = run[c].troubled
      /\ run'[c].pc = "store" /\ run'[c].session = "ok" /\ run'[c].tries = run[c].tries
  BY DEF HealInv, RunTypes, RunType, PCs, Held, Login
<1> QED BY <1>1, <1>2 DEF HealInv, RunTypes, RunType, CallShape, NoDeadLogin, FreshAfterDrop,
                          Undisturbed, At, Held

LEMMA HealStore ==
  ASSUME HealInv, NEW c \in Runners, Store(c)
  PROVE  HealInv'
<1>1. PICK r : r = IF c \in Checkers THEN NoCall ELSE [run[c] EXCEPT !.pc = "request"]
  OBVIOUS
<1>2. /\ run' = [run EXCEPT ![c] = r] /\ cache' = run[c].session /\ At(c, "store")
      /\ r \in RunType /\ r.pc \in {"none", "request"}
      /\ \/ r.op = "none"
         \/ /\ r.op = run[c].op /\ r.tries = run[c].tries
            /\ r.troubled = run[c].troubled /\ r.session = run[c].session
  BY <1>1 DEF HealInv, RunTypes, RunType, NoCall, PCs, Held, Operations, Store
<1>3. run'[c] = r /\ \A d \in Runners \ {c} : run'[d] = run[d]
  BY <1>2 DEF HealInv, RunTypes
<1>4. RunTypes'
  BY <1>2 DEF HealInv, RunTypes, RunType
<1>5. CallShape' /\ NoDeadLogin'
  BY <1>2, <1>3 DEF HealInv, CallShape, NoDeadLogin, Undisturbed, At
<1>6. FreshAfterDrop'
  BY <1>2, <1>3 DEF HealInv, NoDeadLogin, FreshAfterDrop, Undisturbed
<1> QED BY <1>4, <1>5, <1>6 DEF HealInv

\* An error ends the call, or takes a capture to its second endpoint.
LEMMA HealError ==
  ASSUME HealInv, NEW c \in Runners, Asking(c), GetsError(c), cache' = cache
  PROVE  HealInv'
<1>1. CASE run' = [run EXCEPT ![c] = NoCall]
  BY <1>1, CallEnds
<1>2. CASE /\ run[c].op = "capture"
           /\ run' = [run EXCEPT ![c].pc = "request", ![c].tries = 2, ![c].polls = 0]
<2> DEFINE r == [run[c] EXCEPT !.pc = "request", !.tries = 2, !.polls = 0]
<2>3. r \in RunType /\ r.op = "capture" /\ r.pc = "request"
  BY <1>2 DEF HealInv, RunTypes, RunType, PCs
<2>4. run' = [run EXCEPT ![c] = r]
  BY <1>2 DEF HealInv, RunTypes
<2> HIDE DEF r
<2>1. /\ run' \in [Runners -> RunType]
      /\ \A d \in Runners \ {c} : run'[d] = run[d]
      /\ run'[c].op = "capture" /\ run'[c].pc = "request"
  BY <2>3, <2>4 DEF HealInv, RunTypes
<2> QED BY <2>1, <1>2 DEF HealInv, RunTypes, CallShape, NoDeadLogin, FreshAfterDrop,
                          Undisturbed, At
<1> QED BY <1>1, <1>2 DEF GetsError, Succeeds, Fails

LEMMA HealAccepted ==
  ASSUME HealInv, NEW c \in Runners, Accepted(c)
  PROVE  HealInv'
<1>1. CASE run' = [run EXCEPT ![c] = NoCall] /\ cache' = cache
  BY <1>1, CallEnds
<1>2. CASE run[c].op = "capture" /\ run' = [run EXCEPT ![c].pc = "poll"] /\ cache' = cache
<2>1. /\ run' \in [Runners -> RunType]
      /\ \A d \in Runners \ {c} : run'[d] = run[d]
      /\ run'[c].op = "capture" /\ run'[c].pc = "poll"
  BY <1>2 DEF HealInv, RunTypes, RunType, PCs
<2> QED BY <2>1, <1>2 DEF HealInv, RunTypes, CallShape, NoDeadLogin, FreshAfterDrop,
                          Undisturbed, At
<1> QED BY <1>1, <1>2 DEF Accepted, Succeeds

\* After a 401 the call ends, or is about to drop the session.
LEMMA HealUnauthorized ==
  ASSUME HealInv, NEW c \in Runners, Unauthorized(c)
  PROVE  HealInv'
<1>1. CASE run' = [run EXCEPT ![c] = NoCall] /\ cache' = cache
  BY <1>1, CallEnds
<1>2. CASE /\ run' = [run EXCEPT ![c].pc = "delete", ![c].session = "none"]
           /\ cache' = cache
<2>1. /\ run' \in [Runners -> RunType]
      /\ \A d \in Runners \ {c} : run'[d] = run[d]
      /\ run'[c].op = run[c].op /\ run'[c].troubled = run[c].troubled
      /\ run'[c].pc = "delete" /\ run'[c].session = "none" /\ run'[c].tries = run[c].tries
  BY <1>2 DEF HealInv, RunTypes, RunType, PCs, Held
<2> QED BY <2>1, <1>2 DEF HealInv, RunTypes, RunType, CallShape, NoDeadLogin, FreshAfterDrop,
                          Undisturbed, At, Held
<1> QED BY <1>1, <1>2 DEF Unauthorized, GetsUnauthorized, Succeeds, Fails

\* The session is dropped, and the call comes again without one.
LEMMA HealDelete ==
  ASSUME HealInv, NEW c \in Runners, DeleteSession(c)
  PROVE  HealInv'
<1>1. CASE run' = [run EXCEPT ![c] = NoCall] /\ cache' = "none"
  BY <1>1, CallEnds
<1>2. CASE /\ run' = [run EXCEPT ![c].pc = "session", ![c].tries = 2]
           /\ cache' = "none"
<2>2. run[c].session = "none"
  BY DEF DeleteSession, HealInv, CallShape
<2>1. /\ run' \in [Runners -> RunType]
      /\ \A d \in Runners \ {c} : run'[d] = run[d]
      /\ run'[c].op = run[c].op /\ run'[c].troubled = run[c].troubled
      /\ run'[c].pc = "session" /\ run'[c].session = run[c].session /\ run'[c].tries = 2
  BY <1>2 DEF HealInv, RunTypes, RunType, PCs, Held
<2> QED BY <2>1, <1>2, <2>2 DEF HealInv, RunTypes, RunType, CallShape, NoDeadLogin, FreshAfterDrop,
                          Undisturbed, At, Held
<1> QED BY <1>1, <1>2 DEF DeleteSession, Fails

LEMMA HealPoll ==
  ASSUME HealInv, NEW c \in Runners, Poll(c)
  PROVE  HealInv'
<1>1. CASE run' = [run EXCEPT ![c] = NoCall] /\ cache' = cache
  BY <1>1, CallEnds
<1>2. CASE /\ At(c, "poll")
           /\ run' = [run EXCEPT ![c].polls = @ + 1] /\ cache' = cache
  BY <1>2 DEF HealInv, RunTypes, RunType, CallShape, NoDeadLogin, FreshAfterDrop, Undisturbed, At
<1> QED BY <1>1, <1>2 DEF Poll, Succeeds

\* BioStar ends sessions: every operation under way is disturbed.
LEMMA HealEnd ==
  ASSUME HealInv, EndSessions
  PROVE  HealInv'
<1>1. /\ Troubled \in [Runners -> RunType]
      /\ \A c \in Runners : /\ Troubled[c].op = "user" => Troubled[c].troubled
                            /\ Troubled[c].op = run[c].op
                            /\ Troubled[c].pc = run[c].pc
                            /\ Troubled[c].session = run[c].session
  BY DEF HealInv, RunTypes, RunType, Troubled
<1>2. /\ run' \in [Runners -> RunType]
      /\ \A c \in Runners : /\ run'[c].op = "user" => run'[c].troubled
                            /\ run'[c].op = run[c].op
                            /\ run'[c].pc = run[c].pc
                            /\ run[c].session = "none" => run'[c].session = "none"
  <2>1. CASE run' = Troubled
    BY <1>1, <2>1
  <2>2. CASE run' = [c \in Runners |-> [Troubled[c] EXCEPT
                                          !.session = IF @ = "ok" THEN "ended" ELSE @]]
    BY <1>1, <2>2 DEF Held, RunType
  <2> QED BY <2>1, <2>2 DEF EndSessions
<1>3. cache' \in Held
  BY DEF EndSessions, HealInv, RunTypes, Held
<1> QED BY <1>2, <1>3 DEF HealInv, RunTypes, RunType, CallShape, NoDeadLogin, FreshAfterDrop,
                          Undisturbed, At

\* The session expires in Redis.
LEMMA HealCache ==
  ASSUME HealInv, run' = run, cache' \in {cache, "none"}
  PROVE  HealInv'
  BY DEF HealInv, RunTypes, RunType, CallShape, NoDeadLogin, FreshAfterDrop, Undisturbed, At, Held

LEMMA HealStep == HealInv /\ [Next]_vars => HealInv'
<1> SUFFICES ASSUME HealInv, [Next]_vars PROVE HealInv'
  OBVIOUS
<1>1. CASE GoDown \/ ComeUp \/ CacheExpires \/ Tick \/ UNCHANGED vars
  BY <1>1, HealCache DEF GoDown, ComeUp, CacheExpires, Tick, vars
<1>2. CASE EndSessions
  BY <1>2, HealEnd
<1>3. CASE \/ \E c \in Callers, op \in Operations : Start(c, op)
           \/ \E c \in Checkers : HealthCheck(c)
  BY <1>3, HealStart, HealHealthCheck
<1>4. ASSUME NEW c \in Runners, Step(c) \/ ServerErrs(c) \/ PollTimesOut(c)
      PROVE  HealInv'
  <2>1. CASE GetSession(c) \/ Login(c) \/ Store(c)
    BY <2>1, HealGetSession, HealLogin, HealStore
  <2>2. CASE LoginFails(c)
    BY <2>2, CallEnds DEF LoginFails, Fails
  <2>3. CASE Unreachable(c) \/ ServerErrs(c) \/ PollTimesOut(c)
    BY <2>3, HealError DEF Unreachable, ServerErrs, PollTimesOut, Asking
  <2>4. CASE Accepted(c) \/ Unauthorized(c)
    BY <2>4, HealAccepted, HealUnauthorized
  <2>5. CASE DeleteSession(c) \/ Poll(c)
    BY <2>5, HealDelete, HealPoll
  <2> QED BY <1>4, <2>1, <2>2, <2>3, <2>4, <2>5 DEF Step
<1> QED BY <1>1, <1>2, <1>3, <1>4 DEF Next

\* For any number of callers and health checks: a call that comes again after a
\* 401 has a session BioStar accepts, unless BioStar ended sessions while it ran,
\* or somebody held one it had ended, on the way to Redis, when the call started.
THEOREM RetryHeals == Spec => []SessionHeals
<1>1. HealInv => SessionHeals
  <2> SUFFICES ASSUME HealInv, NEW c \in Runners, run[c].op = "user", run[c].tries = 2,
                      run[c].session = "ended", ~run[c].troubled
               PROVE  FALSE
    BY DEF SessionHeals
  <2> QED BY DEF HealInv, FreshAfterDrop, Undisturbed
<1> QED BY <1>1, HealInit, HealStep, PTL DEF Spec

----------------------------------------------------------------------------
(* The gateway drives the breaker only the way the breaker allows, and no    *)
(* capture polls more than MaxPolls times.                                   *)

BreakerFacts == INSTANCE CircuitBreaker_proofs

\* What a step of the gateway does with the breaker.
LEMMA BreakerMoves ==
  ASSUME [Next]_vars
  PROVE  \/ Breaker!Tick
         \/ \E c \in Callers : Breaker!Begin(c) \/ Breaker!onSuccess(c) \/ Breaker!onFailure(c)
         \/ UNCHANGED breaker
<1>1. ASSUME NEW c \in Runners, GetsError(c) \/ GetsUnauthorized(c)
      PROVE  \/ c \in Callers /\ (Breaker!onSuccess(c) \/ Breaker!onFailure(c))
             \/ UNCHANGED breaker
  BY <1>1 DEF GetsError, GetsUnauthorized, Succeeds, Fails
<1>2. ASSUME NEW c \in Runners, Step(c) \/ ServerErrs(c) \/ PollTimesOut(c)
      PROVE  \/ c \in Callers /\ (Breaker!onSuccess(c) \/ Breaker!onFailure(c))
             \/ UNCHANGED breaker
  <2>1. CASE Unreachable(c) \/ ServerErrs(c) \/ PollTimesOut(c) \/ Unauthorized(c)
    BY <1>1, <2>1 DEF Unreachable, ServerErrs, PollTimesOut, Unauthorized
  <2>2. CASE \/ GetSession(c) \/ Login(c) \/ LoginFails(c) \/ Store(c)
             \/ Accepted(c) \/ DeleteSession(c) \/ Poll(c)
    BY <2>2 DEF GetSession, Login, LoginFails, Store, Accepted, DeleteSession, Poll,
                Succeeds, Fails
  <2> QED BY <1>2, <2>1, <2>2 DEF Step
<1>3. ASSUME NEW c \in Callers, NEW op \in Operations, Start(c, op)
      PROVE  Breaker!Begin(c)
  BY <1>3 DEF Start
<1>4. CASE \/ GoDown \/ ComeUp \/ EndSessions \/ CacheExpires \/ UNCHANGED vars
           \/ \E c \in Checkers : HealthCheck(c)
  BY <1>4 DEF GoDown, ComeUp, EndSessions, CacheExpires, HealthCheck, vars
<1>5. CASE Tick
  BY <1>5 DEF Tick
<1> QED BY <1>2, <1>3, <1>4, <1>5 DEF Next

\* For any number of callers and health checks, the gateway is an implementation of the breaker's
\* specification: each of its steps is one of the breaker's or leaves it alone.
THEOREM GatewayRefinesBreaker == Spec => Breaker!Spec
<1>1. Init => Breaker!Init
  BY DEF Init
<1>2. [Next]_vars => [Breaker!Next]_(Breaker!vars)
  BY BreakerMoves DEF Breaker!Next, Breaker!vars, breaker
<1> QED BY <1>1, <1>2, PTL DEF Spec, Breaker!Spec

\* So the breaker's invariant, which does not depend on who calls it, holds of
\* the breaker that the gateway's callers share.
LEMMA BreakerInvariant == Spec => [](Breaker!TypeOK /\ Breaker!ClosedBelowThreshold)
<1>1. BreakerFacts!Spec => []BreakerFacts!IInv
  BY GatewayAssumption, BreakerFacts!Invariant
<1>2. Breaker!Init => BreakerFacts!Init
  BY DEF Breaker!Init, BreakerFacts!Init
<1>3. [Breaker!Next]_(Breaker!vars) => [BreakerFacts!Next]_(BreakerFacts!vars)
  BY DEF Breaker!Next, Breaker!vars, BreakerFacts!Next, BreakerFacts!vars,
         Breaker!Tick, Breaker!Begin, Breaker!onSuccess, Breaker!onFailure,
         Breaker!transitionTo, Breaker!Pending, Breaker!UpTo,
         BreakerFacts!Tick, BreakerFacts!Begin, BreakerFacts!onSuccess, BreakerFacts!onFailure,
         BreakerFacts!transitionTo, BreakerFacts!Pending, BreakerFacts!UpTo
<1>4. BreakerFacts!IInv => Breaker!TypeOK /\ Breaker!ClosedBelowThreshold
  BY DEF BreakerFacts!IInv, BreakerFacts!TypeOK, BreakerFacts!ClosedBelowThreshold,
         BreakerFacts!States, Breaker!TypeOK, Breaker!ClosedBelowThreshold, Breaker!States
<1> QED BY <1>1, <1>2, <1>3, <1>4, GatewayRefinesBreaker, PTL DEF Breaker!Spec, BreakerFacts!Spec

----------------------------------------------------------------------------
(* Types.  A call is tried twice at most; at an endpoint a capture has      *)
(* polled fewer than MaxPolls times in vain.                                *)

Bounds == \A c \in Runners : run[c].tries <= 2 /\ run[c].polls < MaxPolls
TypeInv == RunTypes /\ platform \in Platforms /\ up \in BOOLEAN /\ Bounds

\* One call moves on within the bounds.
LEMMA OneMoves ==
  ASSUME Bounds, NEW c \in Runners, \A d \in Runners \ {c} : run'[d] = run[d],
         run'[c].tries <= 2, run'[c].polls < MaxPolls
  PROVE  Bounds'
  BY DEF Bounds

LEMMA EndKeepsBounds ==
  ASSUME RunTypes, Bounds, NEW c \in Runners, run' = [run EXCEPT ![c] = NoCall]
  PROVE  Bounds'
<1>1. NoCall.polls = 0 /\ NoCall.tries = 0
  BY DEF NoCall
<1> QED BY <1>1, GatewayAssumption DEF RunTypes, Bounds

LEMMA ErrorKeepsBounds ==
  ASSUME RunTypes, Bounds, NEW c \in Runners, GetsError(c)
  PROVE  Bounds'
<1>1. CASE run' = [run EXCEPT ![c] = NoCall]
  BY <1>1, EndKeepsBounds
<1>2. CASE run' = [run EXCEPT ![c].pc = "request", ![c].tries = 2, ![c].polls = 0]
  <2>1. /\ run'[c].tries = 2 /\ run'[c].polls = 0
        /\ \A d \in Runners \ {c} : run'[d] = run[d]
    BY <1>2 DEF RunTypes, RunType
  <2> QED BY <2>1, OneMoves, GatewayAssumption
<1> QED BY <1>1, <1>2 DEF GetsError, Succeeds, Fails

LEMMA StepKeepsBounds ==
  ASSUME RunTypes, Bounds, NEW c \in Runners, Step(c) \/ ServerErrs(c) \/ PollTimesOut(c)
  PROVE  Bounds'
<1>1. CASE run' = [run EXCEPT ![c] = NoCall]
  BY <1>1, EndKeepsBounds
<1>2. ASSUME NEW r, run' = [run EXCEPT ![c] = r], r.tries = run[c].tries, r.polls = run[c].polls
      PROVE  Bounds'
  BY <1>2 DEF RunTypes, Bounds
<1>3. CASE GetSession(c) \/ Login(c) \/ Store(c)
  <2>1. CASE GetSession(c) \/ Login(c)
    BY <1>2, <2>1 DEF RunTypes, RunType, GetSession, Login
  <2>2. CASE Store(c) /\ c \in Checkers
    BY <1>1, <2>2 DEF Store
  <2>3. CASE Store(c) /\ c \notin Checkers
    BY <1>2, <2>3 DEF RunTypes, RunType, Store
  <2> QED BY <1>3, <2>1, <2>2, <2>3
<1>4. CASE Unreachable(c) \/ ServerErrs(c) \/ PollTimesOut(c)
  BY <1>4, ErrorKeepsBounds DEF Unreachable, ServerErrs, PollTimesOut
<1>5. CASE Accepted(c) \/ Unauthorized(c)
  BY <1>1, <1>2, <1>5 DEF RunTypes, RunType, Accepted, Unauthorized, GetsUnauthorized,
                          Succeeds, Fails
<1>6. CASE DeleteSession(c)
  <2>1. CASE run' = [run EXCEPT ![c].pc = "session", ![c].tries = 2]
    <3>1. /\ run'[c].tries = 2 /\ run'[c].polls = run[c].polls
          /\ \A d \in Runners \ {c} : run'[d] = run[d]
      BY <2>1 DEF RunTypes, RunType
    <3> QED BY <3>1, OneMoves DEF Bounds
  <2> QED BY <1>1, <1>6, <2>1 DEF DeleteSession, Fails
<1>7. CASE Poll(c)
  <2>1. CASE run[c].polls + 1 < MaxPolls /\ run' = [run EXCEPT ![c].polls = @ + 1]
    <3>1. /\ run'[c].tries = run[c].tries /\ run'[c].polls = run[c].polls + 1
          /\ \A d \in Runners \ {c} : run'[d] = run[d]
      BY <2>1 DEF RunTypes, RunType
    <3> QED BY <2>1, <3>1, OneMoves DEF Bounds
  <2> QED BY <1>1, <1>7, <2>1 DEF Poll, Succeeds
<1>8. CASE LoginFails(c)
  BY <1>1, <1>8 DEF LoginFails, Fails
<1> QED BY <1>3, <1>4, <1>5, <1>6, <1>7, <1>8 DEF Step

\* A call or a health check begins without a poll.
LEMMA StartKeepsBounds ==
  ASSUME RunTypes, Bounds, NEW c \in Runners,
         HealthCheck(c) \/ \E op \in Operations : Start(c, op)
  PROVE  Bounds'
<1>1. /\ run'[c].tries = 1 /\ run'[c].polls = 0
      /\ \A d \in Runners \ {c} : run'[d] = run[d]
  BY DEF RunTypes, HealthCheck, Start, NoCall
<1> QED BY <1>1, OneMoves, GatewayAssumption

LEMMA BoundStep == HealInv /\ TypeInv /\ [Next]_vars => TypeInv'
<1> SUFFICES ASSUME HealInv, TypeInv, [Next]_vars PROVE TypeInv'
  OBVIOUS
<1>1. RunTypes'
  BY HealStep DEF HealInv
<1>2. platform' = platform /\ up' \in BOOLEAN
  BY DEF TypeInv, Next, vars, GoDown, ComeUp, EndSessions, CacheExpires, HealthCheck, Tick,
         Start, Step, GetSession, Login, LoginFails, Store, Unreachable, Accepted,
         Unauthorized, DeleteSession, Poll, ServerErrs, PollTimesOut
<1>3. Bounds'
  <2> USE DEF TypeInv
  <2>1. CASE run' = run
    BY <2>1 DEF Bounds
  <2>2. CASE EndSessions
    <3>1. \A c \in Runners : run'[c].polls = run[c].polls /\ run'[c].tries = run[c].tries
      <4>1. \A c \in Runners : /\ Troubled[c] \in RunType
                                /\ Troubled[c].polls = run[c].polls
                                /\ Troubled[c].tries = run[c].tries
        BY DEF Troubled, RunTypes, RunType
      <4>2. CASE run' = Troubled
        BY <4>1, <4>2
      <4>3. CASE run' = [c \in Runners |-> [Troubled[c] EXCEPT
                                              !.session = IF @ = "ok" THEN "ended" ELSE @]]
        BY <4>1, <4>3 DEF RunType
      <4> QED BY <2>2, <4>2, <4>3 DEF EndSessions
    <3> QED BY <3>1 DEF Bounds
  <2>3. CASE \/ \E c \in Callers, op \in Operations : Start(c, op)
             \/ \E c \in Checkers : HealthCheck(c)
    BY <2>3, StartKeepsBounds DEF Runners
  <2>4. ASSUME NEW c \in Runners, Step(c) \/ ServerErrs(c) \/ PollTimesOut(c)
        PROVE  Bounds'
    BY <2>4, StepKeepsBounds
  <2> QED BY <2>1, <2>2, <2>3, <2>4 DEF Next, vars, GoDown, ComeUp, CacheExpires, Tick
<1> QED BY <1>1, <1>2, <1>3 DEF TypeInv

\* Every variable keeps its type; in particular the breaker's counters stay
\* within their bounds, whatever the gateway's calls do with it, and no capture
\* polls one endpoint more often than MaxPolls.
THEOREM GatewayTypes == Spec => []TypeOK
<1>1. Init => TypeInv
  BY HealInit, GatewayAssumption DEF Init, TypeInv, HealInv, Bounds, NoCall
<1>2. RunTypes /\ TypeInv /\ Breaker!TypeOK => TypeOK
  <2> SUFFICES ASSUME RunTypes, TypeInv, Breaker!TypeOK
               PROVE  \A c \in Runners : /\ run[c].tries \in 0..2
                                         /\ run[c].polls \in 0..(MaxPolls - 1)
    BY DEF RunTypes, RunType, TypeInv, TypeOK
  <2> QED BY GatewayAssumption DEF RunTypes, RunType, TypeInv, Bounds
<1> QED BY <1>1, <1>2, HealInit, HealStep, BoundStep, BreakerInvariant, PTL
        DEF Spec, HealInv
=============================================================================
