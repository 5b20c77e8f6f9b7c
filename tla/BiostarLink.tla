---------------------------- MODULE BiostarLink ----------------------------
(***************************************************************************)
(* The link to a BioStar server: the session both services keep in Redis   *)
(* under bv:bsession:conn, the REST calls of enroller-devices.service.ts   *)
(* that use it, and the listener of biostar-ws.service.ts that opens a     *)
(* WebSocket with it and comes back after a failure.  A session is known   *)
(* by what BioStar would say of it, not by its name.                       *)
(***************************************************************************)
EXTENDS Naturals, Sequences

CONSTANTS
    Calls,        \* REST calls that may be under way at a time
    Poller,       \* the call of the exit device poller, made again and again
    Previews,     \* the calls of getLatestDeviceEventPhoto
    Slots,        \* bound: executions of the listener told apart
    MaxFailures   \* bound: consecutiveFailures is counted up to here

ASSUME LinkAssumption ==
    /\ Poller \in Calls \ Previews
    /\ Previews \subseteq Calls
    /\ MaxFailures \in Nat /\ MaxFailures >= 5
    /\ Slots # {}

Held == {"none", "ok", "ended"}   \* no session, a valid one, one BioStar dropped
Nobody == [at |-> "none", session |-> "none"]
CallPCs == {"none", "login", "store", "request"}
TaskPCs == CallPCs \cup {"connect", "opening", "open", "timer"}

VARIABLES
    cache,       \* the session in Redis
    call,        \* program counter and session of each REST call
    task,        \* what the listener has under way: a run of tryConnect, a
                 \* socket or a timer; there should be one
    retryDelay,  \* in seconds
    failures,    \* consecutiveFailures
    up,          \* BioStar can be reached
    configured,  \* an active connection exists and its row can be read
    lost         \* ghost: tryConnect returned, or the handshake was refused,
                 \* and nothing was left to call it again

listener == <<task, retryDelay, failures, lost>>
vars == <<cache, call, listener, up, configured>>

Min2(a, b) == IF a < b THEN a ELSE b

----------------------------------------------------------------------------
(* BioStar, its network and Redis *)

GoDown == up /\ up' = FALSE /\ UNCHANGED <<cache, call, listener, configured>>
ComeUp == ~up /\ up' = TRUE /\ UNCHANGED <<cache, call, listener, configured>>

\* An administrator deletes, deactivates or creates the connection; the
\* database is down for a while.
Configure == configured' = ~configured /\ UNCHANGED <<cache, call, listener, up>>

Ended(held, ends) == IF ends /\ held = "ok" THEN "ended" ELSE held

\* BioStar ends sessions: some that nobody uses, or all of them.
EndSessions ==
    \E c \in BOOLEAN, dead \in SUBSET Calls, t \in SUBSET Slots :
        /\ cache' = Ended(cache, c)
        /\ call' = [x \in Calls |-> [call[x] EXCEPT !.session = Ended(@, x \in dead)]]
        /\ task' = [i \in Slots |-> [task[i] EXCEPT !.session = Ended(@, i \in t)]]
        /\ <<cache', call', task'>> # <<cache, call, task>>
        /\ UNCHANGED <<retryDelay, failures, lost, up, configured>>

\* The 25 minutes are over, or Redis starts empty.
CacheExpires == /\ cache # "none"
                /\ cache' = "none"
                /\ UNCHANGED <<call, listener, up, configured>>

----------------------------------------------------------------------------
(* The REST calls: getSession, the request, and what a 401 does *)

At(c, pc) == call[c].at = pc
SetCall(c, pc, session) == call' = [call EXCEPT ![c] = [at |-> pc, session |-> session]]
EndCall(c) == call' = [call EXCEPT ![c] = Nobody]

StartCall(c) ==
    /\ At(c, "none") /\ configured
    /\ IF cache = "none" THEN SetCall(c, "login", "none")
                         ELSE SetCall(c, "request", cache)
    /\ UNCHANGED <<cache, listener, up, configured>>

Login(c) ==
    /\ At(c, "login") /\ up
    /\ SetCall(c, "store", "ok")
    /\ UNCHANGED <<cache, listener, up, configured>>

\* setex; the call fails when Redis does.
Store(c) ==
    /\ At(c, "store")
    /\ \/ cache' = call[c].session /\ SetCall(c, "request", call[c].session)
       \/ cache' = cache /\ EndCall(c)
    /\ UNCHANGED <<listener, up, configured>>

Answered(c) ==
    /\ At(c, "request") /\ up /\ call[c].session = "ok"
    /\ EndCall(c)
    /\ UNCHANGED <<cache, listener, up, configured>>

\* Mutant: no call clears the cache.
RefusedKeeping(c) ==
    /\ At(c, "request") /\ up /\ call[c].session = "ended"
    /\ EndCall(c)
    /\ cache' = cache
    /\ UNCHANGED <<listener, up, configured>>

\* 401: invalidateSession, but for the previews.
Refused(c) ==
    /\ At(c, "request") /\ up /\ call[c].session = "ended"
    /\ EndCall(c)
    /\ cache' = IF c \in Previews THEN cache ELSE "none"
    /\ UNCHANGED <<listener, up, configured>>

\* A timeout, or another error: of Redis, the database or BioStar.
CallFails(c) ==
    /\ call[c].at \in {"login", "request"}
    /\ EndCall(c)
    /\ UNCHANGED <<cache, listener, up, configured>>

----------------------------------------------------------------------------
(* The listener *)

On(i, pc) == task[i].at = pc
SetTask(i, pc, session) == task' = [task EXCEPT ![i] = [at |-> pc, session |-> session]]

\* scheduleReconnect: the delay doubles when the timer fires.
Reconnect(i) == /\ SetTask(i, "timer", "none")
                /\ failures' = Min2(failures + 1, MaxFailures)
                /\ UNCHANGED <<retryDelay, lost>>

\* tryConnect, up to the cached session.  Without an active connection, and
\* when the database gives an error, it returns.
Connect(i) ==
    /\ On(i, "connect")
    /\ \/ /\ configured
          /\ IF cache = "none" THEN SetTask(i, "login", "none") ELSE SetTask(i, "opening", cache)
          /\ UNCHANGED lost
       \/ /\ ~configured
          /\ task' = [task EXCEPT ![i] = Nobody]
          /\ lost' = TRUE
    /\ UNCHANGED <<cache, call, retryDelay, failures, up, configured>>

ListenerLogin(i) ==
    /\ On(i, "login")
    /\ \/ up /\ SetTask(i, "store", "ok") /\ UNCHANGED <<retryDelay, failures, lost>>
       \/ ~up /\ Reconnect(i)
    /\ UNCHANGED <<cache, call, up, configured>>

\* setex, whose errors are swallowed; then the socket is created.
ListenerStore(i) ==
    /\ On(i, "store")
    /\ cache' \in {cache, task[i].session}
    /\ SetTask(i, "opening", task[i].session)
    /\ UNCHANGED <<call, retryDelay, failures, lost, up, configured>>

\* Mutant: the failures are forgotten, the delay is not.
OpenedLate(i) ==
    /\ On(i, "opening") /\ up
    /\ SetTask(i, "open", task[i].session)
    /\ failures' = 0
    /\ UNCHANGED <<cache, call, retryDelay, lost, up, configured>>

\* "open".  BioStar may open the socket of an ended session, and stay mute.
Opened(i) ==
    /\ On(i, "opening") /\ up
    /\ SetTask(i, "open", task[i].session)
    /\ retryDelay' = 5 /\ failures' = 0
    /\ UNCHANGED <<cache, call, lost, up, configured>>

\* "unexpected-response": a 401 or 403 clears the cache.  With a listener for
\* it, ws reports neither "error" nor "close", so nothing follows.
HandshakeRefused(i) ==
    /\ On(i, "opening") /\ task[i].session = "ended" /\ up
    /\ cache' \in {"none", cache}
    /\ task' = [task EXCEPT ![i] = Nobody]
    /\ lost' = TRUE
    /\ UNCHANGED <<call, retryDelay, failures, up, configured>>

\* Mutant: "error" schedules a reconnection too.
ClosedTwice(i) ==
    /\ On(i, "open") \/ (On(i, "opening") /\ ~up)
    /\ \/ Reconnect(i)
       \/ \E j \in Slots \ {i} :
            /\ On(j, "none")
            /\ task' = [task EXCEPT ![i] = [at |-> "timer", session |-> "none"],
                                    ![j] = [at |-> "timer", session |-> "none"]]
            /\ failures' = Min2(failures + 1, MaxFailures)
            /\ UNCHANGED <<retryDelay, lost>>
    /\ UNCHANGED <<cache, call, up, configured>>

\* "close", after an "error" or without one.
Closed(i) ==
    /\ On(i, "open") \/ (On(i, "opening") /\ ~up)
    /\ Reconnect(i)
    /\ UNCHANGED <<cache, call, up, configured>>

\* Mutant: the timer fires and nothing calls tryConnect.
TimerFiresIdly(i) ==
    /\ On(i, "timer")
    /\ retryDelay' = Min2(2 * retryDelay, 60)
    /\ task' = [task EXCEPT ![i] = Nobody]
    /\ UNCHANGED <<cache, call, failures, lost, up, configured>>

\* Mutant for TypeOK: the delay doubles without a limit.
TimerFiresUnlimited(i) ==
    /\ On(i, "timer")
    /\ retryDelay' = 2 * retryDelay
    /\ SetTask(i, "connect", "none")
    /\ UNCHANGED <<cache, call, failures, lost, up, configured>>

TimerFires(i) ==
    /\ On(i, "timer")
    /\ retryDelay' = Min2(2 * retryDelay, 60)
    /\ SetTask(i, "connect", "none")
    /\ UNCHANGED <<cache, call, failures, lost, up, configured>>

FirstTask == [i \in Slots |-> IF i = CHOOSE j \in Slots : TRUE
                              THEN [at |-> "connect", session |-> "none"] ELSE Nobody]

\* The process stops and onModuleInit runs again.
Restart ==
    /\ call' = [c \in Calls |-> Nobody]
    /\ task' = FirstTask
    /\ retryDelay' = 5 /\ failures' = 0 /\ lost' = FALSE
    /\ UNCHANGED <<cache, up, configured>>

----------------------------------------------------------------------------

Init ==
    /\ cache = "none"
    /\ call = [c \in Calls |-> Nobody]
    /\ task = FirstTask
    /\ retryDelay = 5 /\ failures = 0
    /\ up \in BOOLEAN /\ configured \in BOOLEAN
    /\ lost = FALSE

CallNext(c) == \/ StartCall(c) \/ Login(c) \/ Store(c)
               \/ Answered(c) \/ Refused(c) \/ CallFails(c)
TaskNext(i) == \/ Connect(i) \/ ListenerLogin(i) \/ ListenerStore(i) \/ Opened(i)
               \/ HandshakeRefused(i) \/ Closed(i) \/ TimerFires(i)
Environment == GoDown \/ ComeUp \/ Configure \/ EndSessions \/ CacheExpires \/ Restart

Next == Environment \/ (\E c \in Calls : CallNext(c)) \/ (\E i \in Slots : TaskNext(i))

Spec == Init /\ [][Next]_vars

\* A task of the listener that can go on does (an open socket may stay open),
\* the poller polls, and BioStar answers it every now and then.
Progress(i) == TaskNext(i) /\ ~(On(i, "open") /\ Closed(i))
Fairness ==
    /\ \A i \in Slots : WF_vars(Progress(i))
    /\ WF_vars(CallNext(Poller))
    /\ SF_vars(Answered(Poller) \/ Refused(Poller))
FairSpec == Spec /\ Fairness

----------------------------------------------------------------------------
(* Properties *)

\* Every variable has its type.
TypeOK ==
    /\ cache \in Held
    /\ call \in [Calls -> [at : CallPCs, session : Held]]
    /\ task \in [Slots -> [at : TaskPCs, session : Held]]
    /\ retryDelay \in {5, 10, 20, 40, 60}
    /\ failures \in 0..MaxFailures
    /\ up \in BOOLEAN /\ configured \in BOOLEAN /\ lost \in BOOLEAN

Active == {i \in Slots : ~On(i, "none")}

\* The listener is one chain of attempts, sockets and timers: no failure, close
\* or restart ever starts a second one, which would handle every event twice,
\* and it ends in two places only, where it is lost until the process restarts.
OneListener == (\A i, j \in Active : i = j) /\ (Active = {} => lost)

Backoff(n) == <<5, 10, 20, 40, 60>>[Min2(n, 4) + 1]

Pending == \E i \in Slots : On(i, "timer")

\* The delay in use belongs to the failures counted: a connection that was
\* open for a moment starts over at five seconds, and a minute is the limit.
BackoffFollowsFailures ==
    retryDelay = Backoff(IF Pending THEN failures - 1 ELSE failures)

\* BioStar and the connection are there for good, and the process stays up.
Reachable == <>[](up /\ configured) /\ <>[][~Restart]_vars

\* A session that BioStar has dropped does not stay in the cache that both
\* services share: the poller's 401 clears it, without waiting 25 minutes.
EndedSessionGoes == Reachable => ((cache = "ended") ~> (cache # "ended"))

\* After an outage the listener opens again, unless it was lost in it.
ListenerReopens ==
    Reachable => ((Active # {}) ~> (lost \/ \E i \in Slots : On(i, "open")))
=============================================================================
