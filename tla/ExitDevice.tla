----------------------------- MODULE ExitDevice -----------------------------
(***************************************************************************)
(* The exit device listener of biostar-ws.service.ts.  A visitor who is    *)
(* granted access on a device marked as an exit is checked out.  The event *)
(* reaches the backend twice, pushed over a WebSocket and read by a poller *)
(* that keeps the events it has seen in Redis; the checkout may wait for a *)
(* configured delay.  Visits are reduced to what the listener looks at;    *)
(* VisitSync has the rest of them.                                         *)
(***************************************************************************)
EXTENDS Naturals, FiniteSets

CONSTANTS
    Events,        \* identifiers of access events on the exit device, in order
    Visits,
    VisitOf,       \* the visit whose BioStar user an event names
    AutoCheckout,  \* the visits with autoCheckoutEnabled
    NoEvent,       \* the poller is waiting for no event
    Window,        \* how long events/search returns an event (5 minutes)
    SeenTTL,       \* lifetime of bv:exitevent:seen (10 minutes)
    MaxAdmissions  \* bound: admissions of a visit

ASSUME ExitAssumption ==
    /\ Events \subseteq Nat
    /\ VisitOf \in [Events -> Visits]
    /\ AutoCheckout \subseteq Visits
    /\ NoEvent \notin Events
    /\ {Window, SeenTTL, MaxAdmissions} \subseteq Nat
    /\ Window < SeenTTL

\* The handlers of an event: handleMessage of the WebSocket, the poller's, and
\* the poller's when it takes the event again.
Handlers == {"ws", "poll", "again"} \X Events
Admissions == 0..MaxAdmissions

VARIABLES
    visit,     \* CHECKED_IN, and the number of the admission
    age,       \* time since an event, none before it and Window + 1 off the page
    seen,      \* remaining time to live of the seen keys, 0 when there is none
    h,         \* program counter and admission at hand of each handler
    scheduled, \* exitCheckoutScheduled
    inFlight,  \* pollInFlight
    page,      \* the rows of the answer the poller has still to look at
    current,   \* the event whose handler the poller awaits
    owed,      \* ghost: exits of an admission that is still open
    polls,     \* ghost: how often the poller took an event for a new one
    surveys,   \* ghost: survey mails about the last admission of a visit
    spoiled,   \* ghost: visits whose exit may go unnoticed: a call failed, the
               \* process stopped, or no answer in time had a row of the event
    outlived   \* ghost: events whose key expired while a round that had read them
               \* was busy with the rows before

server == <<visit, age, owed>>
poller == <<inFlight, page, current>>
ghosts == <<polls, surveys, spoiled, outlived>>
vars == <<server, seen, h, scheduled, poller, ghosts>>

Past == Window + 1          \* no longer on the page
NotYet == Window + 2        \* the event has not happened

Idle == [pc |-> "idle", admission |-> 0]
PCs == {"idle", "find", "recheck", "checkout", "mail"}

\* The program counters at which a handler holds an entry of scheduled.
Owning == {"recheck", "checkout", "mail"}

----------------------------------------------------------------------------
(* The visit and the device *)

\* checkInVisit, or temporaryReenableVisit after a false exit.
Admit(v) ==
    /\ ~visit[v].in
    /\ visit[v].admission < MaxAdmissions
    /\ visit' = [visit EXCEPT ![v].in = TRUE, ![v].admission = @ + 1]
    /\ surveys' = [surveys EXCEPT ![v] = 0]
    /\ spoiled' = spoiled \ {v}
    /\ UNCHANGED <<age, owed, seen, h, scheduled, poller, polls, outlived>>

CheckedOut(v) == /\ visit' = [visit EXCEPT ![v].in = FALSE]
                 /\ owed' = {e \in owed : VisitOf[e] # v}

\* An operator or a cron checks the visit out.
CheckoutVisit(v) ==
    /\ visit[v].in
    /\ CheckedOut(v)
    /\ UNCHANGED <<age, seen, h, scheduled, poller, ghosts>>

\* The visitor is granted access on the exit device; the socket delivers the
\* event, or is closed or mute.
ExitEvent(e) ==
    LET v == VisitOf[e] IN
    /\ age[e] = NotYet
    /\ \A d \in Events : d < e => age[d] # NotYet
    /\ visit[v].in
    /\ age' = [age EXCEPT ![e] = 0]
    /\ owed' = owed \cup {e}
    /\ \E delivered \in BOOLEAN :
         h' = IF delivered THEN [h EXCEPT ![<<"ws", e>>].pc = "find"] ELSE h
    /\ UNCHANGED <<visit, seen, scheduled, poller, ghosts>>

\* Time passes, also while a round awaits the checkout of one of its rows:
\* events get old, keys of Redis expire.
Tick ==
    /\ age' = [e \in Events |-> IF age[e] <= Window THEN age[e] + 1 ELSE age[e]]
    /\ seen' = [e \in Events |-> IF seen[e] > 0 THEN seen[e] - 1 ELSE 0]
    /\ spoiled' = spoiled \cup {VisitOf[e] : e \in {x \in Events : age[x] = Window /\ seen[x] = 0}}
    /\ outlived' = outlived \cup {e \in page \ {current} : seen[e] = 1}
    /\ UNCHANGED <<visit, owed, h, scheduled, poller, polls, surveys>>

----------------------------------------------------------------------------
(* pollExitDeviceEvents *)

\* What events/search finds of the exit device.
Recent == {e \in Events : age[e] <= Window}

EndPoll == inFlight' = FALSE /\ page' = {} /\ current' = NoEvent

\* Mutant: a round that returns early is not ended by the finally block.
ReadRowsLeaving(rows) ==
    /\ ~inFlight
    /\ inFlight' = TRUE
    /\ page' = rows
    /\ UNCHANGED <<server, seen, h, scheduled, current, ghosts>>

\* The interval timer fires while no poll is in flight; a round without rows,
\* without a session or with a failed call changes nothing.
ReadRows(rows) ==
    /\ ~inFlight
    /\ inFlight' = (rows # {})
    /\ page' = rows
    /\ UNCHANGED <<server, seen, h, scheduled, current, ghosts>>

ReadAll == ReadRows(Recent)

\* The search gives the 50 latest rows of all devices and nothing asks for more:
\* the older events of this device may be missing.
ReadSome == \E rows \in SUBSET Recent :
                /\ \A e \in rows, d \in Recent \ rows : d < e
                /\ ReadRows(rows)

\* The loop goes on after an event; the finally block ends the round.
GoOn(e) == IF page = {e} THEN EndPoll
           ELSE page' = page \ {e} /\ current' = NoEvent /\ UNCHANGED inFlight

\* The row the loop comes to, latest first.
AtRow(e) == e \in page /\ current = NoEvent /\ \A d \in page : d <= e

\* The event is new to the poller, which awaits its handler.
Takes(e) ==
    /\ polls' = [polls EXCEPT ![e] = @ + 1]
    /\ h' = [h EXCEPT ![<<IF polls[e] = 0 THEN "poll" ELSE "again", e>>].pc = "find"]
    /\ current' = e
    /\ UNCHANGED <<server, scheduled, inFlight, page, surveys, spoiled, outlived>>

\* Mutant: the key lives no longer than the window of the search.
TakeEventBriefly(e) ==
    /\ AtRow(e)
    /\ seen[e] = 0
    /\ seen' = [seen EXCEPT ![e] = Window]
    /\ Takes(e)

\* SET NX of the seen key succeeds.
TakeEvent(e) ==
    /\ AtRow(e)
    /\ seen[e] = 0
    /\ seen' = [seen EXCEPT ![e] = SeenTTL]
    /\ Takes(e)

SkipEvent(e) ==
    /\ AtRow(e)
    /\ seen[e] > 0
    /\ GoOn(e)
    /\ UNCHANGED <<server, seen, h, scheduled, ghosts>>

\* Redis answers with an error, which counts as "seen"; the key may be set.
SeenFails(e) ==
    /\ AtRow(e)
    /\ \E set \in BOOLEAN : seen' = IF set /\ seen[e] = 0 THEN [seen EXCEPT ![e] = SeenTTL] ELSE seen
    /\ spoiled' = spoiled \cup {VisitOf[e]}
    /\ GoOn(e)
    /\ UNCHANGED <<server, h, scheduled, polls, surveys, outlived>>

----------------------------------------------------------------------------
(* checkoutOnExitDevice *)

\* The poller no longer waits for handler x.
Return(x) == IF x[1] # "ws" /\ current = x[2] THEN GoOn(x[2]) ELSE UNCHANGED poller

GoTo(x, pc) == h' = [h EXCEPT ![x].pc = pc]
Stop(x) == h' = [h EXCEPT ![x] = Idle] /\ Return(x)

\* Mutant for TypeOK: the entry is made for the event, not for its visit.
ScheduleEvent(x) == /\ GoTo(x, "recheck")
                    /\ scheduled' = scheduled \cup {x[2]}
                    /\ Return(x) \/ UNCHANGED poller

\* The checkout of handler x is at hand, at once or after a delay, for which
\* the poller does not wait.
Schedule(x) == /\ GoTo(x, "recheck")
               /\ scheduled' = scheduled \cup {VisitOf[x[2]]}
               /\ Return(x) \/ UNCHANGED poller

\* Mutant: a second event does not see that a checkout is scheduled.
FindVisitAgain(x) ==
    LET v == VisitOf[x[2]] IN
    /\ h[x].pc = "find"
    /\ IF visit[v].in /\ v \in AutoCheckout
       THEN Schedule(x)
       ELSE Stop(x) /\ UNCHANGED scheduled
    /\ UNCHANGED <<server, seen, ghosts>>

\* The entry of v is held by the mail about an earlier admission.
HeldFromBefore(v) ==
    \E x \in Handlers : /\ VisitOf[x[2]] = v /\ h[x].pc = "mail"
                       /\ h[x].admission # visit[v].admission

\* The visit is found by its user and the entry of scheduled made at once;
\* getExitCheckoutDelaySeconds then says whether the checkout waits.
FindVisit(x) ==
    LET v == VisitOf[x[2]] IN
    /\ h[x].pc = "find"
    /\ IF visit[v].in /\ v \in AutoCheckout \ scheduled
       THEN Schedule(x)
       ELSE Stop(x) /\ UNCHANGED scheduled
    /\ spoiled' = IF HeldFromBefore(v) THEN spoiled \cup {v} ELSE spoiled
    /\ UNCHANGED <<server, seen, polls, surveys, outlived>>

\* The end of runCheckout: its finally block frees the visit.
Finish(x) == Stop(x) /\ scheduled' = scheduled \ {VisitOf[x[2]]}

\* Mutant: the early return skips the finally block.
RecheckLeaving(x) ==
    /\ h[x].pc = "recheck"
    /\ IF visit[VisitOf[x[2]]].in THEN GoTo(x, "checkout") /\ UNCHANGED poller ELSE Stop(x)
    /\ UNCHANGED <<server, seen, scheduled, ghosts>>

\* runCheckout reads the visit again.
Recheck(x) ==
    /\ h[x].pc = "recheck"
    /\ IF visit[VisitOf[x[2]]].in THEN GoTo(x, "checkout") /\ UNCHANGED <<poller, scheduled>>
                                  ELSE Finish(x)
    /\ UNCHANGED <<server, seen, ghosts>>

\* checkoutVisit returns without a word when the visit is checked out already.
Checkout(x) ==
    LET v == VisitOf[x[2]] IN
    /\ h[x].pc = "checkout"
    /\ CheckedOut(v)
    /\ h' = [h EXCEPT ![x] = [pc |-> "mail", admission |-> visit[v].admission]]
    /\ UNCHANGED <<age, seen, scheduled, poller, polls, surveys, spoiled, outlived>>

\* sendExitSurveyEmailIfEnabled, which swallows its errors.
SendSurvey(x) ==
    LET v == VisitOf[x[2]] IN
    /\ h[x].pc = "mail"
    /\ \E sent \in BOOLEAN :
         surveys' = IF sent /\ h[x].admission = visit[v].admission /\ surveys[v] < 2
                    THEN [surveys EXCEPT ![v] = @ + 1] ELSE surveys
    /\ Finish(x)
    /\ UNCHANGED <<server, seen, polls, spoiled, outlived>>

\* A query fails, or the background sync has not stored the user's reference
\* yet when the visit is looked up: either catch block ends the handler and frees the visit.
Fail(x) ==
    /\ h[x].pc \in {"find", "recheck", "checkout"}
    /\ IF h[x].pc = "find" THEN Stop(x) /\ UNCHANGED scheduled ELSE Finish(x)
    /\ spoiled' = spoiled \cup {VisitOf[x[2]]}
    /\ UNCHANGED <<server, seen, polls, surveys, outlived>>

\* The process stops and is started again; Redis stays.
Crash ==
    /\ h' = [x \in Handlers |-> Idle]
    /\ scheduled' = {}
    /\ EndPoll
    /\ spoiled' = spoiled \cup {VisitOf[x[2]] : x \in {y \in Handlers : h[y].pc # "idle"}}
    /\ UNCHANGED <<server, seen, polls, surveys, outlived>>

----------------------------------------------------------------------------

Init ==
    /\ visit = [v \in Visits |-> [in |-> FALSE, admission |-> 0]]
    /\ age = [e \in Events |-> NotYet]
    /\ seen = [e \in Events |-> 0]
    /\ h = [x \in Handlers |-> Idle]
    /\ scheduled = {}
    /\ inFlight = FALSE /\ page = {} /\ current = NoEvent
    /\ owed = {}
    /\ polls = [e \in Events |-> 0]
    /\ surveys = [v \in Visits |-> 0]
    /\ spoiled = {}
    /\ outlived = {}

Environment == \/ Tick \/ Crash
               \/ \E v \in Visits : Admit(v) \/ CheckoutVisit(v)
               \/ \E e \in Events : ExitEvent(e)

PollNext(e) == TakeEvent(e) \/ SkipEvent(e) \/ SeenFails(e)
Poll == ReadAll \/ ReadSome \/ \E e \in Events : PollNext(e)

Advance(x) == \/ FindVisit(x) \/ Recheck(x)
              \/ Checkout(x) \/ SendSurvey(x) \/ Fail(x)

Next == Environment \/ Poll \/ \E x \in Handlers : Advance(x)

Spec == Init /\ [][Next]_vars

\* The timers fire, an event's handlers go on (a call times out after 20 seconds at
\* most), and BioStar answers a poll every now and then, with all rows.
Fairness == /\ SF_vars(ReadAll)
            /\ WF_vars(\E e \in Events : PollNext(e))
            /\ \A e \in Events : WF_vars(\E x \in Handlers : x[2] = e /\ Advance(x))
FairSpec == Spec /\ Fairness

----------------------------------------------------------------------------
(* Properties *)

\* Every variable has its type.
TypeOK ==
    /\ visit \in [Visits -> [in : BOOLEAN, admission : Admissions]]
    /\ age \in [Events -> 0..NotYet]
    /\ seen \in [Events -> 0..SeenTTL]
    /\ h \in [Handlers -> [pc : PCs, admission : Admissions]]
    /\ scheduled \subseteq Visits
    /\ inFlight \in BOOLEAN
    /\ page \subseteq Events
    /\ current \in Events \cup {NoEvent}
    /\ owed \subseteq Events
    /\ polls \in [Events -> 0..2]
    /\ surveys \in [Visits -> 0..2]
    /\ spoiled \subseteq Visits
    /\ outlived \subseteq Events

Owners(v) == {x \in Handlers : VisitOf[x[2]] = v /\ h[x].pc \in Owning}

\* exitCheckoutScheduled holds a visit exactly as long as one handler works on
\* its checkout: an entry that is left behind by a failed call or an early
\* return would switch the auto-checkout of that visit off for good, a second
\* handler would send a second survey.
ScheduledIsOwned ==
    \A v \in Visits : /\ v \in scheduled <=> Owners(v) # {}
                      /\ \A x, y \in Owners(v) : x = y

\* The poller takes no event for a new one twice, in whatever rounds it reads it
\* and wherever the process stops: the key outlives the window of the search.
\* Only a round that is slow with its first rows (each awaits a checkout) may
\* come to a row after the key has expired.
PolledOnce == \A e \in Events : polls[e] <= 1 \/ e \in outlived

\* A visitor gets one survey mail for an admission, however often the card is
\* swiped, whichever way the events arrive and whoever else checks him out.
SurveyOnce == \A v \in Visits : surveys[v] <= 1

\* The visitor has left: the admission that event e belongs to is still open.
Left(e) == e \in owed /\ VisitOf[e] \in AutoCheckout

\* Once the process stays up, an exit is followed by a checkout, by the poller
\* if not by the socket, unless a call about this visit fails.
StaysUp == <>[][~Crash]_vars
ExitEndsVisit ==
    StaysUp => \A e \in Events : Left(e) ~> (~Left(e) \/ VisitOf[e] \in spoiled)

=============================================================================
