----------------------------- MODULE VisitSync -----------------------------
(***************************************************************************)
(* The life cycle of visits and the BioStar users that go with them.       *)
(*                                                                         *)
(* Every operation of the backend on a visit is a NestJS handler: it loads *)
(* the row into an entity of its own, works on that copy across awaits and *)
(* writes it back with repository.save.  A process of this module is one   *)
(* such handler (an HTTP request, a background setImmediate, a cron tick); *)
(* an action is what it does between two awaits, so every interleaving of  *)
(* the awaits is a behaviour.  The sources are visitors.service.ts,        *)
(* suprema-sync.service.ts, auto-checkout.service.ts, biostar-ws.service.ts*)
(* and pre-registration.service.ts.                                        *)
(***************************************************************************)
EXTENDS Naturals, FiniteSets

CONSTANTS
    Visits,       \* identifiers of the rows of the table visits
    Visitors,     \* identifiers of the rows of the table visitors
    VisitorOf,    \* the visitor each visit belongs to (visit.visitorId)
    Requests,     \* handlers that HTTP requests and device events run in
    Closer,       \* the handler of the cron that closes expired re-enablements
    NumConns,     \* configured BioStar connections, numbered by createdAt
    Users,        \* user ids on the BioStar servers
    UserIdOn,     \* the id a connection's server gives a visitor's user
    NoUser,       \* supremaUserRefId = null
    NoVisit,      \* a handler that works on no visit
    MaxTime,      \* bound: the last instant of the clock
    MaxLinks      \* bound: unspent false-exit links of one visit

Procs == Requests \cup {Closer}
Conns == 1..NumConns

ASSUME ConstantsAssumption ==
    /\ VisitorOf \in [Visits -> Visitors]
    /\ UserIdOn \in [Conns \X Visitors -> Users]
    /\ NumConns \in Nat /\ MaxTime \in Nat /\ MaxLinks \in Nat
    /\ NoUser \notin Users /\ NoVisit \notin Visits /\ Closer \notin Requests

Statuses == {"ABSENT", "SCHEDULED", "PRE_REGISTERED", "CHECKED_IN",
             "CHECKED_OUT", "CANCELLED", "NO_SHOW", "FALSE_EXIT_REPORTED"}
Active   == {"SCHEDULED", "PRE_REGISTERED", "CHECKED_IN"}
Exited   == {"CHECKED_OUT", "FALSE_EXIT_REPORTED"}
SyncStatuses == {"null", "PENDING", "SYNCED", "NOT_CONFIGURED"}

\* A row of the table visits.  in and out tell whether checkedInAt and
\* checkedOutAt are set; reenable is temporaryReenableUntil, 0 when null.
Rows == [status : Statuses, in : BOOLEAN, out : BOOLEAN, reenable : 0..MaxTime,
         ref : Users \cup {NoUser}, sync : SyncStatuses]

NoRow == [status |-> "ABSENT", in |-> FALSE, out |-> FALSE, reenable |-> 0,
          ref |-> NoUser, sync |-> "null"]

\* What a handler remembers between two awaits: its program counter, the visit
\* it works on, its entity (copy), the row save() compared the entity with when
\* that comparison was not made in the same step as the update (seen), what
\* follows the save or the loop (then), the connections left to call, the user
\* id of the last successful sync, the visits left in a bulk loop, and whether
\* an exit device started it (then it owns an entry of exitCheckoutScheduled).
Handlers == [pc    : {"idle", "insert", "link", "recheck", "sweep", "save",
                      "resolve", "sync", "delete", "mail"},
             visit : Visits \cup {NoVisit},
             copy  : Rows,
             seen  : Rows,
             then  : {"done", "sync", "checkout", "force", "pending"},
             conns : SUBSET Conns,
             last  : Users \cup {NoUser},
             todo  : SUBSET Visits,
             exit  : BOOLEAN]

Idle == [pc |-> "idle", visit |-> NoVisit, copy |-> NoRow, seen |-> NoRow,
         then |-> "done", conns |-> {}, last |-> NoUser, todo |-> {},
         exit |-> FALSE]

VARIABLES
    row,       \* the table visits
    h,         \* the handlers
    biostar,   \* the users stored on each BioStar server
    active,    \* the connections with isActive = true
    now,       \* the clock
    links,     \* unspent false-exit links (jti keys in Redis) of each visit
    surveyed,  \* visits whose visitor was sent an exit survey link
    overlapped,\* ghost: visitors for whom two handlers were under way at once
    faulted    \* ghost: visitors for whom a call to a server went wrong, the
               \* process crashed, or an administrator stepped in

db == <<row, biostar, active, now, links, surveyed>>
ghosts == <<overlapped, faulted>>
vars == <<row, h, biostar, active, now, links, surveyed, overlapped, faulted>>

----------------------------------------------------------------------------
(* Helpers *)

\* Connections are called in the order of createdAt.
First(S) == CHOOSE c \in S : \A d \in S : c <= d

\* p holds an entity of visitor u.
Busy(p, u) == /\ h[p].pc \in {"save", "resolve", "sync", "delete"}
              /\ VisitorOf[h[p].visit] = u

\* The handler after the work on its visit: an exit device's handler sends the
\* survey, a loop takes its next visit, any other handler ends.
Done(hp) == IF hp.exit THEN [hp EXCEPT !.pc = "mail", !.copy = NoRow, !.seen = NoRow,
                                       !.then = "done", !.last = NoUser]
            ELSE IF hp.todo # {} THEN [Idle EXCEPT !.pc = "sweep", !.todo = hp.todo]
            ELSE Idle

\* repository.save: the columns in which the entity differs from the row that
\* was compared are written, the others keep what the row holds now.
Pick(new, base, old) == IF new # base THEN new ELSE old
Merge(new, base, old) ==
    [status   |-> Pick(new.status, base.status, old.status),
     in       |-> Pick(new.in, base.in, old.in),
     out      |-> Pick(new.out, base.out, old.out),
     reenable |-> Pick(new.reenable, base.reenable, old.reenable),
     ref      |-> Pick(new.ref, base.ref, old.ref),
     sync     |-> Pick(new.sync, base.sync, old.sync)]

\* Handler p has loaded visit v, changed its entity to e and awaits save(e).
ToSave(hp, v, e, then) ==
    [hp EXCEPT !.pc = "save", !.visit = v, !.copy = e, !.seen = NoRow, !.then = then]

\* Handler p starts to work on visit v.
Enter(p, v) ==
    /\ overlapped' = IF \E q \in Procs \ {p} : Busy(q, VisitorOf[v])
                     THEN overlapped \cup {VisitorOf[v]} ELSE overlapped
    /\ UNCHANGED <<db, faulted>>

Load(p, v, e, then) ==
    /\ h' = [h EXCEPT ![p] = ToSave(@, v, e, then)]
    /\ Enter(p, v)

----------------------------------------------------------------------------
(* Registration *)

\* scheduleVisit: no active visit of the visitor is found; the insert is
\* several awaits later.
ScheduleVisit(p, v) ==
    /\ h[p].pc = "idle"
    /\ row[v] = NoRow
    /\ \A q \in Procs : ~(h[q].pc = "insert" /\ h[q].visit = v)
    /\ \A w \in Visits : VisitorOf[w] = VisitorOf[v] => row[w].status \notin Active
    /\ h' = [h EXCEPT ![p] = [Idle EXCEPT !.pc = "insert", !.visit = v]]
    /\ UNCHANGED <<db, ghosts>>

\* inviteVisitors: the same visit, without the check.
InviteVisitors(p, v) ==
    /\ h[p].pc = "idle"
    /\ row[v] = NoRow
    /\ \A q \in Procs : ~(h[q].pc = "insert" /\ h[q].visit = v)
    /\ h' = [h EXCEPT ![p] = [Idle EXCEPT !.pc = "insert", !.visit = v]]
    /\ UNCHANGED <<db, ghosts>>

\* The transaction that inserts the visit commits.
InsertVisit(p) ==
    /\ h[p].pc = "insert"
    /\ row' = [row EXCEPT ![h[p].visit] = [NoRow EXCEPT !.status = "SCHEDULED"]]
    /\ h' = [h EXCEPT ![p] = Idle]
    /\ UNCHANGED <<biostar, active, now, links, surveyed, ghosts>>

\* completePreRegistration, for a visitor who holds a valid token.
CompletePreRegistration(p, v) ==
    /\ h[p].pc = "idle"
    /\ row[v].status = "SCHEDULED"
    /\ Load(p, v, [row[v] EXCEPT !.status = "PRE_REGISTERED"], "done")

MarkAsNoShow(p, v) ==
    /\ h[p].pc = "idle"
    /\ row[v].status \in {"SCHEDULED", "PRE_REGISTERED"}
    /\ Load(p, v, [row[v] EXCEPT !.status = "NO_SHOW"], "done")

----------------------------------------------------------------------------
(* Admission *)

\* Mutant: the exit time of an earlier checkout stays.
CheckInKeepingExitTime(p, v) ==
    /\ h[p].pc = "idle"
    /\ row[v].status \notin {"ABSENT", "CHECKED_IN", "CANCELLED"}
    /\ Load(p, v, [row[v] EXCEPT !.status = "CHECKED_IN", !.in = TRUE, !.reenable = 0], "sync")

\* checkInVisit: any visit but a checked-in or a cancelled one; the sync that
\* follows the save runs in the background on the same entity.
CheckInVisit(p, v) ==
    /\ h[p].pc = "idle"
    /\ row[v].status \notin {"ABSENT", "CHECKED_IN", "CANCELLED"}
    /\ Load(p, v, [row[v] EXCEPT !.status = "CHECKED_IN", !.in = TRUE,
                                 !.out = FALSE, !.reenable = 0], "sync")

\* Mutant: the re-enabled visit is counted as a new one, not admitted yet.
ReenableAsNewVisit(p, v, d) ==
    /\ h[p].pc = "idle"
    /\ d > now
    /\ row[v].status = "FALSE_EXIT_REPORTED"
    /\ Load(p, v, [row[v] EXCEPT !.status = "CHECKED_IN", !.in = FALSE, !.out = FALSE,
                                 !.reenable = d], "sync")

\* temporaryReenableVisit, until the instant d, which is checked to be in the
\* future just before the row is read.
TemporaryReenableVisit(p, v, d) ==
    /\ h[p].pc = "idle"
    /\ d > now
    /\ row[v].status = "FALSE_EXIT_REPORTED"
    /\ Load(p, v, [row[v] EXCEPT !.status = "CHECKED_IN", !.out = FALSE,
                                 !.reenable = d], "sync")

\* forceSyncVisit: a visit with a user deletes it first.
ForceSyncVisit(p, v) ==
    /\ h[p].pc = "idle"
    /\ row[v].status = "CHECKED_IN"
    /\ IF row[v].ref # NoUser
       THEN /\ h' = [h EXCEPT ![p] = [Idle EXCEPT !.pc = "resolve", !.visit = v,
                                                  !.copy = row[v], !.then = "force"]]
            /\ Enter(p, v)
       ELSE Load(p, v, [row[v] EXCEPT !.sync = "PENDING"], "sync")

----------------------------------------------------------------------------
(* Departure *)

\* Mutant: the deadline of a temporary re-enablement survives the checkout.
LoadCheckoutKeepingDeadline(p, v, hp) ==
    IF row[v].status = "CHECKED_OUT"
    THEN /\ h' = [h EXCEPT ![p] = Done([hp EXCEPT !.visit = v])]
         /\ UNCHANGED <<db, ghosts>>
    ELSE /\ h' = [h EXCEPT ![p] =
                    ToSave(hp, v, [row[v] EXCEPT !.status = "CHECKED_OUT", !.out = TRUE],
                           IF row[v].ref # NoUser THEN "checkout" ELSE "done")]
         /\ Enter(p, v)

\* The part of checkoutVisit up to its first save, for the visit v that
\* handler p has in hand: a checked-out visit is left alone.
LoadCheckout(p, v, hp) ==
    IF row[v].status = "CHECKED_OUT"
    THEN /\ h' = [h EXCEPT ![p] = Done([hp EXCEPT !.visit = v])]
         /\ UNCHANGED <<db, ghosts>>
    ELSE /\ h' = [h EXCEPT ![p] =
                    ToSave(hp, v, [row[v] EXCEPT !.status = "CHECKED_OUT",
                                                 !.out = TRUE, !.reenable = 0],
                           IF row[v].ref # NoUser THEN "checkout" ELSE "done")]
         /\ Enter(p, v)

\* checkoutVisit, asked for by an operator.
CheckoutVisit(p, v) ==
    /\ h[p].pc = "idle"
    /\ row[v].status # "ABSENT"
    /\ LoadCheckout(p, v, h[p])

\* bulkCheckoutTenant reads its list once and closes the visits one by one.
BulkCheckoutTenant(p) ==
    LET found == {v \in Visits : row[v].status \in Active} IN
    /\ h[p].pc = "idle"
    /\ found # {}
    /\ h' = [h EXCEPT ![p] = [Idle EXCEPT !.pc = "sweep", !.todo = found]]
    /\ UNCHANGED <<db, ghosts>>

\* bulkCheckoutSelected does so for the list that the operator picked.
BulkCheckoutSelected(p, S) ==
    /\ h[p].pc = "idle"
    /\ S # {}
    /\ \A v \in S : row[v].status # "ABSENT"
    /\ h' = [h EXCEPT ![p] = [Idle EXCEPT !.pc = "sweep", !.todo = S]]
    /\ UNCHANGED <<db, ghosts>>

\* closeExpiredTemporaryReenablements reads its list once, too.
Expired(v) == /\ row[v].status = "CHECKED_IN"
              /\ row[v].reenable # 0
              /\ row[v].reenable <= now

\* Mutant: only the visits that have a BioStar user are looked at.
CloseExpiredSynced ==
    LET expired == {v \in Visits : Expired(v) /\ row[v].ref # NoUser} IN
    /\ h[Closer].pc = "idle"
    /\ expired # {}
    /\ h' = [h EXCEPT ![Closer] = [Idle EXCEPT !.pc = "sweep", !.todo = expired]]
    /\ UNCHANGED <<db, ghosts>>

CloseExpiredTemporaryReenablements ==
    LET expired == {v \in Visits : Expired(v)} IN
    /\ h[Closer].pc = "idle"
    /\ expired # {}
    /\ h' = [h EXCEPT ![Closer] = [Idle EXCEPT !.pc = "sweep", !.todo = expired]]
    /\ UNCHANGED <<db, ghosts>>

\* The loop of either takes its next visit and checks it out.
SweepNext(p, v) ==
    /\ h[p].pc = "sweep"
    /\ v \in h[p].todo
    /\ LoadCheckout(p, v, [h[p] EXCEPT !.todo = @ \ {v}])

\* checkoutOnExitDevice: an ACCESS_GRANTED event of the visit's user on an exit
\* device schedules a checkout, unless one is scheduled already.
CheckoutOnExitDevice(p, v) ==
    /\ h[p].pc = "idle"
    /\ row[v].ref # NoUser
    /\ row[v].status = "CHECKED_IN"
    /\ \A q \in Procs : ~(h[q].exit /\ h[q].visit = v)
    /\ h' = [h EXCEPT ![p] = [Idle EXCEPT !.pc = "recheck", !.visit = v, !.exit = TRUE]]
    /\ UNCHANGED <<db, ghosts>>

\* runCheckout, after the configured delay, reads the visit again.
RunCheckout(p) ==
    /\ h[p].pc = "recheck"
    /\ h' = [h EXCEPT ![p] = IF row[h[p].visit].status = "CHECKED_IN"
                             THEN [@ EXCEPT !.pc = "sweep", !.todo = {h[p].visit}]
                             ELSE Idle]
    /\ UNCHANGED <<db, ghosts>>

\* sendExitSurveyEmailIfEnabled: a survey link and a single-use false-exit link,
\* when the tenant wants them and the visitor has an address.
SendExitSurveyEmail(p) ==
    /\ h[p].pc = "mail"
    /\ \E sent \in BOOLEAN :
         IF sent
         THEN /\ surveyed' = surveyed \cup {h[p].visit}
              /\ links' = [links EXCEPT ![h[p].visit] = IF @ < MaxLinks THEN @ + 1 ELSE @]
         ELSE UNCHANGED <<surveyed, links>>
    /\ h' = [h EXCEPT ![p] = Idle]
    /\ UNCHANGED <<row, biostar, active, now, ghosts>>

\* Mutant: the survey's token is not checked.
SubmitAnySurvey(p, v) ==
    /\ h[p].pc = "idle"
    /\ row[v].status # "ABSENT"
    /\ Load(p, v, row[v], "done")

\* submitExitSurvey looks at no status: it loads the row and saves it.
SubmitExitSurvey(p, v) ==
    /\ h[p].pc = "idle"
    /\ v \in surveyed
    /\ Load(p, v, row[v], "done")

\* Mutant: the answer of Redis DEL is ignored, a spent link is good again.
SpendSpentLink(p, v) ==
    /\ h[p].pc = "idle"
    /\ v \in surveyed
    /\ links' = [links EXCEPT ![v] = @ - 1]
    /\ h' = [h EXCEPT ![p] = [Idle EXCEPT !.pc = "link", !.visit = v]]
    /\ UNCHANGED <<row, biostar, active, now, surveyed, ghosts>>

\* reportFalseExit spends the link before it reads the visit.
SpendFalseExitLink(p, v) ==
    /\ h[p].pc = "idle"
    /\ links[v] > 0
    /\ links' = [links EXCEPT ![v] = @ - 1]
    /\ h' = [h EXCEPT ![p] = [Idle EXCEPT !.pc = "link", !.visit = v]]
    /\ UNCHANGED <<row, biostar, active, now, surveyed, ghosts>>

\* Mutant: any visit may be reported, whatever its status.
ReportAnyFalseExit(p) ==
    LET v == h[p].visit IN
    /\ h[p].pc = "link"
    /\ Load(p, v, [row[v] EXCEPT !.status = "FALSE_EXIT_REPORTED"], "done")

ReportFalseExit(p) ==
    LET v == h[p].visit IN
    /\ h[p].pc = "link"
    /\ IF row[v].status = "CHECKED_OUT"
       THEN Load(p, v, [row[v] EXCEPT !.status = "FALSE_EXIT_REPORTED"], "done")
       ELSE /\ h' = [h EXCEPT ![p] = Idle]
            /\ UNCHANGED <<db, ghosts>>

DismissFalseExit(p, v) ==
    /\ h[p].pc = "idle"
    /\ row[v].status = "FALSE_EXIT_REPORTED"
    /\ Load(p, v, [row[v] EXCEPT !.status = "CHECKED_OUT"], "done")

----------------------------------------------------------------------------
(* Writing the row, and the loops over the BioStar connections *)

\* save(e) compares the entity with the row some time before it writes.
Compare(p) ==
    /\ h[p].pc = "save"
    /\ h[p].seen = NoRow
    /\ h' = [h EXCEPT ![p].seen = row[h[p].visit]]
    /\ UNCHANGED <<db, ghosts>>

AfterSave(hp) ==
    CASE hp.then = "done"    -> Done(hp)
      [] hp.then = "pending" -> ToSave(hp, hp.visit, [hp.copy EXCEPT !.sync = "PENDING"], "sync")
      [] OTHER               -> [hp EXCEPT !.pc = "resolve", !.seen = NoRow]

\* The write.  When the comparison was not made earlier it is made here, and
\* the whole entity replaces the row.
Save(p) ==
    LET v    == h[p].visit
        base == IF h[p].seen = NoRow THEN row[v] ELSE h[p].seen IN
    /\ h[p].pc = "save"
    /\ row' = [row EXCEPT ![v] = Merge(h[p].copy, base, @)]
    /\ h' = [h EXCEPT ![p] = AfterSave(@)]
    /\ UNCHANGED <<biostar, active, now, links, surveyed, ghosts>>

\* Mutants: the user id of the created user is not kept; a sync that failed on
\* every connection is reported as done.
AfterSyncForgettingUser(hp) ==
    ToSave(hp, hp.visit,
           IF hp.last # NoUser THEN [hp.copy EXCEPT !.sync = "SYNCED"]
                               ELSE [hp.copy EXCEPT !.sync = "PENDING"],
           "done")

AfterSyncAlwaysSynced(hp) ==
    ToSave(hp, hp.visit,
           [hp.copy EXCEPT !.ref = IF hp.last # NoUser THEN hp.last ELSE @,
                           !.sync = "SYNCED"],
           "done")

\* syncVisit after its loop (or with no connection to loop over).
AfterSync(hp) ==
    ToSave(hp, hp.visit,
           IF hp.last # NoUser THEN [hp.copy EXCEPT !.ref = hp.last, !.sync = "SYNCED"]
                               ELSE [hp.copy EXCEPT !.sync = "PENDING"],
           "done")

\* deleteUserFromBioStar after its loop: the reference goes, whatever the
\* servers answered; forceSyncVisit goes on to PENDING and the sync.
AfterDelete(hp) ==
    IF hp.then = "force"
    THEN ToSave(hp, hp.visit, [hp.copy EXCEPT !.ref = NoUser], "pending")
    ELSE ToSave(hp, hp.visit, [hp.copy EXCEPT !.ref = NoUser, !.sync = "null"], "done")

\* resolveConnections.
ResolveConnections(p) ==
    /\ h[p].pc = "resolve"
    /\ h' = [h EXCEPT ![p] =
               CASE active = {} /\ @.then = "sync" ->
                      ToSave(@, @.visit, [@.copy EXCEPT !.sync = "NOT_CONFIGURED"], "done")
                 [] active = {} /\ @.then # "sync" -> AfterDelete(@)
                 [] active # {} /\ @.then = "sync" ->
                      [@ EXCEPT !.pc = "sync", !.conns = active, !.last = NoUser]
                 [] OTHER -> [@ EXCEPT !.pc = "delete", !.conns = active]]
    /\ UNCHANGED <<db, ghosts>>

\* createBioStarUser: a user that server c has already is updated instead.
createBioStarUser(c, u) == [biostar EXCEPT ![c] = @ \cup {UserIdOn[c, u]}]

\* syncWithConnection: the call succeeds; or it fails; or it is carried out and
\* its answer is lost.
SyncWithConnection(p) ==
    LET c    == First(h[p].conns)
        u    == VisitorOf[h[p].visit]
        rest == h[p].conns \ {c}
        Next1(hp) == IF rest = {} THEN AfterSync([hp EXCEPT !.conns = {}])
                     ELSE [hp EXCEPT !.conns = rest] IN
    /\ h[p].pc = "sync"
    /\ \E outcome \in {"ok", "failed", "lost"} :
         /\ biostar' = IF outcome = "failed" THEN biostar
                       ELSE createBioStarUser(c, u)
         /\ h' = [h EXCEPT ![p] = Next1(IF outcome = "ok"
                                        THEN [@ EXCEPT !.last = UserIdOn[c, u]] ELSE @)]
         /\ faulted' = IF outcome = "lost" THEN faulted \cup {u} ELSE faulted
    /\ UNCHANGED <<row, active, now, links, surveyed, overlapped>>

\* One turn of deleteUserFromBioStar: errors are logged and swallowed.
DeleteFromConnection(p) ==
    LET c    == First(h[p].conns)
        u    == VisitorOf[h[p].visit]
        rest == h[p].conns \ {c} IN
    /\ h[p].pc = "delete"
    /\ \E deleted \in BOOLEAN :
         /\ biostar' = IF deleted THEN [biostar EXCEPT ![c] = @ \ {h[p].copy.ref}]
                       ELSE biostar
         /\ faulted' = IF deleted THEN faulted ELSE faulted \cup {u}
    /\ h' = [h EXCEPT ![p] = IF rest = {} THEN AfterDelete([@ EXCEPT !.conns = {}])
                             ELSE [@ EXCEPT !.conns = rest]]
    /\ UNCHANGED <<row, active, now, links, surveyed, overlapped>>

----------------------------------------------------------------------------
(* The environment *)

Tick == /\ now < MaxTime
        /\ now' = now + 1
        /\ UNCHANGED <<row, h, biostar, active, links, surveyed, ghosts>>

\* An administrator switches a connection on or off.
SwitchConnection(c) ==
    /\ active' = IF c \in active THEN active \ {c} ELSE active \cup {c}
    /\ faulted' = Visitors
    /\ UNCHANGED <<row, h, biostar, now, links, surveyed, overlapped>>

\* deleteUserByIdFromBioStar, which an operator runs on a user that looks like
\* an orphan: one turn of its loop.
DeleteOrphanedBioStarUser(c, u) ==
    /\ c \in active
    /\ UserIdOn[c, u] \in biostar[c]
    /\ biostar' = [biostar EXCEPT ![c] = @ \ {UserIdOn[c, u]}]
    /\ faulted' = faulted \cup {u}
    /\ UNCHANGED <<row, h, active, now, links, surveyed, overlapped>>

\* The backend process stops and is started again: its handlers are gone, the
\* database, Redis and the BioStar servers stay.
Crash ==
    /\ h' = [p \in Procs |-> Idle]
    /\ faulted' = faulted \cup {u \in Visitors : \E p \in Procs : Busy(p, u)}
    /\ UNCHANGED <<db, overlapped>>

----------------------------------------------------------------------------

Init == /\ row = [v \in Visits |-> NoRow]
        /\ h = [p \in Procs |-> Idle]
        /\ biostar = [c \in Conns |-> {}]
        /\ active = Conns
        /\ now = 0
        /\ links = [v \in Visits |-> 0]
        /\ surveyed = {}
        /\ overlapped = {}
        /\ faulted = {}

\* A request arrives.
Request(p) ==
    \/ BulkCheckoutTenant(p) \/ \E S \in SUBSET Visits : BulkCheckoutSelected(p, S)
    \/ \E v \in Visits :
         \/ ScheduleVisit(p, v) \/ InviteVisitors(p, v)
         \/ CompletePreRegistration(p, v) \/ MarkAsNoShow(p, v)
         \/ CheckInVisit(p, v) \/ ForceSyncVisit(p, v)
         \/ \E d \in 1..MaxTime : TemporaryReenableVisit(p, v, d)
         \/ CheckoutVisit(p, v) \/ CheckoutOnExitDevice(p, v)
         \/ SubmitExitSurvey(p, v) \/ SpendFalseExitLink(p, v) \/ DismissFalseExit(p, v)

\* A handler that is under way goes on.
Step(p) ==
    \/ InsertVisit(p) \/ RunCheckout(p) \/ SendExitSurveyEmail(p) \/ ReportFalseExit(p)
    \/ Save(p) \/ ResolveConnections(p) \/ SyncWithConnection(p) \/ DeleteFromConnection(p)
    \/ \E v \in Visits : SweepNext(p, v)

Environment ==
    \/ Tick \/ Crash
    \/ \E c \in Conns : SwitchConnection(c) \/ \E u \in Visitors : DeleteOrphanedBioStarUser(c, u)

Next == \/ \E p \in Requests : Request(p)
        \/ \E p \in Procs : Step(p)
        \/ CloseExpiredTemporaryReenablements
        \/ Environment

\* The comparison of save() and its update as one step, and as two.
Spec == Init /\ [][Next]_vars
SplitNext == Next \/ \E p \in Procs : Compare(p)
SplitSpec == Init /\ [][SplitNext]_vars

\* The timers keep firing and an awaited call ends, with an answer or an error.
Fairness == /\ WF_vars(CloseExpiredTemporaryReenablements)
            /\ \A p \in Procs : WF_vars(Step(p))
FairSpec == Spec /\ Fairness

----------------------------------------------------------------------------
(* Properties *)

\* Every variable has its type.
TypeOK ==
    /\ row \in [Visits -> Rows]
    /\ h \in [Procs -> Handlers]
    /\ biostar \in [Conns -> SUBSET Users]
    /\ active \subseteq Conns
    /\ now \in 0..MaxTime
    /\ links \in [Visits -> 0..MaxLinks]
    /\ surveyed \subseteq Visits
    /\ overlapped \subseteq Visitors
    /\ faulted \subseteq Visitors

\* What the columns of one row say about each other.  A deadline of a temporary
\* re-enablement belongs to a checked-in visit only (else the cron would close
\* a later admission); an exit time is set exactly in the exited statuses; a
\* checked-in visit has an admission time or was re-enabled; a visit whose
\* visitor has not come yet has no trace of an admission.
Coherent(r) ==
    /\ r.reenable # 0 => r.status = "CHECKED_IN"
    /\ r.out <=> r.status \in Exited
    /\ r.status = "CHECKED_IN" => r.in \/ r.reenable # 0
    /\ r.status \in {"ABSENT", "SCHEDULED", "PRE_REGISTERED", "NO_SHOW"} =>
         ~r.in /\ r.ref = NoUser /\ r.sync = "null"

\* Every row is coherent at every moment, whatever handlers overwrite one
\* another (checkInVisit, checkoutVisit, temporaryReenableVisit, the crons, the
\* background syncs), as long as save compares and writes in one step.
RowsCoherent == \A v \in Visits : Coherent(row[v])

\* No sequence of handlers, stale copies and crashes, not even a save whose
\* comparison is older than its write, takes a visit that has left SCHEDULED
\* back to SCHEDULED (where its registration token would be good again).
Begun(r) == r.status \notin {"ABSENT", "SCHEDULED"}
NeverBackToScheduled == [][\A v \in Visits : Begun(row[v]) => Begun(row'[v])]_vars

\* checkedInAt survives everything, unless handlers of the visitor overlapped.
AdmissionKept ==
    [][\A v \in Visits : row[v].in /\ VisitorOf[v] \notin overlapped => row'[v].in]_vars

\* No handler is working on visitor u.
AtRest(u) == \A p \in Procs : ~Busy(p, u)
VisitsOf(u) == {v \in Visits : VisitorOf[v] = u}
Inside(u) == \E v \in VisitsOf(u) : row[v].status = "CHECKED_IN"

\* When no visit of a visitor is checked in, no BioStar server has the visitor's
\* user any more: checkoutVisit and forceSyncVisit remove all that checkInVisit
\* and temporaryReenableVisit create, if handlers do not overlap and no call fails.
Revoked(u) == AtRest(u) /\ ~Inside(u) =>
                 \A c \in Conns : UserIdOn[c, u] \notin biostar[c]
AccessRevoked == \A u \in Visitors \ (overlapped \cup faulted) : Revoked(u)

\* A visitor with one admitted visit, which is checked in and SYNCED, has a user
\* on some server, under the same conditions.
AccessGranted ==
    \A v \in Visits :
        LET u == VisitorOf[v] IN
        /\ u \notin overlapped \cup faulted /\ AtRest(u)
        /\ row[v].status = "CHECKED_IN" /\ row[v].sync = "SYNCED"
        /\ \A w \in VisitsOf(u) \ {v} : ~row[w].in
        => \E c \in Conns : UserIdOn[c, u] \in biostar[c]

\* An expired temporary re-enablement is closed in the end, by the cron
\* closeExpiredTemporaryReenablements if by nobody else, once the process has
\* stopped crashing.
StaysUp == <>[][~Crash]_vars
ReenablementEnds == StaysUp => \A v \in Visits : Expired(v) ~> ~Expired(v)

\* A visit of VisitSync seen as a visit of VisitLifecycle.
StageOf(s) == CASE s = "ABSENT"              -> "none"
                [] s = "SCHEDULED"           -> "booked"
                [] s = "PRE_REGISTERED"      -> "registered"
                [] s = "NO_SHOW"             -> "missed"
                [] s = "CHECKED_IN"          -> "inside"
                [] s = "FALSE_EXIT_REPORTED" -> "disputed"
                [] OTHER                     -> "left"

Lifecycle == INSTANCE VisitLifecycle WITH
                 stage     <- [v \in Visits |-> StageOf(row[v].status)],
                 disturbed <- {v \in Visits : VisitorOf[v] \in overlapped}

\* The handlers implement the life cycle of a visit: as long as no two of them
\* work on one visitor at a time, no order of requests, crons, device events,
\* crashes and failed calls takes a step that is not in the diagram (a dispute
\* of a visit that is not closed, a no-show of an admitted visitor, a second
\* registration), although each writes an entity it loaded several awaits ago.
FollowsLifecycle == Lifecycle!Spec

----------------------------------------------------------------------------
(* A claim of the repository that the code does not keep *)

\* visitors.service.ts:988, "un visitante solo puede tener UNA visita activa".
OneActiveVisit ==
    \A u \in Visitors : Cardinality({v \in VisitsOf(u) : row[v].status \in Active}) <= 1
=============================================================================
