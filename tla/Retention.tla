----------------------------- MODULE Retention -----------------------------
(***************************************************************************)
(* data-retention.service.ts: the purge that deletes old closed visits and *)
(* the visitors left without any, one awaited query after another, while   *)
(* reception, hosts and visitors go on using the same rows.  Ids are never *)
(* reused, the database keeps its foreign keys, and a retention period is  *)
(* either over for a visit or not.                                         *)
(***************************************************************************)
EXTENDS FiniteSets, Naturals

CONSTANTS
    Visits,      \* ids of visits, handed out in order
    Visitors,    \* ids of visitors, handed out in order
    Held,        \* visitors whom a row of blacklist or visitor_documents names: tables
                 \* of the schema that no code of the backend writes
    MaxRenewals, \* bound: QR codes renewed from the portal
    MaxFaults    \* bound: restarts of the backend and failed queries

ASSUME RetentionAssumption ==
    /\ Visits \subseteq Nat /\ Visitors \subseteq Nat \ {0} /\ Held \subseteq Visitors
    /\ MaxRenewals \in Nat /\ MaxFaults \in Nat

\* SCHEDULED stands for PRE_REGISTERED too: nothing here tells them apart.
Active == {"SCHEDULED", "CHECKED_IN"}
PURGEABLE_STATUSES == {"CHECKED_OUT", "NO_SHOW"}  \* nothing sets CANCELLED
Statuses == Active \cup PURGEABLE_STATUSES

Unused == [status |-> "unused"]   \* an id no row has had
Purged == [status |-> "purged"]
NoOne == 0
VisitRows == [of : Visitors, status : Statuses, old : BOOLEAN]

VARIABLES
    visit,     \* the table visits; old: scheduledAt is before the threshold
    visitor,   \* a visitor is "new", has a "row", or is "gone"
    photos,    \* visitors with a file in uploads/photos
    creds,     \* visits with rows in access_credentials
    links,     \* visits with rows in pre_registrations
    purge,     \* runPurge under way: where it is and its local variables
    desk,      \* the insertion of a visit under way, for whom
    staff,     \* the change of a visit under way: the entity read and the change
    renewals, faults

rows == <<visit, visitor, photos, creds, links>>
bounds == <<renewals, faults>>
vars == <<rows, purge, desk, staff, bounds>>

Row(v) == visit[v].status \in Statuses
Registrable(p) ==
    \/ visitor[p] = "row"
    \/ visitor[p] = "new" /\ \A q \in Visitors : q < p => visitor[q] # "new"
HasVisit(p) == \E v \in Visits : Row(v) /\ visit[v].of = p
VisitIn(p, S) == \E v \in Visits : Row(v) /\ visit[v].of = p /\ visit[v].status \in S
Purgeable(v) == Row(v) /\ visit[v].status \in PURGEABLE_STATUSES /\ visit[v].old

NoPurge == [pc |-> "idle", listed |-> {}, owners |-> {}, doomed |-> {}, unlink |-> {}]
NoChange == [to |-> "none"]

----------------------------------------------------------------------------
(* Reception, hosts and visitors; one request at a time is caught between its *)
(* read and its write *)

NoRequest == desk = NoOne /\ staff.to = "none"

\* createOrUpdateVisitor: a new visitor with his photo, or a new photo of a
\* known one.
CreateOrUpdateVisitor(p) ==
    /\ Registrable(p)
    /\ visitor' = [visitor EXCEPT ![p] = "row"]
    /\ photos' = photos \cup {p}
    /\ UNCHANGED <<visit, creds, links, purge, desk, staff, bounds>>

\* scheduleVisit up to its transaction.
ScheduleChecks(p) ==
    /\ NoRequest
    /\ visitor[p] = "row"
    /\ ~VisitIn(p, Active)
    /\ desk' = p
    /\ UNCHANGED <<rows, purge, staff, bounds>>

\* inviteVisitors finds the visitor or creates a placeholder; it does not
\* look for an active visit.
InviteFinds(p) ==
    /\ NoRequest
    /\ Registrable(p)
    /\ visitor' = [visitor EXCEPT ![p] = "row"]
    /\ desk' = p
    /\ UNCHANGED <<visit, photos, creds, links, purge, staff, bounds>>

\* The visit is inserted, with credentials or without; if the visitor is gone
\* by then the database refuses.
InsertVisit(v) ==
    /\ desk # NoOne
    /\ IF visitor[desk] = "row"
       THEN /\ visit[v] = Unused /\ \A u \in Visits : u < v => visit[u] # Unused
            /\ visit' = [visit EXCEPT ![v] = [of |-> desk, status |-> "SCHEDULED", old |-> FALSE]]
            /\ creds' \in {creds, creds \cup {v}}
       ELSE UNCHANGED <<visit, creds>>
    /\ desk' = NoOne
    /\ UNCHANGED <<visitor, photos, links, purge, staff, bounds>>

\* Mutant for TypeOK: a visitor who does not come cancels the visit.
MovesToCancelled ==
         [ CheckIn      |-> [from |-> Statuses \ {"CHECKED_IN"}, to |-> "CHECKED_IN"],
           CheckOut     |-> [from |-> Statuses \ {"CHECKED_OUT"}, to |-> "CHECKED_OUT"],
           NoShow       |-> [from |-> {"SCHEDULED"}, to |-> "CANCELLED"] ]

\* What the handlers that move a visit accept and what they make of it.
Moves == [ CheckIn      |-> [from |-> Statuses \ {"CHECKED_IN"}, to |-> "CHECKED_IN"],
           CheckOut     |-> [from |-> Statuses \ {"CHECKED_OUT"}, to |-> "CHECKED_OUT"],
           NoShow       |-> [from |-> {"SCHEDULED"}, to |-> "NO_SHOW"] ]

\* Every one of them reads the visit, awaits, and saves the entity.
ReadVisit(v, m) ==
    /\ NoRequest
    /\ Row(v) /\ visit[v].status \in Moves[m].from
    /\ staff' = [id |-> v, of |-> visit[v].of, to |-> Moves[m].to,
                 starts |-> m = "CheckIn"]  \* scheduledAt = now
    /\ UNCHANGED <<rows, purge, desk, bounds>>

\* save() updates the row, and inserts it again if a purge has deleted it.
SaveVisit ==
    /\ staff.to # "none"
    /\ IF Row(staff.id) \/ visitor[staff.of] = "row"
       THEN visit' = [visit EXCEPT ![staff.id] =
                        [of |-> staff.of, status |-> staff.to,
                         old |-> ~staff.starts /\ (Row(staff.id) => @.old)]]
       ELSE UNCHANGED visit
    /\ staff' = NoChange
    /\ UNCHANGED <<visitor, photos, creds, links, purge, desk, bounds>>

\* generateToken of pre-registration.service.ts.
GenerateToken(v) ==
    /\ Row(v) /\ visit[v].status = "SCHEDULED"
    /\ links' = links \cup {v}
    /\ UNCHANGED <<visit, visitor, photos, creds, purge, desk, staff, bounds>>

\* refreshQrForPortal asks for no status: a closed visit gets a new QR too.
RefreshQrForPortal(v) ==
    /\ renewals < MaxRenewals
    /\ Row(v)
    /\ renewals' = renewals + 1
    /\ creds' = creds \cup {v}
    /\ UNCHANGED <<visit, visitor, photos, links, purge, desk, staff, faults>>

\* The threshold passes scheduledAt; of a visit that is not closed this shows
\* only when it is, and waits until then.
Age(v) ==
    /\ visit[v].status \in PURGEABLE_STATUSES /\ ~visit[v].old
    /\ visit' = [visit EXCEPT ![v].old = TRUE]
    /\ UNCHANGED <<visitor, photos, creds, links, purge, desk, staff, bounds>>

----------------------------------------------------------------------------
(* runPurge *)

PurgeAt(pc) == purge.pc = pc

Abort == purge' = NoPurge

\* 1. The old visits in a final status.
ListVisits ==
    /\ PurgeAt("idle")
    /\ LET listed == {v \in Visits : Purgeable(v)} IN
        /\ listed # {}
        /\ purge' = [NoPurge EXCEPT !.pc = "credentials", !.listed = listed,
                                    !.owners = {visit[v].of : v \in listed}]
    /\ UNCHANGED <<rows, desk, staff, bounds>>

\* Mutant for OldVisitsGo: the credentials are left to the database.
KeepCredentials ==
    /\ PurgeAt("credentials")
    /\ purge' = [purge EXCEPT !.pc = "visits"]
    /\ UNCHANGED <<rows, desk, staff, bounds>>

\* 2. Their credentials.
DeleteCredentials ==
    /\ PurgeAt("credentials")
    /\ creds' = creds \ purge.listed
    /\ purge' = [purge EXCEPT !.pc = "visits"]
    /\ UNCHANGED <<visit, visitor, photos, links, desk, staff, bounds>>

\* 3. The visits, all or none, whatever their status is by now.
DeleteVisits ==
    /\ PurgeAt("visits")
    /\ IF purge.listed \cap (links \cup creds) = {}
       THEN /\ visit' = [v \in Visits |-> IF v \in purge.listed THEN Purged ELSE visit[v]]
            /\ purge' = [purge EXCEPT !.pc = "remaining", !.listed = {}]
       ELSE Abort /\ UNCHANGED visit
    /\ UNCHANGED <<visitor, photos, creds, links, desk, staff, bounds>>

\* Mutant for PurgeIsThorough: a visitor without a photo is skipped.
FindRemainingPhotos ==
    /\ PurgeAt("remaining")
    /\ LET doomed == {p \in purge.owners : ~HasVisit(p) /\ p \in photos} IN
        purge' = IF doomed = {} THEN NoPurge
                 ELSE [purge EXCEPT !.pc = "photos", !.doomed = doomed, !.unlink = doomed]
    /\ UNCHANGED <<rows, desk, staff, bounds>>

\* 4. The visitors without visits left.
FindRemaining ==
    /\ PurgeAt("remaining")
    /\ LET doomed == {p \in purge.owners : ~HasVisit(p)} IN
        purge' = IF doomed = {} THEN NoPurge
                 ELSE [purge EXCEPT !.pc = "photos", !.doomed = doomed, !.unlink = doomed]
    /\ UNCHANGED <<rows, desk, staff, bounds>>

\* Their photos, one visitor's after another's: each is looked for in uploads,
\* where none is (saveVisitorPhoto writes to uploads/photos), and none removed.
UnlinkPhoto(p) ==
    /\ PurgeAt("photos")
    /\ p \in purge.unlink
    /\ purge' = [purge EXCEPT !.unlink = @ \ {p}]
    /\ UNCHANGED <<rows, desk, staff, bounds>>

\* And the visitors themselves, all or none: visits and the tables that hold
\* visitors refuse.
Refused == \E p \in purge.doomed : HasVisit(p) \/ p \in Held
DeleteVisitors ==
    /\ PurgeAt("photos")
    /\ purge.unlink = {}
    /\ visitor' = IF Refused THEN visitor
                  ELSE [p \in Visitors |-> IF p \in purge.doomed THEN "gone" ELSE visitor[p]]
    /\ purge' = NoPurge
    /\ UNCHANGED <<visit, photos, creds, links, desk, staff, bounds>>

\* A query fails (runPurge throws, scheduledPurge logs it) or the backend
\* restarts.
PurgeFails ==
    /\ faults < MaxFaults
    /\ ~PurgeAt("idle")
    /\ faults' = faults + 1
    /\ Abort
    /\ UNCHANGED <<rows, desk, staff, renewals>>

PurgeStep ==
    \/ ListVisits \/ DeleteCredentials \/ DeleteVisits \/ FindRemaining
    \/ (\E p \in Visitors : UnlinkPhoto(p)) \/ DeleteVisitors

----------------------------------------------------------------------------

Init ==
    /\ visit = [v \in Visits |-> Unused]
    /\ visitor = [p \in Visitors |-> "new"]
    /\ photos = {} /\ creds = {} /\ links = {}
    /\ purge = NoPurge /\ desk = NoOne /\ staff = NoChange
    /\ renewals = 0 /\ faults = 0

Next ==
    \/ \E p \in Visitors : CreateOrUpdateVisitor(p) \/ ScheduleChecks(p) \/ InviteFinds(p)
    \/ \E v \in Visits : \/ InsertVisit(v) \/ GenerateToken(v) \/ RefreshQrForPortal(v)
                         \/ Age(v)
                         \/ \E m \in DOMAIN Moves : ReadVisit(v, m)
    \/ SaveVisit \/ PurgeFails \/ PurgeStep

Spec == Init /\ [][Next]_vars

\* scheduledPurge comes back every night, and a purge goes on by itself.
FairSpec == Spec /\ WF_vars(PurgeStep)

----------------------------------------------------------------------------
(* Properties *)

TypeOK ==
    /\ visit \in [Visits -> VisitRows \cup {Unused, Purged}]
    /\ visitor \in [Visitors -> {"new", "row", "gone"}]
    /\ photos \subseteq Visitors
    /\ creds \subseteq Visits /\ links \subseteq Visits
    /\ purge \in [pc : {"idle", "credentials", "visits", "remaining", "photos"},
                  listed : SUBSET Visits, owners : SUBSET Visitors,
                  doomed : SUBSET Visitors, unlink : SUBSET Visitors]
    /\ desk \in Visitors \cup {NoOne}
    /\ staff \in {NoChange} \cup [id : Visits, of : Visitors, to : Statuses, starts : BOOLEAN]
    /\ renewals \in 0..MaxRenewals /\ faults \in 0..MaxFaults

\* When a purge comes to its end, each owner of the visits it deleted is gone
\* or has a visit: nobody is left behind with his data and no visit, so that no
\* later purge would find him (lines 141-173; a purge that is cut short does
\* leave such visitors).
PurgeEnds ==
    /\ ~PurgeAt("idle") /\ PurgeAt("idle")'
    /\ UNCHANGED faults                            \* not cut short
    /\ purge.pc # "visits"                         \* nor refused, by a credential,
    /\ ~Refused                                    \* a link, a new visit or a table
                                                   \* that holds visitors
PurgeIsThorough ==
    [][PurgeEnds => \A p \in purge.owners : visitor'[p] = "gone" \/ HasVisit(p)']_vars

\* A closed visit past its retention goes in the end; only a closed visit with
\* a pre-registration link holds the purge up, its own and everyone else's
\* (lines 131-139 against the foreign key of pre_registrations).
OldVisitsGo ==
    \A v \in Visits : (<>[]Purgeable(v)) => []<>(\E w \in Visits : Purgeable(w) /\ w \in links)
=============================================================================
