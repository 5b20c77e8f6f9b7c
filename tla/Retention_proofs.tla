-------------------------- MODULE Retention_proofs --------------------------
(***************************************************************************)
(* The types of the purge, and that a purge which comes to its end leaves  *)
(* nobody behind: for any visits and visitors.                             *)
(***************************************************************************)
EXTENDS Retention, TLAPS

----------------------------------------------------------------------------
(* Types *)

OpenRows == VisitRows \cup {Unused, Purged}
Requests == {NoChange} \cup [id : Visits, of : Visitors, to : Statuses, starts : BOOLEAN]

LEMMA RowShape ==
  ASSUME NEW r \in OpenRows, r.status \in Statuses
  PROVE  r \in VisitRows
  BY DEF OpenRows, Unused, Purged, Statuses, Active, PURGEABLE_STATUSES

LEMMA OwnersAreVisitors ==
  ASSUME TypeOK, NEW v \in Visits, Row(v)
  PROVE  visit[v] \in VisitRows /\ visit[v].of \in Visitors
  BY RowShape DEF TypeOK, Row, OpenRows, VisitRows

LEMMA MovesToStatuses == \A m \in DOMAIN Moves : Moves[m].to \in Statuses
  BY DEF Moves, Statuses, Active, PURGEABLE_STATUSES

LEMMA TypeInit == Init => TypeOK
  BY RetentionAssumption
     DEF Init, TypeOK, NoPurge, NoChange, NoOne, Unused, Purged

LEMMA TypeDesk ==
  ASSUME TypeOK, NEW p \in Visitors,
         CreateOrUpdateVisitor(p) \/ ScheduleChecks(p) \/ InviteFinds(p)
  PROVE  TypeOK'
  BY DEF TypeOK, CreateOrUpdateVisitor, ScheduleChecks, InviteFinds, rows, bounds

LEMMA TypeInsert ==
  ASSUME TypeOK, NEW v \in Visits, InsertVisit(v)
  PROVE  TypeOK'
<1>1. desk \in Visitors
  BY DEF InsertVisit, TypeOK
<1>2. [of |-> desk, status |-> "SCHEDULED", old |-> FALSE] \in VisitRows
  BY <1>1 DEF VisitRows, Statuses, Active
<1>3. visit' \in [Visits -> OpenRows] /\ creds' \subseteq Visits
  <2>1. /\ visit \in [Visits -> OpenRows] /\ creds \subseteq Visits
        /\ [of |-> desk, status |-> "SCHEDULED", old |-> FALSE] \in OpenRows
    BY <1>2 DEF TypeOK, OpenRows
  <2>. QED  BY <2>1 DEF InsertVisit
<1> QED BY <1>3 DEF TypeOK, InsertVisit, bounds, OpenRows

LEMMA TypeRead ==
  ASSUME TypeOK, NEW v \in Visits, NEW m \in DOMAIN Moves, ReadVisit(v, m)
  PROVE  TypeOK'
<1>1. visit[v].of \in Visitors
  BY OwnersAreVisitors DEF ReadVisit
<1>2. staff' \in Requests
  BY <1>1, MovesToStatuses DEF ReadVisit, Requests
<1> QED BY <1>2 DEF TypeOK, ReadVisit, rows, bounds, Requests

LEMMA TypeSave ==
  ASSUME TypeOK, SaveVisit
  PROVE  TypeOK'
<1>1. staff \in [id : Visits, of : Visitors, to : Statuses, starts : BOOLEAN]
  BY DEF SaveVisit, TypeOK, NoChange
<1> DEFINE kept == ~staff.starts /\ (Row(staff.id) => visit[staff.id].old)
           r == [of |-> staff.of, status |-> staff.to, old |-> kept]
<1>2. kept \in BOOLEAN
  OBVIOUS
<1> HIDE DEF kept
<1>3. r \in VisitRows
  BY <1>1, <1>2 DEF VisitRows
<1>4. visit' = [visit EXCEPT ![staff.id] = r] \/ visit' = visit
  BY DEF SaveVisit, TypeOK, kept
<1>5. visit' \in [Visits -> OpenRows]
  BY <1>3, <1>4 DEF TypeOK, OpenRows
<1> QED BY <1>5 DEF TypeOK, SaveVisit, bounds, OpenRows

LEMMA TypeOutside ==
  ASSUME TypeOK, NEW v \in Visits, GenerateToken(v) \/ RefreshQrForPortal(v)
  PROVE  TypeOK'
<1>1. CASE GenerateToken(v)
  <2>1. links' \subseteq Visits
    BY <1>1 DEF GenerateToken, TypeOK
  <2> QED BY <1>1, <2>1 DEF TypeOK, GenerateToken, bounds
<1>2. CASE RefreshQrForPortal(v)
  <2>1. creds' \subseteq Visits /\ renewals' \in 0..MaxRenewals
    BY <1>2, RetentionAssumption DEF RefreshQrForPortal, TypeOK
  <2> QED BY <1>2, <2>1 DEF TypeOK, RefreshQrForPortal
<1> QED BY <1>1, <1>2

LEMMA TypeAge ==
  ASSUME TypeOK, NEW v \in Visits, Age(v)
  PROVE  TypeOK'
<1>1. visit[v] \in VisitRows
  BY OwnersAreVisitors DEF Age, Row, Statuses
<1>2. visit' \in [Visits -> OpenRows]
  BY <1>1 DEF Age, TypeOK, OpenRows, VisitRows
<1> QED BY <1>2 DEF TypeOK, Age, bounds, OpenRows

LEMMA TypeAbort ==
  ASSUME TypeOK, Abort, UNCHANGED <<rows, desk, staff, renewals>>, faults' \in 0..MaxFaults
  PROVE  TypeOK'
<1>1. purge' \in [pc : {"idle", "credentials", "visits", "remaining", "photos"},
                  listed : SUBSET Visits, owners : SUBSET Visitors,
                  doomed : SUBSET Visitors, unlink : SUBSET Visitors]
  BY DEF Abort, NoPurge
<1> QED BY <1>1 DEF TypeOK, rows

Purges == [pc : {"idle", "credentials", "visits", "remaining", "photos"},
           listed : SUBSET Visits, owners : SUBSET Visitors,
           doomed : SUBSET Visitors, unlink : SUBSET Visitors]

LEMMA TypeList ==
  ASSUME TypeOK, ListVisits
  PROVE  TypeOK'
<1> DEFINE listed == {v \in Visits : Purgeable(v)}
           owners == {visit[v].of : v \in listed}
<1>1. purge' = [NoPurge EXCEPT !.pc = "credentials", !.listed = listed, !.owners = owners]
  BY DEF ListVisits
<1>2. listed \in SUBSET Visits /\ owners \in SUBSET Visitors
  BY OwnersAreVisitors DEF Purgeable
<1> HIDE DEF listed, owners
<1>3. purge' \in Purges
  BY <1>1, <1>2 DEF NoPurge, Purges
<1> QED BY <1>3 DEF TypeOK, ListVisits, Purges, rows, bounds

LEMMA TypeCredentials ==
  ASSUME TypeOK, DeleteCredentials
  PROVE  TypeOK'
<1>1. purge' \in Purges /\ creds' \subseteq Visits
  BY DEF DeleteCredentials, TypeOK, Purges
<1> QED BY <1>1 DEF TypeOK, DeleteCredentials, Purges, bounds

LEMMA TypeVisits ==
  ASSUME TypeOK, DeleteVisits
  PROVE  TypeOK'
<1>1. CASE Abort /\ UNCHANGED visit
  BY <1>1, TypeAbort DEF DeleteVisits, rows, bounds, TypeOK
<1>2. CASE /\ visit' = [v \in Visits |-> IF v \in purge.listed THEN Purged ELSE visit[v]]
           /\ purge' = [purge EXCEPT !.pc = "remaining", !.listed = {}]
  <2>1. visit' \in [Visits -> OpenRows]
    BY <1>2 DEF TypeOK, OpenRows
  <2>2. purge' \in Purges
    BY <1>2 DEF TypeOK, Purges
  <2> QED BY <1>2, <2>1, <2>2 DEF TypeOK, DeleteVisits, OpenRows, Purges, bounds
<1> QED BY <1>1, <1>2 DEF DeleteVisits

LEMMA TypeRemaining ==
  ASSUME TypeOK, FindRemaining
  PROVE  TypeOK'
<1> DEFINE doomed == {p \in purge.owners : ~HasVisit(p)}
<1>1. purge' = IF doomed = {} THEN NoPurge
               ELSE [purge EXCEPT !.pc = "photos", !.doomed = doomed, !.unlink = doomed]
  BY DEF FindRemaining
<1>2. doomed \in SUBSET Visitors
  BY DEF TypeOK
<1> HIDE DEF doomed
<1>3. purge' \in Purges
  BY <1>1, <1>2 DEF NoPurge, TypeOK, Purges
<1> QED BY <1>3 DEF TypeOK, FindRemaining, Purges, rows, bounds

LEMMA TypeUnlink ==
  ASSUME TypeOK, NEW p \in Visitors, UnlinkPhoto(p)
  PROVE  TypeOK'
<1>1. purge' \in Purges
  BY DEF UnlinkPhoto, TypeOK, Purges
<1> QED BY <1>1 DEF TypeOK, UnlinkPhoto, Purges, rows, bounds

LEMMA TypeVisitors ==
  ASSUME TypeOK, DeleteVisitors
  PROVE  TypeOK'
<1>1. visitor' \in [Visitors -> {"new", "row", "gone"}]
  BY DEF DeleteVisitors, TypeOK
<1>2. purge' \in Purges
  BY DEF DeleteVisitors, NoPurge, Purges
<1> QED BY <1>1, <1>2 DEF TypeOK, DeleteVisitors, Purges, bounds

LEMMA TypeFails ==
  ASSUME TypeOK, PurgeFails
  PROVE  TypeOK'
<1>1. faults' \in 0..MaxFaults
  BY RetentionAssumption DEF PurgeFails, TypeOK
<1> QED BY <1>1, TypeAbort DEF PurgeFails

----------------------------------------------------------------------------
(* The specification *)

LEMMA TypeStep == TypeOK /\ [Next]_vars => TypeOK'
<1> SUFFICES ASSUME TypeOK, [Next]_vars PROVE TypeOK'
  OBVIOUS
<1>1. ASSUME NEW p \in Visitors, CreateOrUpdateVisitor(p) PROVE TypeOK'
  BY <1>1, TypeDesk
<1>2. ASSUME NEW p \in Visitors, ScheduleChecks(p) \/ InviteFinds(p) PROVE TypeOK'
  BY <1>2, TypeDesk
<1>3. ASSUME NEW v \in Visits, InsertVisit(v) PROVE TypeOK'
  BY <1>3, TypeInsert
<1>4. ASSUME NEW v \in Visits, GenerateToken(v) \/ RefreshQrForPortal(v) PROVE TypeOK'
  BY <1>4, TypeOutside
<1>5. ASSUME NEW v \in Visits, Age(v) PROVE TypeOK'
  BY <1>5, TypeAge
<1>6. ASSUME NEW v \in Visits, NEW m \in DOMAIN Moves, ReadVisit(v, m) PROVE TypeOK'
  BY <1>6, TypeRead
<1>7. CASE SaveVisit
  BY <1>7, TypeSave
<1>8. CASE PurgeFails
  BY <1>8, TypeFails
<1>9. CASE ListVisits
  BY <1>9, TypeList
<1>10. CASE DeleteCredentials
  BY <1>10, TypeCredentials
<1>11. CASE DeleteVisits
  BY <1>11, TypeVisits
<1>12. CASE FindRemaining
  BY <1>12, TypeRemaining
<1>13. ASSUME NEW p \in Visitors, UnlinkPhoto(p) PROVE TypeOK'
  BY <1>13, TypeUnlink
<1>14. CASE DeleteVisitors
  BY <1>14, TypeVisitors
<1>15. CASE UNCHANGED vars
  BY <1>15 DEF vars, rows, bounds, TypeOK
<1> QED
  BY <1>1, <1>2, <1>3, <1>4, <1>5, <1>6, <1>7, <1>8, <1>9, <1>10, <1>11, <1>12, <1>13,
     <1>14, <1>15
  DEF Next, PurgeStep

\* The types of the rows, of the purge's local variables and of the requests
\* under way (the entities of data-retention.service.ts and its callers).
THEOREM TypesOfRetention == Spec => []TypeOK
  BY TypeInit, TypeStep, PTL DEF Spec

----------------------------------------------------------------------------
(* A purge that comes to its end leaves nobody behind *)

\* A visit that is about to be saved is gone or still its visitor's.
SavesOwn == staff.to # "none" =>
                \/ visit[staff.id] = Purged
                \/ Row(staff.id) /\ visit[staff.id].of = staff.of

\* While a purge takes photos, the owners it spares have a visit.
SparedHaveVisit == PurgeAt("photos") => \A p \in purge.owners \ purge.doomed : HasVisit(p)

ThoroughInv == TypeOK /\ SavesOwn /\ SparedHaveVisit

LEMMA NoRowIsUnused == ~(Unused.status \in Statuses) /\ ~(Purged.status \in Statuses) /\ Unused # Purged
  BY DEF Unused, Purged, Statuses, Active, PURGEABLE_STATUSES

\* Steps that leave the visits, the change under way and the purge alone.
LEMMA ThoroughKept ==
  ASSUME SavesOwn, SparedHaveVisit, UNCHANGED <<visit, staff, purge>>
  PROVE  SavesOwn' /\ SparedHaveVisit'
  BY DEF SavesOwn, SparedHaveVisit, PurgeAt, HasVisit, Row

\* Steps that give a visit to a visitor, or leave it to him.
LEMMA VisitsStay ==
  ASSUME SparedHaveVisit, purge' = purge,
         \A v \in Visits : Row(v) => Row(v)' /\ visit'[v].of = visit[v].of
  PROVE  SparedHaveVisit'
  BY DEF SparedHaveVisit, PurgeAt, HasVisit

LEMMA ThoroughRequests ==
  ASSUME ThoroughInv, NEW v \in Visits,
         InsertVisit(v) \/ Age(v) \/ \E m \in DOMAIN Moves : ReadVisit(v, m)
  PROVE  SavesOwn' /\ SparedHaveVisit'
<1>0. SavesOwn /\ SparedHaveVisit /\ TypeOK
  BY DEF ThoroughInv
<1>1. CASE InsertVisit(v)
  <2>1. /\ purge' = purge /\ staff' = staff
        /\ \A u \in Visits \ {v} : visit'[u] = visit[u]
        /\ visit'[v] = visit[v] \/ visit[v] = Unused
    BY <1>0, <1>1 DEF InsertVisit, TypeOK
  <2>2. \A u \in Visits : Row(u) \/ visit[u] = Purged => visit'[u] = visit[u]
    BY <2>1, NoRowIsUnused DEF Row
  <2>3. staff.to # "none" => staff.id \in Visits
    BY <1>0 DEF TypeOK, NoChange
  <2>4. SavesOwn'
    BY <1>0, <2>1, <2>2, <2>3 DEF SavesOwn, Row
  <2>5. SparedHaveVisit'
    BY <1>0, <2>1, <2>2, VisitsStay DEF Row
  <2> QED BY <2>4, <2>5
<1>2. CASE Age(v)
  <2>1. /\ purge' = purge /\ staff' = staff
        /\ visit' = [visit EXCEPT ![v].old = TRUE]
        /\ visit[v].status \in PURGEABLE_STATUSES
    BY <1>2 DEF Age
  <2>2. Row(v)
    BY <2>1 DEF Row, Statuses
  <2>3. visit[v] \in VisitRows
    BY <1>0, <2>2, OwnersAreVisitors
  <2>4. /\ visit'[v].status = visit[v].status /\ visit'[v].of = visit[v].of
        /\ \A u \in Visits \ {v} : visit'[u] = visit[u]
    BY <1>0, <2>1, <2>3 DEF TypeOK, VisitRows
  <2>5. visit[v] # Purged
    BY <2>2, NoRowIsUnused DEF Row
  <2>6. staff.to # "none" => staff.id \in Visits
    BY <1>0 DEF TypeOK, NoChange
  <2>7. SavesOwn'
    BY <1>0, <2>1, <2>4, <2>5, <2>6 DEF SavesOwn, Row
  <2>8. SparedHaveVisit'
    BY <1>0, <2>1, <2>4, VisitsStay DEF Row
  <2> QED BY <2>7, <2>8
<1>3. ASSUME NEW m \in DOMAIN Moves, ReadVisit(v, m) PROVE SavesOwn' /\ SparedHaveVisit'
  <2>1. /\ visit' = visit /\ purge' = purge /\ Row(v)
        /\ staff'.id = v /\ staff'.of = visit[v].of
    BY <1>3 DEF ReadVisit, rows
  <2> QED BY <1>0, <2>1 DEF SavesOwn, SparedHaveVisit, PurgeAt, HasVisit, Row
<1> QED BY <1>1, <1>2, <1>3

LEMMA ThoroughSave ==
  ASSUME ThoroughInv, SaveVisit
  PROVE  SavesOwn' /\ SparedHaveVisit'
<1>0. SavesOwn /\ SparedHaveVisit /\ TypeOK
  BY DEF ThoroughInv
<1>1. SavesOwn'
  BY DEF SavesOwn, SaveVisit, NoChange
<1>2. staff.id \in Visits /\ staff.to \in Statuses
  BY <1>0 DEF SaveVisit, TypeOK, NoChange
<1>3. Row(staff.id) => visit[staff.id].of = staff.of
  BY <1>0, NoRowIsUnused DEF SavesOwn, SaveVisit, Row
<1>4. /\ \A v \in Visits \ {staff.id} : visit'[v] = visit[v]
      /\ \/ visit'[staff.id] = visit[staff.id]
         \/ visit'[staff.id].of = staff.of /\ visit'[staff.id].status = staff.to
  BY <1>0, <1>2 DEF SaveVisit, TypeOK
<1>5. \A v \in Visits : Row(v) => Row(v)' /\ visit'[v].of = visit[v].of
  BY <1>2, <1>3, <1>4 DEF Row
<1> QED BY <1>0, <1>1, <1>5, VisitsStay DEF SaveVisit

LEMMA ThoroughPurge ==
  ASSUME ThoroughInv, PurgeStep \/ PurgeFails
  PROVE  SavesOwn' /\ SparedHaveVisit'
<1>0. SavesOwn /\ SparedHaveVisit /\ TypeOK /\ staff' = staff
  BY DEF ThoroughInv, PurgeStep, PurgeFails, ListVisits, DeleteCredentials,
         DeleteVisits, FindRemaining, UnlinkPhoto, DeleteVisitors
<1>1. SavesOwn'
  <2>1. CASE visit' = visit
    BY <1>0, <2>1 DEF SavesOwn, Row
  <2>2. CASE visit' = [v \in Visits |-> IF v \in purge.listed THEN Purged ELSE visit[v]]
    <3>1. staff.to # "none" => staff.id \in Visits
      BY <1>0 DEF TypeOK, NoChange
    <3> QED BY <1>0, <2>2, <3>1 DEF SavesOwn, Row
  <2> QED
    BY <2>1, <2>2 DEF PurgeStep, PurgeFails, ListVisits, DeleteCredentials, DeleteVisits,
                      FindRemaining, UnlinkPhoto, DeleteVisitors, rows
<1>2. Abort => purge'.pc # "photos"
  BY DEF Abort, NoPurge
<1>3. CASE ListVisits \/ DeleteCredentials \/ DeleteVisits \/ DeleteVisitors \/ PurgeFails
  <2>1. purge'.pc # "photos"
    <3>1. CASE ListVisits
      BY <3>1 DEF ListVisits, NoPurge
    <3>2. CASE DeleteCredentials \/ DeleteVisits
      BY <1>0, <1>2, <3>2 DEF DeleteCredentials, DeleteVisits, TypeOK
    <3>3. CASE DeleteVisitors \/ PurgeFails
      BY <1>2, <3>3 DEF DeleteVisitors, PurgeFails, NoPurge
    <3> QED BY <1>3, <3>1, <3>2, <3>3
  <2> QED BY <1>1, <2>1 DEF SparedHaveVisit, PurgeAt
<1>4. CASE FindRemaining
  <2> DEFINE doomed == {p \in purge.owners : ~HasVisit(p)}
  <2>1. purge' = IF doomed = {} THEN NoPurge
                 ELSE [purge EXCEPT !.pc = "photos", !.doomed = doomed, !.unlink = doomed]
    BY <1>4 DEF FindRemaining
  <2>2. \A p \in purge.owners \ doomed : HasVisit(p)
    OBVIOUS
  <2>3. visit' = visit
    BY <1>4 DEF FindRemaining, rows
  <2> HIDE DEF doomed
  <2>4. purge'.pc = "photos" => purge'.owners = purge.owners /\ purge'.doomed = doomed
    BY <1>0, <2>1 DEF NoPurge, TypeOK
  <2> QED BY <1>1, <2>2, <2>3, <2>4 DEF SparedHaveVisit, PurgeAt, HasVisit, Row
<1>5. ASSUME NEW p \in Visitors, UnlinkPhoto(p) PROVE SparedHaveVisit'
  <2>1. /\ visit' = visit /\ purge'.pc = purge.pc
        /\ purge'.owners = purge.owners /\ purge'.doomed = purge.doomed
    BY <1>0, <1>5 DEF UnlinkPhoto, TypeOK, rows
  <2> QED BY <1>0, <2>1 DEF SparedHaveVisit, PurgeAt, HasVisit, Row
<1> QED BY <1>1, <1>3, <1>4, <1>5 DEF PurgeStep

LEMMA ThoroughStep == ThoroughInv /\ [Next]_vars => ThoroughInv'
<1> SUFFICES ASSUME ThoroughInv, [Next]_vars PROVE SavesOwn' /\ SparedHaveVisit'
  BY TypeStep DEF ThoroughInv
<1>0. SavesOwn /\ SparedHaveVisit
  BY DEF ThoroughInv
<1>1. ASSUME NEW p \in Visitors, CreateOrUpdateVisitor(p) \/ ScheduleChecks(p) \/ InviteFinds(p)
      PROVE  UNCHANGED <<visit, staff, purge>>
  BY <1>1 DEF CreateOrUpdateVisitor, ScheduleChecks, InviteFinds, rows
<1>2. ASSUME NEW v \in Visits, GenerateToken(v) \/ RefreshQrForPortal(v)
      PROVE  UNCHANGED <<visit, staff, purge>>
  BY <1>2 DEF GenerateToken, RefreshQrForPortal
<1>3. UNCHANGED vars => UNCHANGED <<visit, staff, purge>>
  BY DEF vars, rows
<1> QED
  BY <1>0, <1>1, <1>2, <1>3, ThoroughKept, ThoroughRequests, ThoroughSave, ThoroughPurge DEF Next

LEMMA EndIsThorough ==
  ASSUME ThoroughInv, [Next]_vars, PurgeEnds
  PROVE  \A p \in purge.owners : visitor'[p] = "gone" \/ HasVisit(p)'
<1>0. SparedHaveVisit /\ TypeOK
  BY DEF ThoroughInv
<1>1. purge' # purge /\ faults' = faults /\ purge.pc # "visits" /\ purge'.pc = "idle"
  BY DEF PurgeEnds, PurgeAt
<1>2. FindRemaining \/ DeleteVisitors
  <2>1. ~PurgeFails
    BY <1>0, <1>1, RetentionAssumption DEF PurgeFails, TypeOK
  <2>2. ~ListVisits /\ ~DeleteCredentials /\ ~DeleteVisits
    BY <1>0, <1>1 DEF ListVisits, DeleteCredentials, DeleteVisits, NoPurge, PurgeAt, TypeOK
  <2>3. \A p \in Visitors : ~UnlinkPhoto(p)
    BY <1>0, <1>1 DEF UnlinkPhoto, PurgeAt, TypeOK
  <2>4. PurgeStep
    BY <1>1, <2>1
       DEF Next, vars, CreateOrUpdateVisitor, ScheduleChecks, InviteFinds, InsertVisit, GenerateToken,
           RefreshQrForPortal, Age, ReadVisit, SaveVisit
  <2> QED BY <2>2, <2>3, <2>4 DEF PurgeStep
<1>3. visit' = visit
  BY <1>2 DEF FindRemaining, DeleteVisitors, rows
<1>4. \A p : HasVisit(p) => HasVisit(p)'
  BY <1>3 DEF HasVisit, Row
<1>5. CASE FindRemaining
  <2> DEFINE doomed == {p \in purge.owners : ~HasVisit(p)}
  <2>1. doomed # {} => purge' = [purge EXCEPT !.pc = "photos", !.doomed = doomed, !.unlink = doomed]
    BY <1>5 DEF FindRemaining
  <2>2. doomed # {} => purge'.pc = "photos"
    BY <1>0, <2>1 DEF TypeOK
  <2>3. doomed = {}
    BY <1>1, <2>2
  <2> QED BY <1>4, <2>3
<1>6. CASE DeleteVisitors
  <2>1. /\ PurgeAt("photos")
        /\ visitor' = [p \in Visitors |-> IF p \in purge.doomed THEN "gone" ELSE visitor[p]]
    BY <1>6 DEF DeleteVisitors, PurgeEnds
  <2>2. purge.owners \subseteq Visitors
    BY <1>0 DEF TypeOK
  <2> QED BY <1>0, <1>4, <2>1, <2>2 DEF SparedHaveVisit
<1> QED BY <1>2, <1>5, <1>6

\* When a purge comes to its end, each owner of the visits it deleted is gone or
\* has a visit (data-retention.service.ts 141-173), whatever requests book,
\* save or close in between, for any number of visits and visitors.
THEOREM PurgesAreThorough == Spec => PurgeIsThorough
<1>1. Init => ThoroughInv
  BY TypeInit
     DEF Init, ThoroughInv, SavesOwn, SparedHaveVisit, PurgeAt, NoPurge, NoChange
<1>2. ThoroughInv /\ [Next]_vars =>
        [PurgeEnds => \A p \in purge.owners : visitor'[p] = "gone" \/ HasVisit(p)']_vars
  BY EndIsThorough
<1> QED BY <1>1, <1>2, ThoroughStep, PTL DEF Spec, PurgeIsThorough
=============================================================================
