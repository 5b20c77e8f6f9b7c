-------------------------- MODULE VisitSync_proofs --------------------------
(***************************************************************************)
(* Proofs about VisitSync, for any visits, visitors, handlers, connections *)
(* and bounds: its types, RowsCoherent when save compares and writes in    *)
(* one step, and NeverBackToScheduled even when it does so in two; that it *)
(* implements VisitLifecycle, with saves that compare early; and, from the *)
(* same invariant, that admissions are kept and, with an account of the    *)
(* BioStar users, that access is revoked and, from the trail an admission  *)
(* leaves, that it is granted.                                             *)
(***************************************************************************)
EXTENDS VisitSync, WellFoundedInduction, TLAPS

\* A connection is there to be called first as long as one is left.
LEMMA FirstInSet == ASSUME NEW S \in SUBSET Conns, S # {} PROVE First(S) \in S
<1> DEFINE Less == {ss \in Nat \X Nat : ss[1] < ss[2]}
<1>1. IsWellFoundedOn(Less, Nat)
  BY NatLessThanWellFounded DEF OpToRel
<1>2. S \subseteq Nat
  BY ConstantsAssumption DEF Conns
<1>3. PICK c \in S : \A d \in S : <<d, c>> \notin Less
  <2> HIDE DEF Less
  <2>. QED  BY <1>1, <1>2, WFMin, Zenon
<1>4. ASSUME NEW d \in S PROVE c <= d
  <2>1. c \in Nat /\ d \in Nat
    BY <1>2
  <2>2. ~(d < c)
    BY <1>3, <2>1
  <2>. QED  BY <2>1, <2>2
<1>. QED  BY <1>4 DEF First

(***************************************************************************)
(* Types.  What a handler may be at each program counter: it has a visit   *)
(* wherever it works on one, and a connection left in the loops.           *)
(***************************************************************************)
Editing == {"save", "resolve", "sync", "delete"}
HandlerOK(x) ==
    /\ x \in Handlers
    /\ x.pc \in Editing \cup {"insert", "link", "recheck", "mail"} => x.visit \in Visits
    /\ x.pc \in {"sync", "delete"} => x.conns # {}

TypeInv == TypeOK /\ \A p \in Procs : HandlerOK(h[p])

LEMMA IdleOK == HandlerOK(Idle) /\ NoRow \in Rows
BY ConstantsAssumption DEF HandlerOK, Handlers, Idle, NoRow, Rows, Statuses, SyncStatuses, Editing

LEMMA ToSaveOK ==
    ASSUME NEW x \in Handlers, NEW v \in Visits, NEW e \in Rows,
           NEW t \in {"done", "sync", "checkout", "force", "pending"}
    PROVE  HandlerOK(ToSave(x, v, e, t))
BY IdleOK DEF ToSave, HandlerOK, Handlers, Editing

LEMMA DoneOK == ASSUME NEW x \in Handlers, x.visit \in Visits PROVE HandlerOK(Done(x))
<1>1. CASE x.exit
  <2>1. [x EXCEPT !.pc = "mail", !.copy = NoRow, !.seen = NoRow,
                  !.then = "done", !.last = NoUser] \in Handlers
    BY IdleOK DEF Handlers
  <2>. QED  BY <1>1, <2>1 DEF Done, HandlerOK, Handlers, Editing
<1>2. CASE ~x.exit /\ x.todo # {}
  <2>1. [Idle EXCEPT !.pc = "sweep", !.todo = x.todo] \in Handlers
    BY IdleOK DEF HandlerOK, Handlers
  <2>. QED  BY <1>2, <2>1, IdleOK DEF Done, HandlerOK, Idle, Editing
<1>3. CASE ~x.exit /\ x.todo = {}
  BY <1>3, IdleOK DEF Done
<1>. QED  BY <1>1, <1>2, <1>3

LEMMA AfterSyncOK == ASSUME NEW x \in Handlers, x.visit \in Visits PROVE HandlerOK(AfterSync(x))
<1>1. [x.copy EXCEPT !.ref = x.last, !.sync = "SYNCED"] \in Rows
  BY DEF Handlers, Rows, SyncStatuses
<1>2. [x.copy EXCEPT !.sync = "PENDING"] \in Rows
  BY DEF Handlers, Rows, SyncStatuses
<1>. QED  BY <1>1, <1>2, ToSaveOK DEF AfterSync

LEMMA AfterDeleteOK == ASSUME NEW x \in Handlers, x.visit \in Visits PROVE HandlerOK(AfterDelete(x))
<1>1. [x.copy EXCEPT !.ref = NoUser] \in Rows
  BY DEF Handlers, Rows, SyncStatuses
<1>2. [x.copy EXCEPT !.ref = NoUser, !.sync = "null"] \in Rows
  BY DEF Handlers, Rows, SyncStatuses
<1>. QED  BY <1>1, <1>2, ToSaveOK DEF AfterDelete

LEMMA AfterSaveOK == ASSUME NEW x \in Handlers, x.visit \in Visits PROVE HandlerOK(AfterSave(x))
<1>1. [x.copy EXCEPT !.sync = "PENDING"] \in Rows
  BY DEF Handlers, Rows, SyncStatuses
<1>2. CASE x.then = "done"
  BY <1>2, DoneOK DEF AfterSave
<1>3. CASE x.then = "pending"
  BY <1>1, <1>3, ToSaveOK DEF AfterSave
<1>4. CASE x.then \notin {"done", "pending"}
  <2>1. AfterSave(x) = [x EXCEPT !.pc = "resolve", !.seen = NoRow]
    BY <1>4 DEF AfterSave
  <2>. QED  BY <2>1, IdleOK DEF HandlerOK, Handlers, Editing
<1>. QED  BY <1>2, <1>3, <1>4

LEMMA MergeOK ==
    ASSUME NEW n \in Rows, NEW b \in Rows, NEW o \in Rows
    PROVE  Merge(n, b, o) \in Rows
BY DEF Merge, Pick, Rows

\* The state after one handler changed, its row or nothing else.
LEMMA HandlerStep ==
    ASSUME TypeInv, NEW p \in Procs, NEW x, HandlerOK(x), h' = [h EXCEPT ![p] = x]
    PROVE  h' \in [Procs -> Handlers] /\ \A q \in Procs : HandlerOK(h'[q])
<1>1. x \in Handlers
  BY DEF HandlerOK
<1>. QED  BY <1>1 DEF TypeInv, TypeOK

LEMMA EnterOK ==
    ASSUME TypeInv, NEW p \in Procs, NEW v \in Visits, Enter(p, v)
    PROVE  overlapped' \subseteq Visitors /\ UNCHANGED <<db, faulted>>
BY ConstantsAssumption DEF TypeInv, TypeOK, Enter

LEMMA LoadOK ==
    ASSUME TypeInv, NEW p \in Procs, NEW v \in Visits, NEW e \in Rows,
           NEW t \in {"done", "sync", "checkout", "force", "pending"}, Load(p, v, e, t)
    PROVE  TypeInv'
<1>1. HandlerOK(ToSave(h[p], v, e, t))
  BY ToSaveOK DEF TypeInv, TypeOK
<1>2. h' = [h EXCEPT ![p] = ToSave(h[p], v, e, t)]
  BY DEF Load
<1>3. h' \in [Procs -> Handlers] /\ \A q \in Procs : HandlerOK(h'[q])
  BY <1>1, <1>2, HandlerStep
<1>4. overlapped' \subseteq Visitors /\ UNCHANGED <<db, faulted>>
  BY EnterOK DEF Load
<1>. QED  BY <1>3, <1>4 DEF TypeInv, TypeOK, db

\* A handler moves on without touching any other variable.
LEMMA MoveOK ==
    ASSUME TypeInv, NEW p \in Procs, NEW x, HandlerOK(x), h' = [h EXCEPT ![p] = x],
           UNCHANGED <<row, biostar, active, now, links, surveyed, overlapped, faulted>>
    PROVE  TypeInv'
<1>1. h' \in [Procs -> Handlers] /\ \A q \in Procs : HandlerOK(h'[q])
  BY HandlerStep
<1>. QED  BY <1>1 DEF TypeInv, TypeOK

LEMMA SweepOK ==
    ASSUME NEW S \in SUBSET Visits
    PROVE  HandlerOK([Idle EXCEPT !.pc = "sweep", !.todo = S])
BY IdleOK DEF HandlerOK, Handlers, Idle, Editing

LEMMA StartOK ==
    ASSUME NEW v \in Visits
    PROVE  /\ HandlerOK([Idle EXCEPT !.pc = "insert", !.visit = v])
           /\ HandlerOK([Idle EXCEPT !.pc = "link", !.visit = v])
           /\ HandlerOK([Idle EXCEPT !.pc = "recheck", !.visit = v, !.exit = TRUE])
BY IdleOK DEF HandlerOK, Handlers, Idle, Editing

LEMMA LoadCheckoutOK ==
    ASSUME TypeInv, NEW p \in Procs, NEW v \in Visits, NEW x \in Handlers, LoadCheckout(p, v, x)
    PROVE  TypeInv'
<1> DEFINE e == [row[v] EXCEPT !.status = "CHECKED_OUT", !.out = TRUE, !.reenable = 0]
           t == IF row[v].ref # NoUser THEN "checkout" ELSE "done"
<1>1. CASE row[v].status = "CHECKED_OUT"
  <2>1. [x EXCEPT !.visit = v] \in Handlers /\ [x EXCEPT !.visit = v].visit \in Visits
    BY DEF Handlers
  <2>2. HandlerOK(Done([x EXCEPT !.visit = v]))
    BY <2>1, DoneOK
  <2>. QED  BY <1>1, <2>2, MoveOK DEF LoadCheckout, db, ghosts
<1>2. CASE row[v].status # "CHECKED_OUT"
  <2>1. row[v] \in Rows /\ 0 \in 0..MaxTime
    BY ConstantsAssumption DEF TypeInv, TypeOK
  <2>2. e \in Rows
    BY <2>1 DEF Rows, Statuses
  <2>3. HandlerOK(ToSave(x, v, e, t))
    BY <2>2, ToSaveOK
  <2>4. h' = [h EXCEPT ![p] = ToSave(x, v, e, t)]
    BY <1>2 DEF LoadCheckout
  <2>5. h' \in [Procs -> Handlers] /\ \A q \in Procs : HandlerOK(h'[q])
    BY <2>3, <2>4, HandlerStep
  <2>6. overlapped' \subseteq Visitors /\ UNCHANGED <<db, faulted>>
    BY <1>2, EnterOK DEF LoadCheckout
  <2>. QED  BY <2>5, <2>6 DEF TypeInv, TypeOK, db
<1>. QED  BY <1>1, <1>2

LEMMA ScheduleOK ==
    ASSUME TypeInv, NEW p \in Procs, NEW v \in Visits,
           ScheduleVisit(p, v) \/ InviteVisitors(p, v)
    PROVE  TypeInv'
<1>1. h' = [h EXCEPT ![p] = [Idle EXCEPT !.pc = "insert", !.visit = v]]
  BY DEF ScheduleVisit, InviteVisitors
<1>2. UNCHANGED <<row, biostar, active, now, links, surveyed, overlapped, faulted>>
  BY DEF ScheduleVisit, InviteVisitors, db, ghosts
<1>. QED  BY <1>1, <1>2, StartOK, MoveOK

\* What a request does first.
LEMMA RequestTypes == ASSUME TypeInv, NEW p \in Procs, Request(p) PROVE TypeInv'
<1>1. \A v \in Visits : row[v] \in Rows
  BY DEF TypeInv, TypeOK
<1>2. h[p] \in Handlers
  BY DEF TypeInv, TypeOK
<1>3. 0 \in 0..MaxTime
  BY ConstantsAssumption
<1>a. CASE BulkCheckoutTenant(p)
  <2> DEFINE found == {v \in Visits : row[v].status \in Active}
  <2>1. HandlerOK([Idle EXCEPT !.pc = "sweep", !.todo = found])
    BY SweepOK
  <2>. QED  BY <1>a, <2>1, MoveOK DEF BulkCheckoutTenant, db, ghosts
<1>b. ASSUME NEW S \in SUBSET Visits, BulkCheckoutSelected(p, S) PROVE TypeInv'
  BY <1>b, SweepOK, MoveOK DEF BulkCheckoutSelected, db, ghosts
<1>c. ASSUME NEW v \in Visits, ScheduleVisit(p, v) \/ InviteVisitors(p, v) PROVE TypeInv'
  BY <1>c, ScheduleOK
<1>d. ASSUME NEW v \in Visits, CompletePreRegistration(p, v) PROVE TypeInv'
  <2>1. [row[v] EXCEPT !.status = "PRE_REGISTERED"] \in Rows
    BY <1>1 DEF Rows, Statuses
  <2>. QED  BY <1>d, <2>1, LoadOK DEF CompletePreRegistration
<1>e. ASSUME NEW v \in Visits, MarkAsNoShow(p, v) PROVE TypeInv'
  <2>1. [row[v] EXCEPT !.status = "NO_SHOW"] \in Rows
    BY <1>1 DEF Rows, Statuses
  <2>. QED  BY <1>e, <2>1, LoadOK DEF MarkAsNoShow
<1>f. ASSUME NEW v \in Visits, CheckInVisit(p, v) PROVE TypeInv'
  <2>1. [row[v] EXCEPT !.status = "CHECKED_IN", !.in = TRUE, !.out = FALSE, !.reenable = 0] \in Rows
    BY <1>1, <1>3 DEF Rows, Statuses
  <2>. QED  BY <1>f, <2>1, LoadOK DEF CheckInVisit
<1>g. ASSUME NEW v \in Visits, ForceSyncVisit(p, v) PROVE TypeInv'
  <2>1. CASE row[v].ref # NoUser
    <3> DEFINE x == [Idle EXCEPT !.pc = "resolve", !.visit = v, !.copy = row[v], !.then = "force"]
    <3>1. HandlerOK(x)
      BY <1>1, IdleOK DEF HandlerOK, Handlers, Idle, Editing
    <3>2. h' = [h EXCEPT ![p] = x] /\ Enter(p, v)
      BY <1>g, <2>1 DEF ForceSyncVisit
    <3>3. h' \in [Procs -> Handlers] /\ \A q \in Procs : HandlerOK(h'[q])
      BY <3>1, <3>2, HandlerStep
    <3>. QED  BY <3>2, <3>3, EnterOK DEF TypeInv, TypeOK, db
  <2>2. CASE row[v].ref = NoUser
    <3>1. [row[v] EXCEPT !.sync = "PENDING"] \in Rows
      BY <1>1 DEF Rows, SyncStatuses
    <3>. QED  BY <1>g, <2>2, <3>1, LoadOK DEF ForceSyncVisit
  <2>. QED  BY <2>1, <2>2
<1>h. ASSUME NEW v \in Visits, NEW d \in 1..MaxTime, TemporaryReenableVisit(p, v, d) PROVE TypeInv'
  <2>1. [row[v] EXCEPT !.status = "CHECKED_IN", !.out = FALSE, !.reenable = d] \in Rows
    <3>1. d \in 0..MaxTime
      BY ConstantsAssumption
    <3>. QED  BY <1>1, <3>1 DEF Rows, Statuses
  <2>. QED  BY <1>h, <2>1, LoadOK DEF TemporaryReenableVisit
<1>i. ASSUME NEW v \in Visits, CheckoutVisit(p, v) PROVE TypeInv'
  BY <1>i, <1>2, LoadCheckoutOK DEF CheckoutVisit
<1>j. ASSUME NEW v \in Visits, CheckoutOnExitDevice(p, v) PROVE TypeInv'
  BY <1>j, StartOK, MoveOK DEF CheckoutOnExitDevice, db, ghosts
<1>k. ASSUME NEW v \in Visits, SubmitExitSurvey(p, v) PROVE TypeInv'
  BY <1>k, <1>1, LoadOK DEF SubmitExitSurvey
<1>l. ASSUME NEW v \in Visits, SpendFalseExitLink(p, v) PROVE TypeInv'
  <2> DEFINE x == [Idle EXCEPT !.pc = "link", !.visit = v]
  <2>1. h' = [h EXCEPT ![p] = x] /\ HandlerOK(x)
    BY <1>l, StartOK DEF SpendFalseExitLink
  <2>2. h' \in [Procs -> Handlers] /\ \A q \in Procs : HandlerOK(h'[q])
    BY <2>1, HandlerStep
  <2>3. links' \in [Visits -> 0..MaxLinks]
    BY <1>l, ConstantsAssumption DEF SpendFalseExitLink, TypeInv, TypeOK
  <2>. QED  BY <1>l, <2>2, <2>3 DEF SpendFalseExitLink, TypeInv, TypeOK, ghosts
<1>m. ASSUME NEW v \in Visits, DismissFalseExit(p, v) PROVE TypeInv'
  <2>1. [row[v] EXCEPT !.status = "CHECKED_OUT"] \in Rows
    BY <1>1 DEF Rows, Statuses
  <2>. QED  BY <1>m, <2>1, LoadOK DEF DismissFalseExit
<1>. QED  BY <1>a, <1>b, <1>c, <1>d, <1>e, <1>f, <1>g, <1>h, <1>i, <1>j, <1>k, <1>l, <1>m DEF Request

\* What a handler under way does next.
LEMMA StepTypes == ASSUME TypeInv, NEW p \in Procs, Step(p) PROVE TypeInv'
<1>1. h[p] \in Handlers /\ HandlerOK(h[p])
  BY DEF TypeInv, TypeOK
<1>2. \A v \in Visits : row[v] \in Rows
  BY DEF TypeInv, TypeOK
<1>a. CASE InsertVisit(p)
  <2>1. h[p].visit \in Visits
    BY <1>1, <1>a DEF InsertVisit, HandlerOK
  <2>2. [NoRow EXCEPT !.status = "SCHEDULED"] \in Rows
    BY IdleOK DEF Rows, Statuses
  <2>3. row' \in [Visits -> Rows]
    BY <1>a, <2>1, <2>2 DEF InsertVisit, TypeInv, TypeOK
  <2>4. h' = [h EXCEPT ![p] = Idle]
    BY <1>a DEF InsertVisit
  <2>5. h' \in [Procs -> Handlers] /\ \A q \in Procs : HandlerOK(h'[q])
    BY <2>4, IdleOK, HandlerStep
  <2>. QED  BY <1>a, <2>3, <2>5 DEF InsertVisit, TypeInv, TypeOK, ghosts
<1>b. CASE RunCheckout(p)
  <2>1. h[p].visit \in Visits
    BY <1>1, <1>b DEF RunCheckout, HandlerOK
  <2>2. HandlerOK([h[p] EXCEPT !.pc = "sweep", !.todo = {h[p].visit}])
    BY <1>1, <2>1 DEF HandlerOK, Handlers, Editing
  <2>. QED  BY <1>b, <2>2, IdleOK, MoveOK DEF RunCheckout, db, ghosts
<1>c. CASE SendExitSurveyEmail(p)
  <2>1. h[p].visit \in Visits
    BY <1>1, <1>c DEF SendExitSurveyEmail, HandlerOK
  <2>2. h' = [h EXCEPT ![p] = Idle]
    BY <1>c DEF SendExitSurveyEmail
  <2>3. h' \in [Procs -> Handlers] /\ \A q \in Procs : HandlerOK(h'[q])
    BY <2>2, IdleOK, HandlerStep
  <2>4. surveyed' \subseteq Visits /\ links' \in [Visits -> 0..MaxLinks]
    BY <1>c, <2>1, ConstantsAssumption DEF SendExitSurveyEmail, TypeInv, TypeOK
  <2>. QED  BY <1>c, <2>3, <2>4 DEF SendExitSurveyEmail, TypeInv, TypeOK, ghosts
<1>d. CASE ReportFalseExit(p)
  <2> DEFINE v == h[p].visit
             e == [row[v] EXCEPT !.status = "FALSE_EXIT_REPORTED"]
  <2>1. v \in Visits
    BY <1>1, <1>d DEF ReportFalseExit, HandlerOK
  <2>2. e \in Rows
    BY <1>2, <2>1 DEF Rows, Statuses
  <2>3. CASE Load(p, v, e, "done")
    BY <2>1, <2>2, <2>3, LoadOK
  <2>4. CASE h' = [h EXCEPT ![p] = Idle] /\ UNCHANGED <<db, ghosts>>
    BY <2>4, IdleOK, MoveOK DEF db, ghosts
  <2>. QED  BY <1>d, <2>3, <2>4 DEF ReportFalseExit
<1>e. CASE Save(p)
  <2> DEFINE v == h[p].visit
             base == IF h[p].seen = NoRow THEN row[v] ELSE h[p].seen
  <2>1. v \in Visits
    BY <1>1, <1>e DEF Save, HandlerOK, Editing
  <2>2. h[p].copy \in Rows /\ base \in Rows /\ row[v] \in Rows
    BY <1>1, <1>2, <2>1 DEF Handlers
  <2>3. Merge(h[p].copy, base, row[v]) \in Rows
    BY <2>2, MergeOK
  <2>4. row' \in [Visits -> Rows]
    BY <1>e, <2>1, <2>3 DEF Save, TypeInv, TypeOK
  <2>5. h' = [h EXCEPT ![p] = AfterSave(h[p])]
    BY <1>e DEF Save
  <2>6. h' \in [Procs -> Handlers] /\ \A q \in Procs : HandlerOK(h'[q])
    BY <1>1, <2>1, <2>5, AfterSaveOK, HandlerStep
  <2>. QED  BY <1>e, <2>4, <2>6 DEF Save, TypeInv, TypeOK, ghosts
<1>f. CASE ResolveConnections(p)
  <2>1. h[p].visit \in Visits
    BY <1>1, <1>f DEF ResolveConnections, HandlerOK, Editing
  <2>2. HandlerOK(ToSave(h[p], h[p].visit, [h[p].copy EXCEPT !.sync = "NOT_CONFIGURED"], "done"))
    <3>1. [h[p].copy EXCEPT !.sync = "NOT_CONFIGURED"] \in Rows
      BY <1>1 DEF Handlers, Rows, SyncStatuses
    <3>. QED  BY <1>1, <2>1, <3>1, ToSaveOK
  <2>3. HandlerOK(AfterDelete(h[p]))
    BY <1>1, <2>1, AfterDeleteOK
  <2>4. active # {} => HandlerOK([h[p] EXCEPT !.pc = "sync", !.conns = active, !.last = NoUser])
    BY <1>1, <2>1 DEF HandlerOK, Handlers, Editing, TypeInv, TypeOK
  <2>5. active # {} => HandlerOK([h[p] EXCEPT !.pc = "delete", !.conns = active])
    BY <1>1, <2>1 DEF HandlerOK, Handlers, Editing, TypeInv, TypeOK
  <2>6. PICK x : HandlerOK(x) /\ h' = [h EXCEPT ![p] = x]
    BY <1>f, <2>2, <2>3, <2>4, <2>5 DEF ResolveConnections
  <2>. QED  BY <1>f, <2>6, MoveOK DEF ResolveConnections, db, ghosts
<1>g. CASE SyncWithConnection(p)
  <2> DEFINE c == First(h[p].conns)
             u == VisitorOf[h[p].visit]
             rest == h[p].conns \ {c}
             Go(x) == IF rest = {} THEN AfterSync([x EXCEPT !.conns = {}])
                      ELSE [x EXCEPT !.conns = rest]
  <2>1. /\ h[p].visit \in Visits /\ h[p].conns # {} /\ h[p].pc = "sync"
        /\ h[p].conns \in SUBSET Conns
    BY <1>1, <1>g DEF SyncWithConnection, HandlerOK, Editing, Handlers
  <2>2. c \in Conns /\ u \in Visitors /\ UserIdOn[c, u] \in Users
    BY <2>1, FirstInSet, ConstantsAssumption
  <2>3. ASSUME NEW x \in Handlers, x.visit \in Visits PROVE HandlerOK(Go(x))
    <3>1. CASE rest = {}
      <4>1. [x EXCEPT !.conns = {}] \in Handlers /\ [x EXCEPT !.conns = {}].visit \in Visits
        BY <2>3 DEF Handlers
      <4>. QED  BY <3>1, <4>1, AfterSyncOK
    <3>2. CASE rest # {}
      BY <2>1, <2>3, <3>2 DEF HandlerOK, Handlers
    <3>. QED  BY <3>1, <3>2
  <2>4. HandlerOK(Go(h[p])) /\ HandlerOK(Go([h[p] EXCEPT !.last = UserIdOn[c, u]]))
    <3>1. [h[p] EXCEPT !.last = UserIdOn[c, u]] \in Handlers
      BY <1>1, <2>2 DEF Handlers
    <3>2. [h[p] EXCEPT !.last = UserIdOn[c, u]].visit \in Visits
      BY <1>1, <2>1 DEF Handlers
    <3>. QED  BY <1>1, <2>1, <2>3, <3>1, <3>2
  <2>5. PICK x : HandlerOK(x) /\ h' = [h EXCEPT ![p] = x]
    <3> HIDE DEF Go
    <3>1. \E x \in {Go(h[p]), Go([h[p] EXCEPT !.last = UserIdOn[c, u]])} : h' = [h EXCEPT ![p] = x]
      BY <1>g DEF SyncWithConnection, Go
    <3>. QED  BY <2>4, <3>1
  <2>6. h' \in [Procs -> Handlers] /\ \A q \in Procs : HandlerOK(h'[q])
    BY <2>5, HandlerStep
  <2>7. biostar' \in [Conns -> SUBSET Users] /\ faulted' \subseteq Visitors
    <3> DEFINE id == UserIdOn[c, u]
    <3>1. /\ biostar' = biostar \/ biostar' = [biostar EXCEPT ![c] = @ \cup {id}]
          /\ faulted' = faulted \/ faulted' = faulted \cup {u}
      BY <1>g, Zenon DEF SyncWithConnection, createBioStarUser
    <3>2. id \in Users
      BY <2>2
    <3> HIDE DEF id, c, u
    <3>. QED  BY <2>2, <3>1, <3>2 DEF TypeInv, TypeOK
  <2>. QED  BY <1>g, <2>6, <2>7 DEF SyncWithConnection, TypeInv, TypeOK
<1>h. CASE DeleteFromConnection(p)
  <2> DEFINE c == First(h[p].conns)
             u == VisitorOf[h[p].visit]
             rest == h[p].conns \ {c}
  <2>1. /\ h[p].visit \in Visits /\ h[p].conns # {} /\ h[p].pc = "delete"
        /\ h[p].conns \in SUBSET Conns
    BY <1>1, <1>h DEF DeleteFromConnection, HandlerOK, Editing, Handlers
  <2>2. c \in Conns /\ u \in Visitors
    BY <2>1, FirstInSet, ConstantsAssumption
  <2>3. HandlerOK(AfterDelete([h[p] EXCEPT !.conns = {}]))
    <3>1. [h[p] EXCEPT !.conns = {}] \in Handlers /\ [h[p] EXCEPT !.conns = {}].visit \in Visits
      BY <1>1, <2>1 DEF Handlers
    <3>. QED  BY <3>1, AfterDeleteOK
  <2>4. rest # {} => HandlerOK([h[p] EXCEPT !.conns = rest])
    BY <1>1, <2>1 DEF HandlerOK, Handlers
  <2>5. PICK x : HandlerOK(x) /\ h' = [h EXCEPT ![p] = x]
    BY <1>h, <2>3, <2>4 DEF DeleteFromConnection
  <2>6. h' \in [Procs -> Handlers] /\ \A q \in Procs : HandlerOK(h'[q])
    BY <2>5, HandlerStep
  <2>7. biostar' \in [Conns -> SUBSET Users] /\ faulted' \subseteq Visitors
    BY <1>h, <2>2 DEF DeleteFromConnection, TypeInv, TypeOK
  <2>. QED  BY <1>h, <2>6, <2>7 DEF DeleteFromConnection, TypeInv, TypeOK
<1>i. ASSUME NEW v \in Visits, SweepNext(p, v) PROVE TypeInv'
  <2>1. [h[p] EXCEPT !.todo = @ \ {v}] \in Handlers
    BY <1>1 DEF Handlers
  <2>. QED  BY <1>i, <2>1, LoadCheckoutOK DEF SweepNext
<1>. QED  BY <1>a, <1>b, <1>c, <1>d, <1>e, <1>f, <1>g, <1>h, <1>i DEF Step

LEMMA CloserTypes == ASSUME TypeInv, CloseExpiredTemporaryReenablements PROVE TypeInv'
<1> DEFINE expired == {v \in Visits : Expired(v)}
<1>1. HandlerOK([Idle EXCEPT !.pc = "sweep", !.todo = expired])
  BY SweepOK
<1>2. Closer \in Procs
  BY DEF Procs
<1>. QED  BY <1>1, <1>2, MoveOK DEF CloseExpiredTemporaryReenablements, db, ghosts

LEMMA CompareTypes == ASSUME TypeInv, NEW p \in Procs, Compare(p) PROVE TypeInv'
<1>1. HandlerOK(h[p]) /\ h[p].visit \in Visits
  BY DEF TypeInv, TypeOK, Compare, HandlerOK, Editing
<1>2. row[h[p].visit] \in Rows
  BY <1>1 DEF TypeInv, TypeOK
<1>3. HandlerOK([h[p] EXCEPT !.seen = row[h[p].visit]])
  BY <1>1, <1>2 DEF HandlerOK, Handlers
<1>. QED  BY <1>3, MoveOK DEF Compare, db, ghosts

LEMMA EnvironmentTypes == ASSUME TypeInv, Environment PROVE TypeInv'
<1>a. CASE Tick
  BY <1>a, ConstantsAssumption DEF Tick, TypeInv, TypeOK, ghosts
<1>b. CASE Crash
  <2>1. h' \in [Procs -> Handlers] /\ \A p \in Procs : HandlerOK(h'[p])
    BY <1>b, IdleOK DEF Crash, HandlerOK
  <2>. QED  BY <1>b, <2>1 DEF Crash, TypeInv, TypeOK, db
<1>c. ASSUME NEW c \in Conns, SwitchConnection(c) PROVE TypeInv'
  BY <1>c DEF SwitchConnection, TypeInv, TypeOK
<1>d. ASSUME NEW c \in Conns, NEW u \in Visitors, DeleteOrphanedBioStarUser(c, u) PROVE TypeInv'
  BY <1>d DEF DeleteOrphanedBioStarUser, TypeInv, TypeOK
<1>. QED  BY <1>a, <1>b, <1>c, <1>d DEF Environment

LEMMA TypeStep == TypeInv /\ [SplitNext]_vars => TypeInv'
<1> SUFFICES ASSUME TypeInv, [SplitNext]_vars PROVE TypeInv'
  OBVIOUS
<1>1. Requests \subseteq Procs
  BY DEF Procs
<1>2. CASE UNCHANGED vars
  BY <1>2 DEF vars, TypeInv, TypeOK
<1>3. CASE Next
  BY <1>1, <1>3, RequestTypes, StepTypes, CloserTypes, EnvironmentTypes DEF Next
<1>4. ASSUME NEW p \in Procs, Compare(p) PROVE TypeInv'
  BY <1>4, CompareTypes
<1>. QED  BY <1>2, <1>3, <1>4 DEF SplitNext

LEMMA TypeInit == Init => TypeInv
BY IdleOK, ConstantsAssumption DEF Init, TypeInv, TypeOK, HandlerOK

\* The variables keep their types, however the handlers interleave, and whether
\* save compares and writes in one step or in two.
THEOREM TypeCorrect == SplitSpec => []TypeOK
<1>1. TypeInv => TypeOK
  BY DEF TypeInv
<1>. QED  BY <1>1, TypeInit, TypeStep, PTL DEF SplitSpec

(***************************************************************************)
(* Coherence.  A row is overwritten by the copy of some handler, so the    *)
(* copies have to be coherent; and what a handler adds to its copy after a *)
(* loop over the connections (ref and sync) is allowed in a visit that has *)
(* been admitted only, so a handler that has a loop to go works on one.    *)
(***************************************************************************)
HandlerCoherent(x) ==
    /\ x.seen = NoRow
    /\ x.pc \in Editing => Coherent(x.copy)
    /\ x.pc \in Editing /\ (x.pc # "save" \/ x.then # "done") =>
         x.copy.status \in {"CHECKED_IN", "CHECKED_OUT"}

CoherentInv == /\ RowsCoherent
               /\ \A p \in Procs : HandlerCoherent(h[p])

LEMMA IdleCoherent == HandlerCoherent(Idle) /\ Coherent(NoRow)
BY DEF HandlerCoherent, Idle, NoRow, Coherent, Editing, Exited

LEMMA ToSaveCoherent ==
    ASSUME NEW x \in Handlers, NEW v \in Visits, NEW e \in Rows, Coherent(e),
           NEW t, t # "done" => e.status \in {"CHECKED_IN", "CHECKED_OUT"}
    PROVE  HandlerCoherent(ToSave(x, v, e, t))
<1>1. /\ ToSave(x, v, e, t).seen = NoRow
      /\ ToSave(x, v, e, t).copy = e
      /\ ToSave(x, v, e, t).pc = "save"
      /\ ToSave(x, v, e, t).then = t
  BY DEF ToSave, Handlers
<1>. QED  BY <1>1 DEF HandlerCoherent

LEMMA DoneCoherent == ASSUME NEW x \in Handlers PROVE HandlerCoherent(Done(x))
<1>1. CASE x.exit
  BY <1>1 DEF Done, HandlerCoherent, Handlers, Editing
<1>2. CASE ~x.exit
  BY <1>2, IdleCoherent DEF Done, HandlerCoherent, Idle, Editing
<1>. QED  BY <1>1, <1>2

\* The columns ref and sync of an admitted visit are free.
LEMMA AdmittedCoherent ==
    ASSUME NEW e \in Rows, Coherent(e), e.status \in {"CHECKED_IN", "CHECKED_OUT"},
           NEW r \in Users \cup {NoUser}, NEW s \in SyncStatuses,
           NEW f \in {[e EXCEPT !.ref = r], [e EXCEPT !.sync = s], [e EXCEPT !.ref = r, !.sync = s]}
    PROVE  f \in Rows /\ Coherent(f) /\ f.status = e.status
<1>1. CASE f = [e EXCEPT !.ref = r]
  BY <1>1 DEF Rows, Coherent
<1>2. CASE f = [e EXCEPT !.sync = s]
  BY <1>2 DEF Rows, Coherent
<1>3. CASE f = [e EXCEPT !.ref = r, !.sync = s]
  BY <1>3 DEF Rows, Coherent
<1>. QED  BY <1>1, <1>2, <1>3

LEMMA AfterLoopCoherent ==
    ASSUME NEW x \in Handlers, x.visit \in Visits, Coherent(x.copy),
           x.copy.status \in {"CHECKED_IN", "CHECKED_OUT"}
    PROVE  HandlerCoherent(AfterSync(x)) /\ HandlerCoherent(AfterDelete(x))
<1>1. /\ x.copy \in Rows /\ x.copy.sync \in SyncStatuses /\ x.copy.ref \in Users \cup {NoUser}
      /\ x.last \in Users \cup {NoUser} /\ NoUser \in Users \cup {NoUser}
  BY DEF Handlers, Rows
<1>3. "PENDING" \in SyncStatuses /\ "SYNCED" \in SyncStatuses /\ "null" \in SyncStatuses
  BY DEF SyncStatuses
<1>4. HandlerCoherent(AfterSync(x))
  <2>1. CASE x.last # NoUser
    <3> DEFINE e == [x.copy EXCEPT !.ref = x.last, !.sync = "SYNCED"]
    <3>1. e \in Rows /\ Coherent(e)
      BY <1>1, <1>3, AdmittedCoherent
    <3>. QED  BY <2>1, <3>1, ToSaveCoherent DEF AfterSync
  <2>2. CASE x.last = NoUser
    <3> DEFINE e == [x.copy EXCEPT !.sync = "PENDING"]
    <3>1. e \in Rows /\ Coherent(e)
      BY <1>1, <1>3, AdmittedCoherent
    <3>. QED  BY <2>2, <3>1, ToSaveCoherent DEF AfterSync
  <2>. QED  BY <2>1, <2>2
<1>5. HandlerCoherent(AfterDelete(x))
  <2>1. CASE x.then = "force"
    <3> DEFINE e == [x.copy EXCEPT !.ref = NoUser]
    <3>1. e \in Rows /\ Coherent(e) /\ e.status \in {"CHECKED_IN", "CHECKED_OUT"}
      BY <1>1, <1>3, AdmittedCoherent
    <3>. QED  BY <2>1, <3>1, ToSaveCoherent DEF AfterDelete
  <2>2. CASE x.then # "force"
    <3> DEFINE e == [x.copy EXCEPT !.ref = NoUser, !.sync = "null"]
    <3>1. e \in Rows /\ Coherent(e)
      BY <1>1, <1>3, AdmittedCoherent
    <3>. QED  BY <2>2, <3>1, ToSaveCoherent DEF AfterDelete
  <2>. QED  BY <2>1, <2>2
<1>. QED  BY <1>4, <1>5

LEMMA AfterSaveCoherent ==
    ASSUME NEW x \in Handlers, x.visit \in Visits, x.pc = "save", HandlerCoherent(x)
    PROVE  HandlerCoherent(AfterSave(x))
<1>1. x.copy \in Rows /\ Coherent(x.copy) /\ x.copy.ref \in Users \cup {NoUser}
  BY DEF HandlerCoherent, Editing, Handlers, Rows
<1>2. CASE x.then = "done"
  BY <1>2, DoneCoherent DEF AfterSave
<1>3. CASE x.then = "pending"
  <2> DEFINE e == [x.copy EXCEPT !.sync = "PENDING"]
  <2>1. "PENDING" \in SyncStatuses
    BY DEF SyncStatuses
  <2>2. x.copy.status \in {"CHECKED_IN", "CHECKED_OUT"}
    BY <1>3 DEF HandlerCoherent, Editing
  <2>3. e \in Rows /\ Coherent(e) /\ e.status \in {"CHECKED_IN", "CHECKED_OUT"}
    BY <1>1, <2>1, <2>2, AdmittedCoherent
  <2>. QED  BY <1>3, <2>3, ToSaveCoherent DEF AfterSave
<1>4. CASE x.then \notin {"done", "pending"}
  <2>1. AfterSave(x) = [x EXCEPT !.pc = "resolve", !.seen = NoRow]
    BY <1>4 DEF AfterSave
  <2>. QED  BY <1>4, <2>1 DEF HandlerCoherent, Handlers, Editing
<1>. QED  BY <1>2, <1>3, <1>4

\* With the comparison in the same step, save writes the entity.
LEMMA MergeIsCopy == ASSUME NEW n \in Rows, NEW o \in Rows PROVE Merge(n, o, o) = n
BY DEF Merge, Pick, Rows

\* A handler moved, the rows stayed.
LEMMA MoveCoherent ==
    ASSUME TypeInv, CoherentInv, NEW p \in Procs, NEW x, HandlerCoherent(x),
           h' = [h EXCEPT ![p] = x], row' = row
    PROVE  CoherentInv'
BY DEF CoherentInv, RowsCoherent, TypeInv, TypeOK

LEMMA LoadCoherent ==
    ASSUME TypeInv, CoherentInv, NEW p \in Procs, NEW v \in Visits, NEW e \in Rows, Coherent(e),
           NEW t, t # "done" => e.status \in {"CHECKED_IN", "CHECKED_OUT"}, Load(p, v, e, t)
    PROVE  CoherentInv'
<1>1. HandlerCoherent(ToSave(h[p], v, e, t))
  BY ToSaveCoherent DEF TypeInv, TypeOK
<1>2. h' = [h EXCEPT ![p] = ToSave(h[p], v, e, t)] /\ row' = row
  BY DEF Load, Enter, db
<1>. QED  BY <1>1, <1>2, MoveCoherent

LEMMA LoadCheckoutCoherent ==
    ASSUME TypeInv, CoherentInv, NEW p \in Procs, NEW v \in Visits, NEW x \in Handlers,
           LoadCheckout(p, v, x)
    PROVE  CoherentInv'
<1>1. CASE row[v].status = "CHECKED_OUT"
  <2>1. [x EXCEPT !.visit = v] \in Handlers
    BY DEF Handlers
  <2>2. HandlerCoherent(Done([x EXCEPT !.visit = v]))
    BY <2>1, DoneCoherent
  <2>. QED  BY <1>1, <2>2, MoveCoherent DEF LoadCheckout, db
<1>2. CASE row[v].status # "CHECKED_OUT"
  <2> DEFINE e == [row[v] EXCEPT !.status = "CHECKED_OUT", !.out = TRUE, !.reenable = 0]
             t == IF row[v].ref # NoUser THEN "checkout" ELSE "done"
  <2>1. row[v] \in Rows /\ 0 \in 0..MaxTime
    BY ConstantsAssumption DEF TypeInv, TypeOK
  <2>2. e \in Rows /\ Coherent(e) /\ e.status = "CHECKED_OUT"
    BY <2>1 DEF Rows, Statuses, Coherent, Exited
  <2>3. HandlerCoherent(ToSave(x, v, e, t))
    BY <2>2, ToSaveCoherent
  <2>4. h' = [h EXCEPT ![p] = ToSave(x, v, e, t)] /\ row' = row
    BY <1>2 DEF LoadCheckout, Enter, db
  <2>. QED  BY <2>3, <2>4, MoveCoherent
<1>. QED  BY <1>1, <1>2

\* A handler that has not loaded an entity yet.
LEMMA BareCoherent ==
    ASSUME NEW x, x.seen = NoRow, x.pc \notin Editing
    PROVE  HandlerCoherent(x)
BY DEF HandlerCoherent

LEMMA RequestCoherent ==
    ASSUME TypeInv, CoherentInv, NEW p \in Procs, Request(p) PROVE CoherentInv'
<1>1. \A v \in Visits : row[v] \in Rows /\ Coherent(row[v])
  BY DEF TypeInv, TypeOK, CoherentInv, RowsCoherent
<1>2. h[p] \in Handlers
  BY DEF TypeInv, TypeOK
<1>3. 0 \in 0..MaxTime
  BY ConstantsAssumption
<1>a. CASE BulkCheckoutTenant(p) \/ \E S \in SUBSET Visits : BulkCheckoutSelected(p, S)
  <2>1. PICK S \in SUBSET Visits : /\ h' = [h EXCEPT ![p] = [Idle EXCEPT !.pc = "sweep", !.todo = S]]
                                   /\ row' = row
    BY <1>a DEF BulkCheckoutTenant, BulkCheckoutSelected, db
  <2>2. HandlerCoherent([Idle EXCEPT !.pc = "sweep", !.todo = S])
    BY BareCoherent DEF Idle, Editing
  <2>. QED  BY <2>1, <2>2, MoveCoherent
<1>b. ASSUME NEW v \in Visits,
             ScheduleVisit(p, v) \/ InviteVisitors(p, v) \/ SpendFalseExitLink(p, v)
             \/ CheckoutOnExitDevice(p, v)
      PROVE  CoherentInv'
  <2> DEFINE Start == {[Idle EXCEPT !.pc = "insert", !.visit = v],
                       [Idle EXCEPT !.pc = "link", !.visit = v],
                       [Idle EXCEPT !.pc = "recheck", !.visit = v, !.exit = TRUE]}
  <2>1. PICK x \in Start : h' = [h EXCEPT ![p] = x] /\ row' = row
    BY <1>b DEF ScheduleVisit, InviteVisitors, SpendFalseExitLink, CheckoutOnExitDevice, db
  <2>2. HandlerCoherent(x)
    BY BareCoherent DEF Idle, Editing
  <2>. QED  BY <2>1, <2>2, MoveCoherent
<1>c. ASSUME NEW v \in Visits, CompletePreRegistration(p, v) \/ MarkAsNoShow(p, v)
      PROVE  CoherentInv'
  <2>1. row[v].status \in {"SCHEDULED", "PRE_REGISTERED"}
    BY <1>c DEF CompletePreRegistration, MarkAsNoShow
  <2>2. ASSUME NEW s \in {"PRE_REGISTERED", "NO_SHOW"}
        PROVE  [row[v] EXCEPT !.status = s] \in Rows /\ Coherent([row[v] EXCEPT !.status = s])
    BY <1>1, <2>1 DEF Rows, Statuses, Coherent, Exited
  <2>. QED  BY <1>c, <2>2, LoadCoherent DEF CompletePreRegistration, MarkAsNoShow
<1>d. ASSUME NEW v \in Visits, CheckInVisit(p, v) PROVE CoherentInv'
  <2> DEFINE e == [row[v] EXCEPT !.status = "CHECKED_IN", !.in = TRUE, !.out = FALSE, !.reenable = 0]
  <2>1. e \in Rows /\ Coherent(e) /\ e.status = "CHECKED_IN"
    BY <1>1, <1>3 DEF Rows, Statuses, Coherent, Exited
  <2>. QED  BY <1>d, <2>1, LoadCoherent DEF CheckInVisit
<1>e. ASSUME NEW v \in Visits, ForceSyncVisit(p, v) PROVE CoherentInv'
  <2>1. row[v] \in Rows /\ Coherent(row[v]) /\ row[v].status = "CHECKED_IN"
    BY <1>1, <1>e DEF ForceSyncVisit
  <2>2. CASE row[v].ref # NoUser
    <3> DEFINE x == [Idle EXCEPT !.pc = "resolve", !.visit = v, !.copy = row[v], !.then = "force"]
    <3>1. h' = [h EXCEPT ![p] = x] /\ row' = row
      BY <1>e, <2>2 DEF ForceSyncVisit, Enter, db
    <3>2. HandlerCoherent(x)
      BY <2>1 DEF HandlerCoherent, Idle, Editing
    <3>. QED  BY <3>1, <3>2, MoveCoherent
  <2>3. CASE row[v].ref = NoUser
    <3> DEFINE e == [row[v] EXCEPT !.sync = "PENDING"]
    <3>1. "PENDING" \in SyncStatuses /\ NoUser \in Users \cup {NoUser}
      BY DEF SyncStatuses
    <3>2. e \in Rows /\ Coherent(e) /\ e.status = "CHECKED_IN"
      BY <2>1, <3>1, AdmittedCoherent
    <3>. QED  BY <1>e, <2>3, <3>2, LoadCoherent DEF ForceSyncVisit
  <2>. QED  BY <2>2, <2>3
<1>f. ASSUME NEW v \in Visits, NEW d \in 1..MaxTime, TemporaryReenableVisit(p, v, d)
      PROVE  CoherentInv'
  <2> DEFINE e == [row[v] EXCEPT !.status = "CHECKED_IN", !.out = FALSE, !.reenable = d]
  <2>1. d \in 0..MaxTime /\ d # 0
    BY ConstantsAssumption
  <2>2. e \in Rows /\ Coherent(e) /\ e.status = "CHECKED_IN"
    BY <1>1, <2>1 DEF Rows, Statuses, Coherent, Exited
  <2>. QED  BY <1>f, <2>2, LoadCoherent DEF TemporaryReenableVisit
<1>g. ASSUME NEW v \in Visits, CheckoutVisit(p, v) PROVE CoherentInv'
  BY <1>g, <1>2, LoadCheckoutCoherent DEF CheckoutVisit
<1>h. ASSUME NEW v \in Visits, SubmitExitSurvey(p, v) PROVE CoherentInv'
  BY <1>h, <1>1, LoadCoherent DEF SubmitExitSurvey
<1>i. ASSUME NEW v \in Visits, DismissFalseExit(p, v) PROVE CoherentInv'
  <2> DEFINE e == [row[v] EXCEPT !.status = "CHECKED_OUT"]
  <2>1. e \in Rows /\ Coherent(e)
    BY <1>1, <1>i DEF DismissFalseExit, Rows, Statuses, Coherent, Exited
  <2>. QED  BY <1>i, <2>1, LoadCoherent DEF DismissFalseExit
<1>. QED  BY <1>a, <1>b, <1>c, <1>d, <1>e, <1>f, <1>g, <1>h, <1>i DEF Request

LEMMA StepCoherent ==
    ASSUME TypeInv, CoherentInv, NEW p \in Procs, Step(p) PROVE CoherentInv'
<1>1. h[p] \in Handlers /\ HandlerOK(h[p]) /\ HandlerCoherent(h[p])
  BY DEF TypeInv, TypeOK, CoherentInv
<1>2. \A v \in Visits : row[v] \in Rows /\ Coherent(row[v])
  BY DEF TypeInv, TypeOK, CoherentInv, RowsCoherent
<1>3. \* a handler in a loop
      h[p].pc \in {"resolve", "sync", "delete"} =>
         /\ h[p].visit \in Visits /\ h[p].copy \in Rows /\ Coherent(h[p].copy)
         /\ h[p].copy.status \in {"CHECKED_IN", "CHECKED_OUT"}
  BY <1>1 DEF HandlerOK, HandlerCoherent, Handlers, Editing
<1>a. CASE InsertVisit(p)
  <2>1. h' = [h EXCEPT ![p] = Idle]
    BY <1>a DEF InsertVisit
  <2>2. Coherent([NoRow EXCEPT !.status = "SCHEDULED"])
    BY DEF NoRow, Coherent, Exited
  <2>3. \A v \in Visits : Coherent(row'[v])
    BY <1>2, <1>a, <2>2 DEF InsertVisit, TypeInv, TypeOK
  <2>4. \A q \in Procs : HandlerCoherent(h'[q])
    BY <2>1, IdleCoherent DEF CoherentInv, TypeInv, TypeOK
  <2>. QED  BY <2>3, <2>4 DEF CoherentInv, RowsCoherent
<1>b. CASE RunCheckout(p)
  <2>1. HandlerCoherent([h[p] EXCEPT !.pc = "sweep", !.todo = {h[p].visit}])
    BY <1>1 DEF HandlerCoherent, Handlers, Editing
  <2>. QED  BY <1>b, <2>1, IdleCoherent, MoveCoherent DEF RunCheckout, db
<1>c. CASE SendExitSurveyEmail(p)
  BY <1>c, IdleCoherent, MoveCoherent DEF SendExitSurveyEmail
<1>d. CASE ReportFalseExit(p)
  <2> DEFINE v == h[p].visit
             e == [row[v] EXCEPT !.status = "FALSE_EXIT_REPORTED"]
  <2>1. v \in Visits
    BY <1>1, <1>d DEF ReportFalseExit, HandlerOK
  <2>2. CASE row[v].status = "CHECKED_OUT" /\ Load(p, v, e, "done")
    <3>1. e \in Rows /\ Coherent(e)
      BY <1>2, <2>1, <2>2 DEF Rows, Statuses, Coherent, Exited
    <3>. QED  BY <2>1, <2>2, <3>1, LoadCoherent
  <2>3. CASE h' = [h EXCEPT ![p] = Idle] /\ UNCHANGED <<db, ghosts>>
    BY <2>3, IdleCoherent, MoveCoherent DEF db
  <2>. QED  BY <1>d, <2>2, <2>3 DEF ReportFalseExit
<1>e. CASE Save(p)
  <2> DEFINE v == h[p].visit
  <2>1. /\ v \in Visits /\ h[p].copy \in Rows /\ h[p].pc = "save"
        /\ h[p].seen = NoRow /\ Coherent(h[p].copy)
    BY <1>1, <1>e DEF Save, HandlerOK, HandlerCoherent, Handlers, Editing
  <2>2. row' = [row EXCEPT ![v] = Merge(h[p].copy, row[v], row[v])]
    BY <1>e, <2>1 DEF Save
  <2>3. row' = [row EXCEPT ![v] = h[p].copy]
    BY <1>2, <2>1, <2>2, MergeIsCopy
  <2>4. h' = [h EXCEPT ![p] = AfterSave(h[p])]
    BY <1>e DEF Save
  <2>5. HandlerCoherent(AfterSave(h[p]))
    BY <1>1, <2>1, AfterSaveCoherent
  <2>6. \A w \in Visits : Coherent(row'[w])
    BY <1>2, <2>1, <2>3 DEF TypeInv, TypeOK
  <2>7. \A q \in Procs : HandlerCoherent(h'[q])
    BY <2>4, <2>5 DEF CoherentInv, TypeInv, TypeOK
  <2>. QED  BY <2>6, <2>7 DEF CoherentInv, RowsCoherent
<1>f. CASE ResolveConnections(p)
  <2>1. h[p].pc = "resolve" /\ h[p].seen = NoRow
    BY <1>1, <1>f DEF ResolveConnections, HandlerCoherent
  <2>2. HandlerCoherent(ToSave(h[p], h[p].visit, [h[p].copy EXCEPT !.sync = "NOT_CONFIGURED"], "done"))
    <3> DEFINE e == [h[p].copy EXCEPT !.sync = "NOT_CONFIGURED"]
    <3>1. "NOT_CONFIGURED" \in SyncStatuses /\ NoUser \in Users \cup {NoUser}
      BY DEF SyncStatuses
    <3>2. e \in Rows /\ Coherent(e)
      BY <1>3, <2>1, <3>1, AdmittedCoherent
    <3>. QED  BY <1>1, <1>3, <2>1, <3>2, ToSaveCoherent
  <2>3. HandlerCoherent(AfterDelete(h[p]))
    BY <1>1, <1>3, <2>1, AfterLoopCoherent
  <2>4. /\ HandlerCoherent([h[p] EXCEPT !.pc = "sync", !.conns = active, !.last = NoUser])
        /\ HandlerCoherent([h[p] EXCEPT !.pc = "delete", !.conns = active])
    BY <1>1, <1>3, <2>1 DEF HandlerCoherent, Handlers
  <2>5. PICK x : HandlerCoherent(x) /\ h' = [h EXCEPT ![p] = x]
    BY <1>f, <2>2, <2>3, <2>4 DEF ResolveConnections
  <2>. QED  BY <1>f, <2>5, MoveCoherent DEF ResolveConnections, db
<1>g. CASE SyncWithConnection(p)
  <2> DEFINE c == First(h[p].conns)
             id == UserIdOn[c, VisitorOf[h[p].visit]]
             rest == h[p].conns \ {c}
             Go(x) == IF rest = {} THEN AfterSync([x EXCEPT !.conns = {}])
                      ELSE [x EXCEPT !.conns = rest]
  <2>1. h[p].pc = "sync" /\ h[p].conns # {} /\ h[p].conns \in SUBSET Conns
    BY <1>1, <1>g DEF SyncWithConnection, HandlerOK, Handlers
  <2>2. id \in Users
    <3>1. c \in Conns
      BY <2>1, FirstInSet
    <3>. QED  BY <1>3, <2>1, <3>1, ConstantsAssumption
  <2>3. \E x \in {h[p], [h[p] EXCEPT !.last = id]} : h' = [h EXCEPT ![p] = Go(x)]
    <3> HIDE DEF Go
    <3>. QED  BY <1>g DEF SyncWithConnection, Go
  <2> HIDE DEF id
  <2>4. PICK x \in {h[p], [h[p] EXCEPT !.last = id]} : h' = [h EXCEPT ![p] = Go(x)]
    BY <2>3
  <2>5. /\ x \in Handlers /\ x.visit = h[p].visit /\ x.copy = h[p].copy
        /\ x.pc = "sync" /\ x.seen = NoRow
    BY <1>1, <2>1, <2>2 DEF Handlers, HandlerCoherent
  <2>6. CASE rest = {}
    <3> DEFINE y == [x EXCEPT !.conns = {}]
    <3>1. y \in Handlers /\ y.visit = x.visit /\ y.copy = x.copy
      BY <2>5 DEF Handlers
    <3> HIDE DEF y
    <3>2. HandlerCoherent(AfterSync(y))
      BY <1>3, <2>1, <2>5, <3>1, AfterLoopCoherent
    <3>3. h' = [h EXCEPT ![p] = AfterSync(y)]
      BY <2>4, <2>6 DEF y
    <3>. QED  BY <1>g, <3>2, <3>3, MoveCoherent DEF SyncWithConnection
  <2>7. CASE rest # {}
    <3>1. HandlerCoherent([x EXCEPT !.conns = rest])
      BY <1>3, <2>1, <2>5 DEF HandlerCoherent, Handlers
    <3>. QED  BY <1>g, <2>4, <2>7, <3>1, MoveCoherent DEF SyncWithConnection
  <2>. QED  BY <2>6, <2>7
<1>h. CASE DeleteFromConnection(p)
  <2> DEFINE rest == h[p].conns \ {First(h[p].conns)}
  <2>1. h[p].pc = "delete" /\ h[p].seen = NoRow
    BY <1>1, <1>h DEF DeleteFromConnection, HandlerCoherent
  <2>2. HandlerCoherent(AfterDelete([h[p] EXCEPT !.conns = {}]))
    <3> DEFINE y == [h[p] EXCEPT !.conns = {}]
    <3>1. y \in Handlers /\ y.visit = h[p].visit /\ y.copy = h[p].copy
      BY <1>1 DEF Handlers
    <3> HIDE DEF y
    <3>2. HandlerCoherent(AfterDelete(y))
      BY <1>3, <2>1, <3>1, AfterLoopCoherent
    <3>. QED  BY <3>2 DEF y
  <2>3. HandlerCoherent([h[p] EXCEPT !.conns = rest])
    BY <1>1, <1>3, <2>1 DEF HandlerCoherent, Handlers
  <2>4. PICK x : HandlerCoherent(x) /\ h' = [h EXCEPT ![p] = x]
    BY <1>h, <2>2, <2>3 DEF DeleteFromConnection
  <2>. QED  BY <1>h, <2>4, MoveCoherent DEF DeleteFromConnection
<1>i. ASSUME NEW v \in Visits, SweepNext(p, v) PROVE CoherentInv'
  <2>1. [h[p] EXCEPT !.todo = @ \ {v}] \in Handlers
    BY <1>1 DEF Handlers
  <2>. QED  BY <1>i, <2>1, LoadCheckoutCoherent DEF SweepNext
<1>. QED  BY <1>a, <1>b, <1>c, <1>d, <1>e, <1>f, <1>g, <1>h, <1>i DEF Step

LEMMA CoherentStep == TypeInv /\ CoherentInv /\ [Next]_vars => CoherentInv'
<1> SUFFICES ASSUME TypeInv, CoherentInv, [Next]_vars PROVE CoherentInv'
  OBVIOUS
<1>1. ASSUME NEW p \in Requests, Request(p) PROVE CoherentInv'
  BY <1>1, RequestCoherent DEF Procs
<1>2. ASSUME NEW p \in Procs, Step(p) PROVE CoherentInv'
  BY <1>2, StepCoherent
<1>3. CASE CloseExpiredTemporaryReenablements
  <2> DEFINE x == [Idle EXCEPT !.pc = "sweep", !.todo = {v \in Visits : Expired(v)}]
  <2>1. HandlerCoherent(x)
    BY BareCoherent DEF Idle, Editing
  <2>2. h' = [h EXCEPT ![Closer] = x] /\ row' = row
    BY <1>3 DEF CloseExpiredTemporaryReenablements, db
  <2>. QED  BY <2>1, <2>2, MoveCoherent DEF Procs
<1>4. CASE Environment
  <2>1. row' = row /\ (h' = h \/ h' = [p \in Procs |-> Idle])
    BY <1>4 DEF Environment, Tick, Crash, SwitchConnection, DeleteOrphanedBioStarUser, db
  <2>. QED  BY <2>1, IdleCoherent DEF CoherentInv, RowsCoherent
<1>5. CASE UNCHANGED vars
  BY <1>5 DEF vars, CoherentInv, RowsCoherent
<1>. QED  BY <1>1, <1>2, <1>3, <1>4, <1>5 DEF Next

LEMMA CoherentInit == Init => CoherentInv
BY IdleCoherent DEF Init, CoherentInv, RowsCoherent

\* The columns of a row never contradict one another, whichever handlers
\* (checkInVisit, checkoutVisit, temporaryReenableVisit, the crons, the
\* background syncs) overwrite the row with their copies of it, and wherever the
\* process crashes, if save compares and writes in one step.
THEOREM RowsStayCoherent == Spec => []RowsCoherent
<1>1. CoherentInv => RowsCoherent
  BY DEF CoherentInv
<1>2. [Next]_vars => [SplitNext]_vars
  BY DEF SplitNext
<1>. QED
  BY <1>1, <1>2, TypeInit, TypeStep, CoherentInit, CoherentStep, PTL DEF Spec

(***************************************************************************)
(* No way back to SCHEDULED.  A save writes the status of the copy, or     *)
(* leaves the status of the row if the copy had that of the compared row.  *)
(* Both are past SCHEDULED because every handler loads a visit that is (or *)
(* takes it there), because rows never go back meanwhile, and because a    *)
(* visit is inserted once: nobody else works on it before.                 *)
(***************************************************************************)
Known(x, table) ==
    /\ x.pc \in Editing => Begun(x.copy) /\ table[x.visit].status # "ABSENT"
    /\ x.pc \in Editing /\ Begun(x.seen) => Begun(table[x.visit])
    /\ x.pc = "insert" => table[x.visit].status = "ABSENT"
    /\ \A v \in x.todo : table[v].status # "ABSENT"
    /\ x.pc = "mail" => Begun(table[x.visit])

Inserting(handlers) ==
    \A p, q \in Procs : /\ p # q
                        /\ handlers[p].pc = "insert" /\ handlers[q].pc = "insert"
                        => handlers[p].visit # handlers[q].visit

BegunInv == /\ \A p \in Procs : Known(h[p], row)
            /\ Inserting(h)
            /\ \A v \in surveyed : Begun(row[v])

LEMMA IdleKnown == ASSUME NEW table PROVE Known(Idle, table)
BY DEF Known, Idle, Editing

LEMMA ToSaveKnown ==
    ASSUME NEW x \in Handlers, NEW v \in Visits, NEW e \in Rows, NEW t, NEW table,
           Begun(e), table[v].status # "ABSENT",
           \A w \in x.todo : table[w].status # "ABSENT"
    PROVE  Known(ToSave(x, v, e, t), table) /\ ToSave(x, v, e, t).pc # "insert"
<1>1. /\ ToSave(x, v, e, t).pc = "save" /\ ToSave(x, v, e, t).visit = v
      /\ ToSave(x, v, e, t).copy = e /\ ToSave(x, v, e, t).seen = NoRow
      /\ ToSave(x, v, e, t).todo = x.todo
  BY DEF ToSave, Handlers
<1>2. ~Begun(NoRow)
  BY DEF NoRow, Begun
<1>. QED  BY <1>1, <1>2 DEF Known

LEMMA DoneKnown ==
    ASSUME NEW x \in Handlers, NEW table, Begun(table[x.visit]),
           \A w \in x.todo : table[w].status # "ABSENT"
    PROVE  Known(Done(x), table) /\ Done(x).pc # "insert"
<1>1. CASE x.exit
  <2>1. Done(x).pc = "mail" /\ Done(x).visit = x.visit /\ Done(x).todo = x.todo
    BY <1>1 DEF Done, Handlers
  <2>. QED  BY <2>1 DEF Known, Editing
<1>2. CASE ~x.exit /\ x.todo # {}
  <2>1. Done(x).pc = "sweep" /\ Done(x).todo = x.todo
    BY <1>2 DEF Done, Idle
  <2>. QED  BY <2>1 DEF Known, Editing
<1>3. CASE ~x.exit /\ x.todo = {}
  BY <1>3, IdleKnown DEF Done, Idle
<1>. QED  BY <1>1, <1>2, <1>3

\* What the loops write to the copy is not its status.
LEMMA AfterLoopKnown ==
    ASSUME NEW x \in Handlers, x.visit \in Visits, NEW table, Begun(x.copy),
           table[x.visit].status # "ABSENT", \A w \in x.todo : table[w].status # "ABSENT"
    PROVE  /\ Known(AfterSync(x), table) /\ AfterSync(x).pc # "insert"
           /\ Known(AfterDelete(x), table) /\ AfterDelete(x).pc # "insert"
<1>1. ASSUME NEW r \in Users \cup {NoUser}, NEW s \in SyncStatuses,
             NEW f \in {[x.copy EXCEPT !.ref = r], [x.copy EXCEPT !.sync = s],
                        [x.copy EXCEPT !.ref = r, !.sync = s]}
      PROVE  f \in Rows /\ Begun(f)
  <2>1. x.copy \in Rows
    BY DEF Handlers
  <2>2. CASE f = [x.copy EXCEPT !.ref = r]
    BY <2>1, <2>2 DEF Rows, Begun
  <2>3. CASE f = [x.copy EXCEPT !.sync = s]
    BY <2>1, <2>3 DEF Rows, Begun
  <2>4. CASE f = [x.copy EXCEPT !.ref = r, !.sync = s]
    BY <2>1, <2>4 DEF Rows, Begun
  <2>. QED  BY <2>2, <2>3, <2>4
<1>2. x.last \in Users \cup {NoUser} /\ NoUser \in Users \cup {NoUser}
  BY DEF Handlers
<1>3. "PENDING" \in SyncStatuses /\ "SYNCED" \in SyncStatuses /\ "null" \in SyncStatuses
  BY DEF SyncStatuses
<1>4. Known(AfterSync(x), table) /\ AfterSync(x).pc # "insert"
  <2>1. CASE x.last # NoUser
    <3> DEFINE e == [x.copy EXCEPT !.ref = x.last, !.sync = "SYNCED"]
    <3>1. e \in Rows /\ Begun(e)
      BY <1>1, <1>2, <1>3
    <3>2. AfterSync(x) = ToSave(x, x.visit, e, "done")
      BY <2>1 DEF AfterSync
    <3>. QED  BY <3>1, <3>2, ToSaveKnown
  <2>2. CASE x.last = NoUser
    <3> DEFINE e == [x.copy EXCEPT !.sync = "PENDING"]
    <3>1. e \in Rows /\ Begun(e)
      BY <1>1, <1>2, <1>3
    <3>2. AfterSync(x) = ToSave(x, x.visit, e, "done")
      BY <2>2 DEF AfterSync
    <3>. QED  BY <3>1, <3>2, ToSaveKnown
  <2>. QED  BY <2>1, <2>2
<1>5. Known(AfterDelete(x), table) /\ AfterDelete(x).pc # "insert"
  <2>1. CASE x.then = "force"
    <3> DEFINE e == [x.copy EXCEPT !.ref = NoUser]
    <3>1. e \in Rows /\ Begun(e)
      BY <1>1, <1>2, <1>3
    <3>2. AfterDelete(x) = ToSave(x, x.visit, e, "pending")
      BY <2>1 DEF AfterDelete
    <3>. QED  BY <3>1, <3>2, ToSaveKnown
  <2>2. CASE x.then # "force"
    <3> DEFINE e == [x.copy EXCEPT !.ref = NoUser, !.sync = "null"]
    <3>1. e \in Rows /\ Begun(e)
      BY <1>1, <1>2, <1>3
    <3>2. AfterDelete(x) = ToSave(x, x.visit, e, "done")
      BY <2>2 DEF AfterDelete
    <3>. QED  BY <3>1, <3>2, ToSaveKnown
  <2>. QED  BY <2>1, <2>2
<1>. QED  BY <1>4, <1>5

LEMMA AfterSaveKnown ==
    ASSUME NEW x \in Handlers, x.visit \in Visits, x.pc = "save", NEW table, Begun(x.copy),
           Begun(table[x.visit]), \A w \in x.todo : table[w].status # "ABSENT"
    PROVE  Known(AfterSave(x), table) /\ AfterSave(x).pc # "insert"
<1>1. table[x.visit].status # "ABSENT"
  BY DEF Begun
<1>2. CASE x.then = "done"
  BY <1>2, DoneKnown DEF AfterSave
<1>3. CASE x.then = "pending"
  <2> DEFINE e == [x.copy EXCEPT !.sync = "PENDING"]
  <2>1. e \in Rows /\ Begun(e)
    BY DEF Handlers, Rows, SyncStatuses, Begun
  <2>2. AfterSave(x) = ToSave(x, x.visit, e, "sync")
    BY <1>3 DEF AfterSave
  <2>. QED  BY <1>1, <2>1, <2>2, ToSaveKnown
<1>4. CASE x.then \notin {"done", "pending"}
  <2>1. AfterSave(x) = [x EXCEPT !.pc = "resolve", !.seen = NoRow]
    BY <1>4 DEF AfterSave
  <2>2. /\ AfterSave(x).pc = "resolve" /\ AfterSave(x).visit = x.visit
        /\ AfterSave(x).copy = x.copy /\ AfterSave(x).todo = x.todo
    BY <2>1 DEF Handlers
  <2>. QED  BY <1>1, <2>2 DEF Known, Editing
<1>. QED  BY <1>2, <1>3, <1>4

\* A handler moved and does not insert, the rows stayed.
LEMMA MoveKnown ==
    ASSUME TypeInv, BegunInv, NEW p \in Procs, NEW x, Known(x, row), x.pc # "insert",
           h' = [h EXCEPT ![p] = x], row' = row, surveyed' = surveyed
    PROVE  BegunInv'
<1>1. \A q \in Procs : Known(h'[q], row')
  BY DEF BegunInv, TypeInv, TypeOK
<1>2. Inserting(h')
  BY DEF BegunInv, Inserting, TypeInv, TypeOK
<1>. QED  BY <1>1, <1>2 DEF BegunInv, Inserting

LEMMA LoadKnown ==
    ASSUME TypeInv, BegunInv, NEW p \in Procs, NEW v \in Visits, NEW e \in Rows, Begun(e), row[v].status # "ABSENT",
           NEW t, Load(p, v, e, t)
    PROVE  BegunInv'
<1>1. h[p] \in Handlers /\ \A w \in h[p].todo : row[w].status # "ABSENT"
  BY DEF TypeInv, TypeOK, BegunInv, Known
<1>2. Known(ToSave(h[p], v, e, t), row) /\ ToSave(h[p], v, e, t).pc # "insert"
  BY <1>1, ToSaveKnown
<1>3. /\ h' = [h EXCEPT ![p] = ToSave(h[p], v, e, t)]
      /\ row' = row /\ surveyed' = surveyed
  BY DEF Load, Enter, db
<1>. QED  BY <1>2, <1>3, MoveKnown

LEMMA LoadCheckoutKnown ==
    ASSUME TypeInv, BegunInv, NEW p \in Procs, NEW v \in Visits, NEW x \in Handlers,
           row[v].status # "ABSENT", \A w \in x.todo : row[w].status # "ABSENT",
           LoadCheckout(p, v, x)
    PROVE  BegunInv'
<1>1. CASE row[v].status = "CHECKED_OUT"
  <2> DEFINE y == [x EXCEPT !.visit = v]
  <2>1. y \in Handlers /\ y.visit = v /\ y.todo = x.todo
    BY DEF Handlers
  <2>2. Begun(row[v])
    BY <1>1 DEF Begun
  <2>3. h' = [h EXCEPT ![p] = Done(y)] /\ row' = row /\ surveyed' = surveyed
    BY <1>1 DEF LoadCheckout, db
  <2> HIDE DEF y
  <2>4. Known(Done(y), row) /\ Done(y).pc # "insert"
    BY <2>1, <2>2, DoneKnown
  <2>. QED  BY <2>3, <2>4, MoveKnown
<1>2. CASE row[v].status # "CHECKED_OUT"
  <2> DEFINE e == [row[v] EXCEPT !.status = "CHECKED_OUT", !.out = TRUE, !.reenable = 0]
             t == IF row[v].ref # NoUser THEN "checkout" ELSE "done"
  <2>1. row[v] \in Rows /\ 0 \in 0..MaxTime
    BY ConstantsAssumption DEF TypeInv, TypeOK
  <2>2. e \in Rows /\ Begun(e)
    BY <2>1 DEF Rows, Statuses, Begun
  <2>3. Known(ToSave(x, v, e, t), row) /\ ToSave(x, v, e, t).pc # "insert"
    BY <2>2, ToSaveKnown
  <2>4. h' = [h EXCEPT ![p] = ToSave(x, v, e, t)] /\ row' = row /\ surveyed' = surveyed
    BY <1>2 DEF LoadCheckout, Enter, db
  <2>. QED  BY <2>3, <2>4, MoveKnown
<1>. QED  BY <1>1, <1>2

\* A handler knows about later rows what it knew about earlier ones, unless it
\* inserts a visit that was touched.
LEMMA ForwardKnown ==
    ASSUME NEW x, HandlerOK(x), NEW table, NEW later, Known(x, table),
           x.pc = "insert" => later[x.visit] = table[x.visit],
           \A v \in Visits : /\ table[v].status # "ABSENT" => later[v].status # "ABSENT"
                             /\ Begun(table[v]) => Begun(later[v])
    PROVE  Known(x, later)
<1>1. x.pc \in Editing \cup {"mail"} => x.visit \in Visits
  BY DEF HandlerOK
<1>2. x.todo \subseteq Visits
  BY DEF HandlerOK, Handlers
<1>. QED  BY <1>1, <1>2 DEF Known, Editing

LEMMA RequestKnown ==
    ASSUME TypeInv, BegunInv, NEW p \in Procs, Request(p) PROVE BegunInv'
<1>1. \A v \in Visits : row[v] \in Rows
  BY DEF TypeInv, TypeOK
<1>2. h[p] \in Handlers /\ \A w \in h[p].todo : row[w].status # "ABSENT"
  BY DEF TypeInv, TypeOK, BegunInv, Known
<1>3. 0 \in 0..MaxTime
  BY ConstantsAssumption
<1>a. CASE BulkCheckoutTenant(p) \/ \E S \in SUBSET Visits : BulkCheckoutSelected(p, S)
  <2>1. PICK S \in SUBSET Visits :
             /\ h' = [h EXCEPT ![p] = [Idle EXCEPT !.pc = "sweep", !.todo = S]]
             /\ row' = row /\ surveyed' = surveyed
             /\ \A v \in S : row[v].status # "ABSENT"
    BY <1>a DEF BulkCheckoutTenant, BulkCheckoutSelected, db, Active
  <2> DEFINE x == [Idle EXCEPT !.pc = "sweep", !.todo = S]
  <2>2. x.pc = "sweep" /\ x.todo = S
    BY DEF Idle
  <2>3. Known(x, row) /\ x.pc # "insert"
    BY <2>1, <2>2 DEF Known, Editing
  <2>. QED  BY <2>1, <2>3, MoveKnown
<1>b. ASSUME NEW v \in Visits, ScheduleVisit(p, v) \/ InviteVisitors(p, v) PROVE BegunInv'
  <2> DEFINE x == [Idle EXCEPT !.pc = "insert", !.visit = v]
  <2>1. /\ row[v] = NoRow /\ h' = [h EXCEPT ![p] = x] /\ row' = row /\ surveyed' = surveyed
        /\ \A q \in Procs : ~(h[q].pc = "insert" /\ h[q].visit = v)
    BY <1>b DEF ScheduleVisit, InviteVisitors, db
  <2>2. x.pc = "insert" /\ x.visit = v /\ x.todo = {}
    BY DEF Idle
  <2>3. row[v].status = "ABSENT"
    BY <2>1 DEF NoRow
  <2>4. Known(x, row)
    BY <2>2, <2>3 DEF Known, Editing
  <2>5. \A q \in Procs : Known(h'[q], row')
    BY <2>1, <2>4 DEF BegunInv, TypeInv, TypeOK
  <2>6. Inserting(h')
    BY <2>1, <2>2 DEF BegunInv, Inserting, TypeInv, TypeOK
  <2>. QED  BY <2>1, <2>5, <2>6 DEF BegunInv, Inserting
<1>c. ASSUME NEW v \in Visits, SpendFalseExitLink(p, v) \/ CheckoutOnExitDevice(p, v)
      PROVE  BegunInv'
  <2> DEFINE Start == {[Idle EXCEPT !.pc = "link", !.visit = v],
                       [Idle EXCEPT !.pc = "recheck", !.visit = v, !.exit = TRUE]}
  <2>1. PICK x \in Start : h' = [h EXCEPT ![p] = x] /\ row' = row /\ surveyed' = surveyed
    BY <1>c DEF SpendFalseExitLink, CheckoutOnExitDevice, db
  <2>2. Known(x, row) /\ x.pc # "insert"
    BY DEF Known, Editing, Idle
  <2>. QED  BY <2>1, <2>2, MoveKnown
<1>d. ASSUME NEW v \in Visits, CompletePreRegistration(p, v) \/ MarkAsNoShow(p, v)
      PROVE  BegunInv'
  <2>1. row[v].status # "ABSENT"
    BY <1>d DEF CompletePreRegistration, MarkAsNoShow
  <2>2. ASSUME NEW s \in {"PRE_REGISTERED", "NO_SHOW"}
        PROVE  [row[v] EXCEPT !.status = s] \in Rows /\ Begun([row[v] EXCEPT !.status = s])
    BY <1>1 DEF Rows, Statuses, Begun
  <2>. QED  BY <1>d, <2>1, <2>2, LoadKnown DEF CompletePreRegistration, MarkAsNoShow
<1>e. ASSUME NEW v \in Visits, CheckInVisit(p, v) PROVE BegunInv'
  <2> DEFINE e == [row[v] EXCEPT !.status = "CHECKED_IN", !.in = TRUE, !.out = FALSE, !.reenable = 0]
  <2>1. e \in Rows /\ Begun(e)
    BY <1>1, <1>3 DEF Rows, Statuses, Begun
  <2>2. row[v].status # "ABSENT" /\ Load(p, v, e, "sync")
    BY <1>e DEF CheckInVisit
  <2>. QED  BY <2>1, <2>2, LoadKnown
<1>f. ASSUME NEW v \in Visits, ForceSyncVisit(p, v) PROVE BegunInv'
  <2>1. row[v] \in Rows /\ Begun(row[v]) /\ row[v].status # "ABSENT"
    BY <1>1, <1>f DEF ForceSyncVisit, Begun
  <2>2. CASE row[v].ref # NoUser
    <3> DEFINE x == [Idle EXCEPT !.pc = "resolve", !.visit = v, !.copy = row[v], !.then = "force"]
    <3>1. h' = [h EXCEPT ![p] = x] /\ row' = row /\ surveyed' = surveyed
      BY <1>f, <2>2 DEF ForceSyncVisit, Enter, db
    <3>2. x.pc = "resolve" /\ x.visit = v /\ x.copy = row[v] /\ x.todo = {} /\ x.seen = NoRow
      BY DEF Idle
    <3>3. Known(x, row) /\ x.pc # "insert"
      BY <2>1, <3>2 DEF Known, Editing
    <3>. QED  BY <3>1, <3>3, MoveKnown
  <2>3. CASE row[v].ref = NoUser
    <3> DEFINE e == [row[v] EXCEPT !.sync = "PENDING"]
    <3>1. e \in Rows /\ Begun(e)
      BY <2>1 DEF Rows, SyncStatuses, Begun
    <3>2. Load(p, v, e, "sync")
      BY <1>f, <2>3 DEF ForceSyncVisit
    <3>. QED  BY <2>1, <3>1, <3>2, LoadKnown
  <2>. QED  BY <2>2, <2>3
<1>g. ASSUME NEW v \in Visits, NEW d \in 1..MaxTime, TemporaryReenableVisit(p, v, d)
      PROVE  BegunInv'
  <2> DEFINE e == [row[v] EXCEPT !.status = "CHECKED_IN", !.out = FALSE, !.reenable = d]
  <2>1. d \in 0..MaxTime
    BY ConstantsAssumption
  <2>2. e \in Rows /\ Begun(e)
    BY <1>1, <2>1 DEF Rows, Statuses, Begun
  <2>3. row[v].status # "ABSENT" /\ Load(p, v, e, "sync")
    BY <1>g DEF TemporaryReenableVisit
  <2>. QED  BY <2>2, <2>3, LoadKnown
<1>h. ASSUME NEW v \in Visits, CheckoutVisit(p, v) PROVE BegunInv'
  BY <1>h, <1>2, LoadCheckoutKnown DEF CheckoutVisit
<1>i. ASSUME NEW v \in Visits, SubmitExitSurvey(p, v) PROVE BegunInv'
  <2>1. Begun(row[v]) /\ row[v].status # "ABSENT" /\ Load(p, v, row[v], "done")
    BY <1>i DEF SubmitExitSurvey, BegunInv, Begun
  <2>. QED  BY <1>1, <2>1, LoadKnown
<1>j. ASSUME NEW v \in Visits, DismissFalseExit(p, v) PROVE BegunInv'
  <2> DEFINE e == [row[v] EXCEPT !.status = "CHECKED_OUT"]
  <2>1. e \in Rows /\ Begun(e)
    BY <1>1 DEF Rows, Statuses, Begun
  <2>2. row[v].status # "ABSENT" /\ Load(p, v, e, "done")
    BY <1>j DEF DismissFalseExit
  <2>. QED  BY <2>1, <2>2, LoadKnown
<1>. QED  BY <1>a, <1>b, <1>c, <1>d, <1>e, <1>f, <1>g, <1>h, <1>i, <1>j DEF Request

\* What a save makes of a visit.
LEMMA SaveBegins ==
    ASSUME TypeInv, BegunInv, NEW p \in Procs, Save(p)
    PROVE  /\ h[p].visit \in Visits
           /\ row' = [row EXCEPT ![h[p].visit] = row'[h[p].visit]]
           /\ Begun(row'[h[p].visit])
<1> DEFINE v == h[p].visit
           base == IF h[p].seen = NoRow THEN row[v] ELSE h[p].seen
<1>1. /\ v \in Visits /\ h[p].pc = "save" /\ Begun(h[p].copy)
      /\ Begun(h[p].seen) => Begun(row[v])
  BY DEF Save, TypeInv, TypeOK, HandlerOK, BegunInv, Known, Editing
<1>2. row' = [row EXCEPT ![v] = Merge(h[p].copy, base, row[v])]
  BY DEF Save
<1>3. row'[v].status = Pick(h[p].copy.status, base.status, row[v].status)
  BY <1>1, <1>2 DEF Merge, TypeInv, TypeOK
<1>4. Begun(row'[v])
  BY <1>1, <1>3 DEF Pick, Begun
<1>. QED  BY <1>1, <1>2, <1>4 DEF TypeInv, TypeOK

LEMMA StepKnown ==
    ASSUME TypeInv, BegunInv, NEW p \in Procs, Step(p) PROVE BegunInv'
<1>1. h[p] \in Handlers /\ HandlerOK(h[p]) /\ Known(h[p], row)
  BY DEF TypeInv, TypeOK, BegunInv
<1>2. \A v \in Visits : row[v] \in Rows
  BY DEF TypeInv, TypeOK
<1>3. \* a handler that edits a visit
      h[p].pc \in Editing => /\ h[p].visit \in Visits /\ Begun(h[p].copy)
                             /\ row[h[p].visit].status # "ABSENT"
                             /\ \A w \in h[p].todo : row[w].status # "ABSENT"
  BY <1>1 DEF HandlerOK, Known
<1>a. CASE InsertVisit(p)
  <2> DEFINE v == h[p].visit
             r == [NoRow EXCEPT !.status = "SCHEDULED"]
  <2>1. /\ v \in Visits /\ h[p].pc = "insert" /\ row[v].status = "ABSENT"
        /\ h' = [h EXCEPT ![p] = Idle] /\ row' = [row EXCEPT ![v] = r]
        /\ surveyed' = surveyed
    BY <1>1, <1>a DEF InsertVisit, HandlerOK, Known
  <2>2. ~Begun(row[v]) /\ r.status # "ABSENT"
    BY <2>1 DEF Begun, NoRow
  <2>3. \A w \in Visits : /\ row[w].status # "ABSENT" => row'[w].status # "ABSENT"
                          /\ Begun(row[w]) => Begun(row'[w])
    BY <2>1, <2>2 DEF TypeInv, TypeOK
  <2>4. ASSUME NEW q \in Procs PROVE Known(h'[q], row')
    <3>1. CASE q = p
      BY <2>1, <3>1, IdleKnown DEF TypeInv, TypeOK
    <3>2. CASE q # p
      <4>1. h'[q] = h[q] /\ HandlerOK(h[q]) /\ Known(h[q], row)
        BY <2>1, <3>2 DEF TypeInv, TypeOK, BegunInv
      <4>2. h[q].pc = "insert" => h[q].visit # v
        BY <2>1, <3>2 DEF BegunInv, Inserting
      <4>3. h[q].pc = "insert" => row'[h[q].visit] = row[h[q].visit]
        <5>1. h[q].pc = "insert" => h[q].visit \in Visits
          BY <4>1 DEF HandlerOK
        <5>. QED  BY <2>1, <4>2, <5>1 DEF TypeInv, TypeOK
      <4>. QED  BY <2>3, <4>1, <4>3, ForwardKnown
    <3>. QED  BY <3>1, <3>2
  <2>5. Inserting(h')
    BY <2>1 DEF BegunInv, Inserting, TypeInv, TypeOK, Idle
  <2>6. \A w \in surveyed' : Begun(row'[w])
    BY <2>1, <2>3 DEF BegunInv, TypeInv, TypeOK
  <2>. QED  BY <2>4, <2>5, <2>6 DEF BegunInv, Inserting
<1>b. CASE RunCheckout(p)
  <2> DEFINE x == [h[p] EXCEPT !.pc = "sweep", !.todo = {h[p].visit}]
  <2>1. row[h[p].visit].status = "CHECKED_IN" => Known(x, row) /\ x.pc # "insert"
    BY <1>1 DEF Known, Handlers, Editing
  <2>2. Known(Idle, row) /\ Idle.pc # "insert"
    BY IdleKnown DEF Idle
  <2>3. PICK y : Known(y, row) /\ y.pc # "insert" /\ h' = [h EXCEPT ![p] = y]
    BY <1>b, <2>1, <2>2 DEF RunCheckout
  <2>. QED  BY <1>b, <2>3, MoveKnown DEF RunCheckout, db
<1>c. CASE SendExitSurveyEmail(p)
  <2>1. h[p].pc = "mail" /\ Begun(row[h[p].visit])
    BY <1>1, <1>c DEF SendExitSurveyEmail, Known
  <2>2. /\ h' = [h EXCEPT ![p] = Idle] /\ row' = row
        /\ surveyed' \subseteq surveyed \cup {h[p].visit}
    BY <1>c DEF SendExitSurveyEmail
  <2>3. \A q \in Procs : Known(h'[q], row')
    BY <2>2, IdleKnown DEF BegunInv, TypeInv, TypeOK
  <2>4. Inserting(h')
    BY <2>2 DEF BegunInv, Inserting, TypeInv, TypeOK, Idle
  <2>5. \A v \in surveyed' : Begun(row'[v])
    BY <2>1, <2>2 DEF BegunInv
  <2>. QED  BY <2>3, <2>4, <2>5 DEF BegunInv, Inserting
<1>d. CASE ReportFalseExit(p)
  <2> DEFINE v == h[p].visit
             e == [row[v] EXCEPT !.status = "FALSE_EXIT_REPORTED"]
  <2>1. v \in Visits
    BY <1>1, <1>d DEF ReportFalseExit, HandlerOK
  <2>2. CASE row[v].status = "CHECKED_OUT" /\ Load(p, v, e, "done")
    <3>1. e \in Rows /\ Begun(e)
      BY <1>2, <2>1 DEF Rows, Statuses, Begun
    <3>. QED  BY <2>1, <2>2, <3>1, LoadKnown
  <2>3. CASE h' = [h EXCEPT ![p] = Idle] /\ UNCHANGED <<db, ghosts>>
    <3>1. Known(Idle, row) /\ Idle.pc # "insert"
      BY IdleKnown DEF Idle
    <3>. QED  BY <2>3, <3>1, MoveKnown DEF db
  <2>. QED  BY <1>d, <2>2, <2>3 DEF ReportFalseExit
<1>e. CASE Save(p)
  <2> DEFINE v == h[p].visit
  <2>1. /\ h[p].pc = "save" /\ h' = [h EXCEPT ![p] = AfterSave(h[p])] /\ surveyed' = surveyed
        /\ v \in Visits /\ Begun(row'[v]) /\ \A w \in Visits \ {v} : row'[w] = row[w]
    BY <1>e, SaveBegins DEF Save, TypeInv, TypeOK
  <2>2. \A w \in Visits : /\ row[w].status # "ABSENT" => row'[w].status # "ABSENT"
                          /\ Begun(row[w]) => Begun(row'[w])
    BY <2>1 DEF Begun
  <2>3. \A w \in h[p].todo : row'[w].status # "ABSENT"
    BY <1>1, <1>3, <2>1, <2>2 DEF Handlers, Editing
  <2>4. Known(AfterSave(h[p]), row') /\ AfterSave(h[p]).pc # "insert"
    BY <1>1, <1>3, <2>1, <2>3, AfterSaveKnown DEF Editing
  <2>5. ASSUME NEW q \in Procs PROVE Known(h'[q], row')
    <3>1. CASE q = p
      BY <2>1, <2>4, <3>1 DEF TypeInv, TypeOK
    <3>2. CASE q # p
      <4>1. h'[q] = h[q] /\ HandlerOK(h[q]) /\ Known(h[q], row)
        BY <2>1, <3>2 DEF TypeInv, TypeOK, BegunInv
      <4>2. h[q].pc = "insert" => h[q].visit \in Visits /\ h[q].visit # v
        BY <1>3, <2>1, <4>1 DEF HandlerOK, Known, Editing
      <4>. QED  BY <2>1, <2>2, <4>1, <4>2, ForwardKnown
    <3>. QED  BY <3>1, <3>2
  <2>6. Inserting(h')
    BY <2>1, <2>4 DEF BegunInv, Inserting, TypeInv, TypeOK
  <2>7. \A w \in surveyed' : Begun(row'[w])
    BY <2>1, <2>2 DEF BegunInv, TypeInv, TypeOK
  <2>. QED  BY <2>5, <2>6, <2>7 DEF BegunInv, Inserting
<1>f. CASE ResolveConnections(p)
  <2>1. h[p].pc = "resolve" /\ h[p].pc \in Editing
    BY <1>f DEF ResolveConnections, Editing
  <2>2. /\ Known(AfterDelete(h[p]), row) /\ AfterDelete(h[p]).pc # "insert"
    BY <1>1, <1>3, <2>1, AfterLoopKnown
  <2> DEFINE e == [h[p].copy EXCEPT !.sync = "NOT_CONFIGURED"]
             x == ToSave(h[p], h[p].visit, e, "done")
  <2>3. e \in Rows /\ Begun(e)
    BY <1>1, <1>3, <2>1 DEF Handlers, Rows, SyncStatuses, Begun
  <2>4. Known(x, row) /\ x.pc # "insert"
    BY <1>1, <1>3, <2>1, <2>3, ToSaveKnown
  <2> DEFINE y == [h[p] EXCEPT !.pc = "sync", !.conns = active, !.last = NoUser]
             z == [h[p] EXCEPT !.pc = "delete", !.conns = active]
  <2>5. Known(y, row) /\ y.pc # "insert" /\ Known(z, row) /\ z.pc # "insert"
    BY <1>1, <2>1 DEF Known, Handlers, Editing
  <2>6. PICK w : Known(w, row) /\ w.pc # "insert" /\ h' = [h EXCEPT ![p] = w]
    <3>1. h' \in {[h EXCEPT ![p] = w] : w \in {AfterDelete(h[p]), x, y, z}}
      BY <1>f DEF ResolveConnections
    <3> HIDE DEF x, y, z
    <3>. QED  BY <2>2, <2>4, <2>5, <3>1
  <2>. QED  BY <1>f, <2>6, MoveKnown DEF ResolveConnections, db
<1>g. CASE SyncWithConnection(p)
  <2> DEFINE c == First(h[p].conns)
             id == UserIdOn[c, VisitorOf[h[p].visit]]
             rest == h[p].conns \ {c}
             Go(x) == IF rest = {} THEN AfterSync([x EXCEPT !.conns = {}])
                      ELSE [x EXCEPT !.conns = rest]
  <2>1. /\ h[p].pc = "sync" /\ h[p].pc \in Editing
        /\ h[p].conns # {} /\ h[p].conns \in SUBSET Conns
    BY <1>1, <1>g DEF SyncWithConnection, HandlerOK, Handlers, Editing
  <2>2. id \in Users
    <3>1. c \in Conns
      BY <2>1, FirstInSet
    <3>. QED  BY <1>3, <2>1, <3>1, ConstantsAssumption
  <2>3. \E x \in {h[p], [h[p] EXCEPT !.last = id]} : h' = [h EXCEPT ![p] = Go(x)]
    <3> HIDE DEF Go
    <3>. QED  BY <1>g DEF SyncWithConnection, Go
  <2> HIDE DEF id
  <2>4. PICK x \in {h[p], [h[p] EXCEPT !.last = id]} : h' = [h EXCEPT ![p] = Go(x)]
    BY <2>3
  <2>5. /\ x \in Handlers /\ x.visit = h[p].visit /\ x.copy = h[p].copy /\ x.todo = h[p].todo
        /\ x.pc = "sync" /\ x.seen = h[p].seen
    BY <1>1, <2>1, <2>2 DEF Handlers
  <2>6. row' = row /\ surveyed' = surveyed
    BY <1>g DEF SyncWithConnection
  <2>7. CASE rest = {}
    <3> DEFINE y == [x EXCEPT !.conns = {}]
    <3>1. y \in Handlers /\ y.visit = x.visit /\ y.copy = x.copy /\ y.todo = x.todo
      BY <2>5 DEF Handlers
    <3> HIDE DEF y
    <3>2. Known(AfterSync(y), row) /\ AfterSync(y).pc # "insert"
      BY <1>3, <2>1, <2>5, <3>1, AfterLoopKnown
    <3>3. h' = [h EXCEPT ![p] = AfterSync(y)]
      BY <2>4, <2>7 DEF y
    <3>. QED  BY <2>6, <3>2, <3>3, MoveKnown
  <2>8. CASE rest # {}
    <3> DEFINE y == [x EXCEPT !.conns = rest]
    <3>1. Known(y, row) /\ y.pc # "insert"
      BY <1>1, <2>1, <2>5 DEF Known, Handlers, Editing
    <3>. QED  BY <2>4, <2>6, <2>8, <3>1, MoveKnown
  <2>. QED  BY <2>7, <2>8
<1>h. CASE DeleteFromConnection(p)
  <2> DEFINE rest == h[p].conns \ {First(h[p].conns)}
  <2>1. h[p].pc = "delete" /\ h[p].pc \in Editing
    BY <1>h DEF DeleteFromConnection, Editing
  <2> DEFINE y == [h[p] EXCEPT !.conns = {}]
             z == [h[p] EXCEPT !.conns = rest]
  <2>2. y \in Handlers /\ y.visit = h[p].visit /\ y.copy = h[p].copy /\ y.todo = h[p].todo
    BY <1>1 DEF Handlers
  <2>3. Known(z, row) /\ z.pc # "insert"
    BY <1>1, <2>1 DEF Known, Handlers, Editing
  <2>4. h' = [h EXCEPT ![p] = AfterDelete(y)] \/ h' = [h EXCEPT ![p] = z]
    BY <1>h DEF DeleteFromConnection
  <2> HIDE DEF y, z
  <2>5. Known(AfterDelete(y), row) /\ AfterDelete(y).pc # "insert"
    BY <1>3, <2>1, <2>2, AfterLoopKnown
  <2>. QED  BY <1>h, <2>3, <2>4, <2>5, MoveKnown DEF DeleteFromConnection
<1>i. ASSUME NEW v \in Visits, SweepNext(p, v) PROVE BegunInv'
  <2> DEFINE x == [h[p] EXCEPT !.todo = @ \ {v}]
  <2>1. x \in Handlers /\ x.todo \subseteq h[p].todo
    BY <1>1 DEF Handlers
  <2>2. row[v].status # "ABSENT" /\ \A w \in x.todo : row[w].status # "ABSENT"
    BY <1>1, <1>i, <2>1 DEF Known, SweepNext
  <2>3. LoadCheckout(p, v, x)
    BY <1>i DEF SweepNext
  <2>. QED  BY <2>1, <2>2, <2>3, LoadCheckoutKnown
<1>. QED  BY <1>a, <1>b, <1>c, <1>d, <1>e, <1>f, <1>g, <1>h, <1>i DEF Step

LEMMA CompareKnown ==
    ASSUME TypeInv, BegunInv, NEW p \in Procs, Compare(p) PROVE BegunInv'
<1> DEFINE x == [h[p] EXCEPT !.seen = row[h[p].visit]]
<1>1. h[p] \in Handlers /\ Known(h[p], row) /\ h[p].pc = "save"
  BY DEF TypeInv, TypeOK, BegunInv, Compare
<1>2. Known(x, row) /\ x.pc # "insert"
  BY <1>1 DEF Known, Handlers, Editing
<1>. QED  BY <1>2, MoveKnown DEF Compare, db

LEMMA BegunStep == TypeInv /\ BegunInv /\ [SplitNext]_vars => BegunInv'
<1> SUFFICES ASSUME TypeInv, BegunInv, [SplitNext]_vars PROVE BegunInv'
  OBVIOUS
<1>1. ASSUME NEW p \in Requests, Request(p) PROVE BegunInv'
  BY <1>1, RequestKnown DEF Procs
<1>2. ASSUME NEW p \in Procs, Step(p) PROVE BegunInv'
  BY <1>2, StepKnown
<1>3. CASE CloseExpiredTemporaryReenablements
  <2> DEFINE x == [Idle EXCEPT !.pc = "sweep", !.todo = {v \in Visits : Expired(v)}]
  <2>1. x.pc = "sweep" /\ x.todo = {v \in Visits : Expired(v)}
    BY DEF Idle
  <2>2. Known(x, row) /\ x.pc # "insert"
    BY <2>1 DEF Known, Editing, Expired
  <2>3. h' = [h EXCEPT ![Closer] = x] /\ row' = row /\ surveyed' = surveyed
    BY <1>3 DEF CloseExpiredTemporaryReenablements, db
  <2>. QED  BY <2>2, <2>3, MoveKnown DEF Procs
<1>4. CASE Environment
  <2>1. row' = row /\ surveyed' = surveyed /\ (h' = h \/ h' = [p \in Procs |-> Idle])
    BY <1>4 DEF Environment, Tick, Crash, SwitchConnection, DeleteOrphanedBioStarUser, db
  <2>2. CASE h' = h
    BY <2>1, <2>2 DEF BegunInv, Inserting
  <2>3. CASE h' = [p \in Procs |-> Idle]
    <3>1. Inserting(h')
      BY <2>3 DEF Inserting, Idle
    <3>. QED  BY <2>1, <2>3, <3>1, IdleKnown DEF BegunInv, Inserting
  <2>. QED  BY <2>1, <2>2, <2>3
<1>5. ASSUME NEW p \in Procs, Compare(p) PROVE BegunInv'
  BY <1>5, CompareKnown
<1>6. CASE UNCHANGED vars
  BY <1>6 DEF vars, BegunInv, Inserting
<1>. QED  BY <1>1, <1>2, <1>3, <1>4, <1>5, <1>6 DEF SplitNext, Next

LEMMA BegunInit == Init => BegunInv
<1> SUFFICES ASSUME Init PROVE BegunInv
  OBVIOUS
<1>1. \A p \in Procs : h[p] = Idle /\ Known(Idle, row)
  BY IdleKnown DEF Init
<1>2. Idle.pc = "idle" /\ surveyed = {}
  BY DEF Idle, Init
<1>. QED  BY <1>1, <1>2 DEF BegunInv, Inserting

\* Every step but an insert and a save leaves the rows alone.
LEMMA RowsForward ==
    ASSUME TypeInv, BegunInv, [SplitNext]_vars, NEW v \in Visits, Begun(row[v])
    PROVE  Begun(row'[v])
<1>1. ASSUME NEW p \in Procs, InsertVisit(p) PROVE Begun(row'[v])
  <2>1. h[p].visit \in Visits /\ ~Begun(row[h[p].visit])
    BY <1>1 DEF InsertVisit, TypeInv, HandlerOK, BegunInv, Known, Begun
  <2>. QED  BY <1>1, <2>1 DEF InsertVisit, TypeInv, TypeOK
<1>2. ASSUME NEW p \in Procs, Save(p) PROVE Begun(row'[v])
  BY <1>2, SaveBegins DEF TypeInv, TypeOK
<1>3. ASSUME NEW p \in Procs, Step(p), ~InsertVisit(p), ~Save(p) PROVE row' = row
  BY <1>3 DEF Step, RunCheckout, SendExitSurveyEmail, ReportFalseExit, ResolveConnections,
              SyncWithConnection, DeleteFromConnection, SweepNext, Load, LoadCheckout, Enter, db
<1>4. ASSUME NEW p \in Procs, Request(p) PROVE row' = row
  BY <1>4 DEF Request, BulkCheckoutTenant, BulkCheckoutSelected, ScheduleVisit, InviteVisitors,
              CompletePreRegistration, MarkAsNoShow, CheckInVisit, ForceSyncVisit,
              TemporaryReenableVisit, CheckoutVisit, CheckoutOnExitDevice, SubmitExitSurvey,
              SpendFalseExitLink, DismissFalseExit, Load, LoadCheckout, Enter, db
<1>5. CloseExpiredTemporaryReenablements => row' = row
  BY DEF CloseExpiredTemporaryReenablements, db
<1>6. Environment => row' = row
  BY DEF Environment, Tick, Crash, SwitchConnection, DeleteOrphanedBioStarUser, db
<1>7. ASSUME NEW p \in Procs, Compare(p) PROVE row' = row
  BY <1>7 DEF Compare, db
<1>8. UNCHANGED vars => row' = row
  BY DEF vars
<1>. QED
  BY <1>1, <1>2, <1>3, <1>4, <1>5, <1>6, <1>7, <1>8 DEF SplitNext, Next, Procs

\* No interleaving of handlers that overwrite rows with stale copies takes a
\* visit that has left SCHEDULED back to it, for any number of visits, handlers
\* and connections, and even when a save writes what differed from an older row.
THEOREM ScheduledOnce == SplitSpec => NeverBackToScheduled
<1>1. TypeInv /\ BegunInv /\ [SplitNext]_vars =>
        [\A v \in Visits : Begun(row[v]) => Begun(row'[v])]_vars
  BY RowsForward
<1>. QED
  BY <1>1, TypeInit, TypeStep, BegunInit, BegunStep, PTL DEF SplitSpec, NeverBackToScheduled

----------------------------------------------------------------------------
(* The life cycle of a visit.                                               *)


\* Saving entity e over row r is a step of the diagram, or none.
Fits(r, e) == \/ StageOf(r.status) = StageOf(e.status)
              \/ <<StageOf(r.status), StageOf(e.status)>> \in Lifecycle!Diagram

\* The entity of handler x is one step ahead of its row until it is saved, and
\* level with it from then on; it knows of the admission that the row has.
Follows(x, table) ==
    /\ IF x.pc = "save"
       THEN /\ Fits(table[x.visit], x.copy)
            /\ x.seen # NoRow => x.seen.status = table[x.visit].status
       ELSE x.copy.status = table[x.visit].status
    /\ table[x.visit].in => x.copy.in

\* Unless handlers overlapped, a handler that has an entity is the only one of
\* its visitor and follows the row.
Works(x, u) == x.pc \in Editing /\ VisitorOf[x.visit] = u
FollowInv ==
    \A p \in Procs : h[p].pc \in Editing /\ VisitorOf[h[p].visit] \notin overlapped =>
        /\ Follows(h[p], row)
        /\ \A q \in Procs \ {p} : ~Works(h[q], VisitorOf[h[p].visit])

LEMMA BusyWorks == \A p \in Procs : \A u : Busy(p, u) <=> Works(h[p], u)
BY DEF Busy, Works, Editing

LEMMA StageValues ==
    /\ StageOf("ABSENT") = "none" /\ StageOf("SCHEDULED") = "booked"
    /\ StageOf("PRE_REGISTERED") = "registered" /\ StageOf("NO_SHOW") = "missed"
    /\ StageOf("CHECKED_IN") = "inside" /\ StageOf("FALSE_EXIT_REPORTED") = "disputed"
    /\ StageOf("CHECKED_OUT") = "left" /\ StageOf("CANCELLED") = "left"
BY DEF StageOf

\* A handler stops editing, or goes on with the same visit.
LEMMA MoveFollows ==
    ASSUME TypeInv, FollowInv, NEW p \in Procs, NEW x,
           h' = [h EXCEPT ![p] = x], row' = row, overlapped \subseteq overlapped',
           x.pc \in Editing => /\ h[p].pc \in Editing /\ x.visit = h[p].visit
                               /\ Follows(h[p], row) => Follows(x, row)
    PROVE  FollowInv'
<1> SUFFICES ASSUME NEW q \in Procs, h'[q].pc \in Editing, VisitorOf[h'[q].visit] \notin overlapped'
             PROVE  /\ Follows(h'[q], row')
                    /\ \A r \in Procs \ {q} : ~Works(h'[r], VisitorOf[h'[q].visit])
  BY DEF FollowInv
<1>1. h'[p] = x /\ \A r \in Procs \ {p} : h'[r] = h[r]
  BY DEF TypeInv, TypeOK
<1>2. h[q].pc \in Editing /\ h[q].visit = h'[q].visit
  BY <1>1
<1>3. /\ Follows(h[q], row)
      /\ \A r \in Procs \ {q} : ~Works(h[r], VisitorOf[h[q].visit])
  BY <1>2 DEF FollowInv
<1>4. Follows(h'[q], row')
  BY <1>1, <1>3
<1>5. ASSUME NEW r \in Procs \ {q} PROVE ~Works(h'[r], VisitorOf[h'[q].visit])
  BY <1>1, <1>2, <1>3 DEF Works
<1>. QED  BY <1>4, <1>5

\* A handler starts to edit visit v.
LEMMA EnterFollows ==
    ASSUME TypeInv, FollowInv, NEW p \in Procs, NEW v \in Visits, NEW x,
           h' = [h EXCEPT ![p] = x], Enter(p, v), x.visit = v, Follows(x, row)
    PROVE  FollowInv'
<1> SUFFICES ASSUME NEW q \in Procs, h'[q].pc \in Editing, VisitorOf[h'[q].visit] \notin overlapped'
             PROVE  /\ Follows(h'[q], row')
                    /\ \A r \in Procs \ {q} : ~Works(h'[r], VisitorOf[h'[q].visit])
  BY DEF FollowInv
<1>1. h'[p] = x /\ \A r \in Procs \ {p} : h'[r] = h[r]
  BY DEF TypeInv, TypeOK
<1>2. /\ row' = row /\ overlapped \subseteq overlapped'
      /\ (\E r \in Procs \ {p} : Works(h[r], VisitorOf[v])) => VisitorOf[v] \in overlapped'
  BY BusyWorks DEF Enter, db
<1>3. CASE q = p
  <2>1. ASSUME NEW r \in Procs \ {p} PROVE ~Works(h'[r], VisitorOf[v])
    BY <1>1, <1>2, <1>3 DEF Works
  <2>. QED  BY <1>1, <1>2, <1>3, <2>1
<1>4. CASE q # p
  <2>1. /\ Follows(h[q], row)
        /\ \A r \in Procs \ {q} : ~Works(h[r], VisitorOf[h[q].visit])
    BY <1>1, <1>2, <1>4 DEF FollowInv
  <2>2. VisitorOf[h[q].visit] # VisitorOf[v]
    <3>1. VisitorOf[h[q].visit] = VisitorOf[v] => Works(h[q], VisitorOf[v])
      BY <1>1, <1>4 DEF Works
    <3>. QED  BY <1>1, <1>2, <1>4, <3>1
  <2>3. ASSUME NEW r \in Procs \ {q} PROVE ~Works(h'[r], VisitorOf[h[q].visit])
    BY <1>1, <2>1, <2>2 DEF Works
  <2>. QED  BY <1>1, <1>2, <1>4, <2>1, <2>3
<1>. QED  BY <1>3, <1>4

LEMMA LoadFollows ==
    ASSUME TypeInv, FollowInv, NEW p \in Procs, NEW v \in Visits, NEW e \in Rows, Fits(row[v], e),
           row[v].in => e.in, NEW t, Load(p, v, e, t)
    PROVE  FollowInv'
<1> DEFINE x == ToSave(h[p], v, e, t)
<1>1. x.pc = "save" /\ x.visit = v /\ x.copy = e /\ x.seen = NoRow
  BY DEF ToSave, TypeInv, TypeOK, Handlers
<1>2. h' = [h EXCEPT ![p] = x] /\ Enter(p, v)
  BY DEF Load
<1>3. Follows(x, row)
  BY <1>1 DEF Follows
<1> HIDE DEF x
<1>. QED  BY <1>1, <1>2, <1>3, EnterFollows

LEMMA LoadCheckoutFollows ==
    ASSUME TypeInv, FollowInv, NEW p \in Procs, NEW v \in Visits, NEW x \in Handlers,
           row[v].status # "ABSENT", LoadCheckout(p, v, x)
    PROVE  FollowInv'
<1>1. row[v] \in Rows
  BY DEF TypeInv, TypeOK
<1>2. CASE row[v].status = "CHECKED_OUT"
  <2> DEFINE y == [x EXCEPT !.visit = v]
  <2>1. y \in Handlers
    BY DEF Handlers
  <2> HIDE DEF y
  <2>2. Done(y).pc \notin Editing
    BY <2>1 DEF Done, Idle, Editing, Handlers
  <2>3. h' = [h EXCEPT ![p] = Done(y)] /\ row' = row /\ overlapped' = overlapped
    BY <1>2 DEF LoadCheckout, db, ghosts, y
  <2>. QED  BY <2>2, <2>3, MoveFollows
<1>3. CASE row[v].status # "CHECKED_OUT"
  <2> DEFINE e == [row[v] EXCEPT !.status = "CHECKED_OUT", !.out = TRUE, !.reenable = 0]
             t == IF row[v].ref # NoUser THEN "checkout" ELSE "done"
             y == ToSave(x, v, e, t)
  <2>1. e.status = "CHECKED_OUT" /\ e.in = row[v].in
    BY <1>1 DEF Rows
  <2>2. Fits(row[v], e)
    BY <1>1, <2>1, StageValues DEF Fits, Lifecycle!Diagram, Rows, Statuses
  <2> HIDE DEF e
  <2>3. y.pc = "save" /\ y.visit = v /\ y.copy = e /\ y.seen = NoRow
    BY DEF ToSave, Handlers
  <2>4. Follows(y, row)
    BY <2>1, <2>2, <2>3 DEF Follows
  <2>5. h' = [h EXCEPT ![p] = y] /\ Enter(p, v)
    BY <1>3 DEF LoadCheckout, e
  <2> HIDE DEF y
  <2>. QED  BY <2>3, <2>4, <2>5, EnterFollows
<1>. QED  BY <1>2, <1>3

LEMMA RequestFollows ==
    ASSUME TypeInv, BegunInv, FollowInv, NEW p \in Procs, Request(p) PROVE FollowInv'
<1>1. \A v \in Visits : row[v] \in Rows
  BY DEF TypeInv, TypeOK
<1>2. h[p] \in Handlers
  BY DEF TypeInv, TypeOK
<1>3. 0 \in 0..MaxTime
  BY ConstantsAssumption
<1>a. CASE \/ BulkCheckoutTenant(p) \/ \E S \in SUBSET Visits : BulkCheckoutSelected(p, S)
           \/ \E v \in Visits : \/ ScheduleVisit(p, v) \/ InviteVisitors(p, v)
                                \/ SpendFalseExitLink(p, v) \/ CheckoutOnExitDevice(p, v)
  <2>1. ASSUME NEW S, h' = [h EXCEPT ![p] = [Idle EXCEPT !.pc = "sweep", !.todo = S]],
               row' = row, overlapped' = overlapped
        PROVE  FollowInv'
    <3>1. [Idle EXCEPT !.pc = "sweep", !.todo = S].pc \notin Editing
      BY DEF Idle, Editing
    <3>. QED  BY <2>1, <3>1, MoveFollows
  <2>2. ASSUME NEW pc \in {"insert", "link"}, NEW v \in Visits,
               h' = [h EXCEPT ![p] = [Idle EXCEPT !.pc = pc, !.visit = v]],
               row' = row, overlapped' = overlapped
        PROVE  FollowInv'
    <3>1. [Idle EXCEPT !.pc = pc, !.visit = v].pc \notin Editing
      BY DEF Idle, Editing
    <3>. QED  BY <2>2, <3>1, MoveFollows
  <2>3. ASSUME NEW v \in Visits, CheckoutOnExitDevice(p, v) PROVE FollowInv'
    <3>1. [Idle EXCEPT !.pc = "recheck", !.visit = v, !.exit = TRUE].pc \notin Editing
      BY DEF Idle, Editing
    <3>. QED  BY <2>3, <3>1, MoveFollows DEF CheckoutOnExitDevice, db, ghosts
  <2>4. ASSUME NEW v \in Visits, ScheduleVisit(p, v) \/ InviteVisitors(p, v) \/ SpendFalseExitLink(p, v)
        PROVE  FollowInv'
    BY <2>2, <2>4 DEF ScheduleVisit, InviteVisitors, SpendFalseExitLink, db, ghosts
  <2>5. ASSUME BulkCheckoutTenant(p) \/ \E S \in SUBSET Visits : BulkCheckoutSelected(p, S)
        PROVE  FollowInv'
    BY <2>1, <2>5 DEF BulkCheckoutTenant, BulkCheckoutSelected, db, ghosts
  <2>. QED  BY <1>a, <2>3, <2>4, <2>5
<1>b. ASSUME NEW v \in Visits,
             \/ CompletePreRegistration(p, v) \/ MarkAsNoShow(p, v)
             \/ DismissFalseExit(p, v) \/ SubmitExitSurvey(p, v)
      PROVE  FollowInv'
  <2>1. ASSUME NEW s \in Statuses
        PROVE  /\ [row[v] EXCEPT !.status = s] \in Rows /\ [row[v] EXCEPT !.status = s].status = s
               /\ [row[v] EXCEPT !.status = s].in = row[v].in
    BY <1>1 DEF Rows
  <2>2. PICK s \in Statuses :
             /\ \E t : Load(p, v, [row[v] EXCEPT !.status = s], t)
             /\ \/ s = row[v].status
                \/ s = "PRE_REGISTERED" /\ row[v].status = "SCHEDULED"
                \/ s = "NO_SHOW" /\ row[v].status \in {"SCHEDULED", "PRE_REGISTERED"}
                \/ s = "CHECKED_OUT" /\ row[v].status = "FALSE_EXIT_REPORTED"
    <3>1. row[v].status \in Statuses /\ [row[v] EXCEPT !.status = row[v].status] = row[v]
      BY <1>1 DEF Rows
    <3>2. {"PRE_REGISTERED", "NO_SHOW", "CHECKED_OUT"} \subseteq Statuses
      BY DEF Statuses
    <3>3. CASE CompletePreRegistration(p, v)
      BY <3>2, <3>3 DEF CompletePreRegistration
    <3>4. CASE MarkAsNoShow(p, v)
      BY <3>2, <3>4 DEF MarkAsNoShow
    <3>5. CASE DismissFalseExit(p, v)
      BY <3>2, <3>5 DEF DismissFalseExit
    <3>6. CASE SubmitExitSurvey(p, v)
      BY <3>1, <3>6 DEF SubmitExitSurvey
    <3>. QED  BY <1>b, <3>3, <3>4, <3>5, <3>6
  <2>3. Fits(row[v], [row[v] EXCEPT !.status = s])
    BY <2>1, <2>2, StageValues DEF Fits, Lifecycle!Diagram
  <2>. QED  BY <2>1, <2>2, <2>3, LoadFollows
<1>c. ASSUME NEW v \in Visits, NEW d \in 0..MaxTime,
             CheckInVisit(p, v) \/ TemporaryReenableVisit(p, v, d)
      PROVE  FollowInv'
  <2> DEFINE e == IF CheckInVisit(p, v)
                  THEN [row[v] EXCEPT !.status = "CHECKED_IN", !.in = TRUE, !.out = FALSE, !.reenable = 0]
                  ELSE [row[v] EXCEPT !.status = "CHECKED_IN", !.out = FALSE, !.reenable = d]
  <2>1. e \in Rows /\ e.status = "CHECKED_IN" /\ (row[v].in => e.in)
    BY <1>1, <1>3 DEF Rows, Statuses
  <2>2. Load(p, v, e, "sync")
    BY <1>c DEF CheckInVisit, TemporaryReenableVisit
  <2>3. row[v].status \in {"SCHEDULED", "PRE_REGISTERED", "CHECKED_OUT", "NO_SHOW", "FALSE_EXIT_REPORTED"}
    BY <1>1, <1>c DEF CheckInVisit, TemporaryReenableVisit, Rows, Statuses
  <2> HIDE DEF e
  <2>4. Fits(row[v], e)
    BY <2>1, <2>3, StageValues DEF Fits, Lifecycle!Diagram
  <2>. QED  BY <2>1, <2>2, <2>4, LoadFollows
<1>d. ASSUME NEW v \in Visits, ForceSyncVisit(p, v) PROVE FollowInv'
  <2>1. CASE row[v].ref # NoUser
    <3> DEFINE x == [Idle EXCEPT !.pc = "resolve", !.visit = v, !.copy = row[v], !.then = "force"]
    <3>1. h' = [h EXCEPT ![p] = x] /\ Enter(p, v)
      BY <1>d, <2>1 DEF ForceSyncVisit
    <3>2. x.pc = "resolve" /\ x.visit = v /\ x.copy = row[v]
      BY DEF Idle
    <3> HIDE DEF x
    <3>3. Follows(x, row)
      BY <3>2 DEF Follows
    <3>. QED  BY <3>1, <3>2, <3>3, EnterFollows
  <2>2. CASE row[v].ref = NoUser
    <3> DEFINE e == [row[v] EXCEPT !.sync = "PENDING"]
    <3>1. e \in Rows /\ e.status = row[v].status /\ e.in = row[v].in
      BY <1>1 DEF Rows, SyncStatuses
    <3>2. Load(p, v, e, "sync")
      BY <1>d, <2>2 DEF ForceSyncVisit
    <3>. QED  BY <3>1, <3>2, LoadFollows DEF Fits
  <2>. QED  BY <2>1, <2>2
<1>e. ASSUME NEW v \in Visits, CheckoutVisit(p, v) PROVE FollowInv'
  BY <1>2, <1>e, LoadCheckoutFollows DEF CheckoutVisit
<1>4. ASSUME NEW v \in Visits, NEW d \in 1..MaxTime, TemporaryReenableVisit(p, v, d) PROVE FollowInv'
  <2>1. d \in 0..MaxTime
    BY ConstantsAssumption
  <2>. QED  BY <1>4, <1>c, <2>1
<1>. QED  BY <1>3, <1>4, <1>a, <1>b, <1>c, <1>d, <1>e DEF Request

\* The loops end with a save of the status that the row has.
LEMMA AfterLoopFollows ==
    ASSUME NEW x \in Handlers, NEW table, x.copy.status = table[x.visit].status,
           table[x.visit].in => x.copy.in
    PROVE  /\ AfterSync(x).visit = x.visit /\ Follows(AfterSync(x), table)
           /\ AfterDelete(x).visit = x.visit /\ Follows(AfterDelete(x), table)
<1>1. ASSUME NEW e \in Rows, NEW t, e.status = x.copy.status, e.in = x.copy.in
      PROVE  ToSave(x, x.visit, e, t).visit = x.visit /\ Follows(ToSave(x, x.visit, e, t), table)
  BY <1>1 DEF ToSave, Handlers, Follows, Fits
<1> DEFINE c == x.copy
<1>2. c \in Rows /\ x.last \in Users \cup {NoUser}
  BY DEF Handlers
<1>3. ASSUME NEW u \in Users \cup {NoUser}, NEW st \in SyncStatuses
      PROVE  LET e == [c EXCEPT !.ref = u, !.sync = st] IN
               e \in Rows /\ e.status = c.status /\ e.in = c.in
  BY <1>2 DEF Rows
<1>4. ASSUME NEW st \in SyncStatuses
      PROVE  LET e == [c EXCEPT !.sync = st] IN e \in Rows /\ e.status = c.status /\ e.in = c.in
  BY <1>2 DEF Rows
<1>6. LET e == [c EXCEPT !.ref = NoUser] IN e \in Rows /\ e.status = c.status /\ e.in = c.in
  BY <1>2 DEF Rows
<1>7. {"SYNCED", "PENDING", "null"} \subseteq SyncStatuses
  BY DEF SyncStatuses
<1> HIDE DEF c
<1>5. x.copy = c
  BY DEF c
<1> DEFINE Saves(y) == \E e \in Rows, t \in {"done", "pending"} :
                            /\ e.status = c.status /\ e.in = c.in
                            /\ y = ToSave(x, x.visit, e, t)
<1>8. Saves(AfterSync(x))
  BY <1>2, <1>3, <1>4, <1>5, <1>7 DEF AfterSync
<1>9. Saves(AfterDelete(x))
  <2>1. CASE x.then = "force"
    <3>1. AfterDelete(x) = ToSave(x, x.visit, [c EXCEPT !.ref = NoUser], "pending")
      BY <1>5, <2>1 DEF AfterDelete
    <3>. QED  BY <1>6, <3>1
  <2>2. CASE x.then # "force"
    <3>1. AfterDelete(x) = ToSave(x, x.visit, [c EXCEPT !.ref = NoUser, !.sync = "null"], "done")
      BY <1>5, <2>2 DEF AfterDelete
    <3>2. NoUser \in Users \cup {NoUser} /\ "null" \in SyncStatuses
      BY <1>7
    <3>. QED  BY <1>3, <3>1, <3>2
  <2>. QED  BY <2>1, <2>2
<1>10. ASSUME NEW y, Saves(y) PROVE y.visit = x.visit /\ Follows(y, table)
  BY <1>1, <1>5, <1>10
<1> HIDE DEF Saves
<1>. QED  BY <1>8, <1>9, <1>10

LEMMA AfterSaveFollows ==
    ASSUME NEW x \in Handlers, NEW table, x.copy.status = table[x.visit].status,
           table[x.visit].in => x.copy.in
    PROVE  AfterSave(x).pc \in Editing => AfterSave(x).visit = x.visit /\ Follows(AfterSave(x), table)
<1>1. CASE x.then = "done"
  BY <1>1 DEF AfterSave, Done, Idle, Editing, Handlers
<1>2. CASE x.then = "pending"
  <2> DEFINE e == [x.copy EXCEPT !.sync = "PENDING"]
  <2>1. e \in Rows /\ e.status = x.copy.status /\ e.in = x.copy.in
    BY DEF Handlers, Rows, SyncStatuses
  <2> HIDE DEF e
  <2>2. AfterSave(x) = ToSave(x, x.visit, e, "sync")
    BY <1>2 DEF AfterSave, e
  <2>. QED  BY <2>1, <2>2 DEF ToSave, Handlers, Follows, Fits
<1>3. CASE x.then \notin {"done", "pending"}
  <2>1. AfterSave(x) = [x EXCEPT !.pc = "resolve", !.seen = NoRow]
    BY <1>3 DEF AfterSave
  <2>. QED  BY <2>1 DEF Handlers, Follows
<1>. QED  BY <1>1, <1>2, <1>3

\* What a save does to its row when no handlers overlapped: it takes the
\* status of the entity.  What it does otherwise is in SaveBegins.
LEMMA SaveWrites ==
    ASSUME TypeInv, BegunInv, FollowInv, NEW p \in Procs, Save(p),
           VisitorOf[h[p].visit] \notin overlapped
    PROVE  /\ row'[h[p].visit].status = h[p].copy.status
           /\ Fits(row[h[p].visit], h[p].copy)
           /\ row[h[p].visit].in => row'[h[p].visit].in
           /\ row'[h[p].visit].in => h[p].copy.in
<1> DEFINE v == h[p].visit
           base == IF h[p].seen = NoRow THEN row[v] ELSE h[p].seen
<1>1. v \in Visits /\ h[p].pc = "save" /\ h[p].pc \in Editing
  BY DEF Save, TypeInv, HandlerOK, Editing
<1>2. Follows(h[p], row)
  BY <1>1 DEF FollowInv
<1>3. row'[v] = Merge(h[p].copy, base, row[v])
  BY <1>1 DEF Save, TypeInv, TypeOK
<1>4. row'[v].status = Pick(h[p].copy.status, base.status, row[v].status)
  BY <1>3 DEF Merge
<1>5. base.status = row[v].status
  BY <1>1, <1>2 DEF Follows
<1>6. row'[v].status = h[p].copy.status
  BY <1>4, <1>5 DEF Pick
<1>7. row'[v].in = Pick(h[p].copy.in, base.in, row[v].in)
  BY <1>3 DEF Merge
<1>8. row[v].in => h[p].copy.in
  BY <1>2 DEF Follows
<1>9. (row[v].in => row'[v].in) /\ (row'[v].in => h[p].copy.in)
  BY <1>7, <1>8 DEF Pick
<1>. QED  BY <1>1, <1>2, <1>6, <1>9 DEF Follows

LEMMA SaveFollows ==
    ASSUME TypeInv, BegunInv, FollowInv, NEW p \in Procs, Save(p) PROVE FollowInv'
<1> DEFINE v == h[p].visit
           x == AfterSave(h[p])
<1>1. /\ v \in Visits /\ h[p].pc \in Editing /\ h[p] \in Handlers
      /\ overlapped' = overlapped /\ h' = [h EXCEPT ![p] = x]
  BY DEF Save, TypeInv, TypeOK, HandlerOK, Editing, ghosts
<1>2. \A w \in Visits \ {v} : row'[w] = row[w]
  BY SaveBegins DEF TypeInv, TypeOK
<1>3. h'[p] = x /\ \A r \in Procs \ {p} : h'[r] = h[r]
  BY <1>1 DEF TypeInv, TypeOK
<1>4. x.pc \in Editing /\ VisitorOf[v] \notin overlapped => x.visit = v /\ Follows(x, row')
  BY <1>1, SaveWrites, AfterSaveFollows
<1>5. x.pc \in Editing => x.visit = v
  <2>1. h[p].then \in {"done", "pending"} \/ h[p].then \notin {"done", "pending"}
    OBVIOUS
  <2>. QED  BY <1>1, <2>1 DEF AfterSave, ToSave, Done, Idle, Editing, Handlers
<1> HIDE DEF x
<1> SUFFICES ASSUME NEW q \in Procs, h'[q].pc \in Editing, VisitorOf[h'[q].visit] \notin overlapped'
             PROVE  /\ Follows(h'[q], row')
                    /\ \A r \in Procs \ {q} : ~Works(h'[r], VisitorOf[h'[q].visit])
  BY DEF FollowInv
<1>6. h[q].pc \in Editing /\ h[q].visit = h'[q].visit /\ h[q].visit \in Visits
  BY <1>1, <1>3, <1>5 DEF TypeInv, HandlerOK
<1>7. /\ Follows(h[q], row)
      /\ \A r \in Procs \ {q} : ~Works(h[r], VisitorOf[h[q].visit])
  BY <1>1, <1>6 DEF FollowInv
<1>8. ASSUME NEW r \in Procs \ {q} PROVE ~Works(h'[r], VisitorOf[h'[q].visit])
  BY <1>1, <1>3, <1>5, <1>6, <1>7 DEF Works
<1>9. Follows(h'[q], row')
  <2>1. CASE q = p
    BY <1>1, <1>3, <1>4, <1>5, <2>1
  <2>2. CASE q # p
    <3>1. h[q].visit # v
      BY <1>1, <1>7, <2>2 DEF Works
    <3>. QED  BY <1>2, <1>3, <1>6, <1>7, <2>2, <3>1 DEF Follows
  <2>. QED  BY <2>1, <2>2
<1>. QED  BY <1>8, <1>9

\* Nobody edits a visit that is not inserted yet.
LEMMA InsertFollows ==
    ASSUME TypeInv, BegunInv, FollowInv, NEW p \in Procs, InsertVisit(p) PROVE FollowInv'
<1> DEFINE v == h[p].visit
<1>1. /\ v \in Visits /\ row[v].status = "ABSENT"
      /\ h' = [h EXCEPT ![p] = Idle] /\ overlapped' = overlapped
      /\ row' = [row EXCEPT ![v] = [NoRow EXCEPT !.status = "SCHEDULED"]]
  BY DEF InsertVisit, TypeInv, HandlerOK, BegunInv, Known, ghosts
<1>2. h'[p] = Idle /\ \A r \in Procs \ {p} : h'[r] = h[r]
  BY <1>1 DEF TypeInv, TypeOK
<1> SUFFICES ASSUME NEW q \in Procs, h'[q].pc \in Editing, VisitorOf[h'[q].visit] \notin overlapped'
             PROVE  /\ Follows(h'[q], row')
                    /\ \A r \in Procs \ {q} : ~Works(h'[r], VisitorOf[h'[q].visit])
  BY DEF FollowInv
<1>3. q # p /\ h'[q] = h[q]
  BY <1>2 DEF Idle, Editing
<1>4. h[q].visit \in Visits /\ row[h[q].visit].status # "ABSENT"
  BY <1>3 DEF TypeInv, HandlerOK, BegunInv, Known
<1>5. row'[h[q].visit] = row[h[q].visit]
  BY <1>1, <1>4 DEF TypeInv, TypeOK
<1>6. /\ Follows(h[q], row)
      /\ \A r \in Procs \ {q} : ~Works(h[r], VisitorOf[h[q].visit])
  BY <1>1, <1>3 DEF FollowInv
<1>7. ASSUME NEW r \in Procs \ {q} PROVE ~Works(h'[r], VisitorOf[h'[q].visit])
  BY <1>2, <1>3, <1>6 DEF Works, Idle, Editing
<1>. QED  BY <1>3, <1>5, <1>6, <1>7 DEF Follows

LEMMA StepFollows ==
    ASSUME TypeInv, BegunInv, FollowInv, NEW p \in Procs, Step(p) PROVE FollowInv'
<1>1. h[p] \in Handlers /\ HandlerOK(h[p])
  BY DEF TypeInv, TypeOK
<1>2. \A v \in Visits : row[v] \in Rows
  BY DEF TypeInv, TypeOK
<1>3. Idle.pc \notin Editing
  BY DEF Idle, Editing
<1>a. CASE InsertVisit(p)
  BY <1>a, InsertFollows
<1>b. CASE RunCheckout(p) \/ SendExitSurveyEmail(p)
  <2>1. [h[p] EXCEPT !.pc = "sweep", !.todo = {h[p].visit}].pc \notin Editing
    BY <1>1 DEF Handlers, Editing
  <2>2. PICK x : x.pc \notin Editing /\ h' = [h EXCEPT ![p] = x]
    <3>1. CASE RunCheckout(p)
      BY <1>3, <2>1, <3>1 DEF RunCheckout
    <3>2. CASE SendExitSurveyEmail(p)
      BY <1>3, <3>2 DEF SendExitSurveyEmail
    <3>. QED  BY <1>b, <3>1, <3>2
  <2>3. row' = row /\ overlapped' = overlapped
    BY <1>b DEF RunCheckout, SendExitSurveyEmail, db, ghosts
  <2>. QED  BY <2>2, <2>3, MoveFollows
<1>c. CASE ReportFalseExit(p)
  <2> DEFINE v == h[p].visit
             e == [row[v] EXCEPT !.status = "FALSE_EXIT_REPORTED"]
  <2>1. v \in Visits
    BY <1>1, <1>c DEF ReportFalseExit, HandlerOK
  <2>2. CASE row[v].status = "CHECKED_OUT" /\ Load(p, v, e, "done")
    <3>1. e \in Rows /\ e.status = "FALSE_EXIT_REPORTED" /\ e.in = row[v].in
      BY <1>2, <2>1 DEF Rows, Statuses
    <3>2. Fits(row[v], e)
      BY <2>2, <3>1, StageValues DEF Fits, Lifecycle!Diagram
    <3>. QED  BY <2>1, <2>2, <3>1, <3>2, LoadFollows
  <2>3. CASE h' = [h EXCEPT ![p] = Idle] /\ UNCHANGED <<db, ghosts>>
    BY <1>3, <2>3, MoveFollows DEF db, ghosts
  <2>. QED  BY <1>c, <2>2, <2>3 DEF ReportFalseExit
<1>d. CASE Save(p)
  BY <1>d, SaveFollows
<1>e. CASE ResolveConnections(p) \/ SyncWithConnection(p) \/ DeleteFromConnection(p)
  <2>1. /\ h[p].pc \in Editing \ {"save"} /\ row' = row /\ overlapped' = overlapped
    BY <1>e DEF ResolveConnections, SyncWithConnection, DeleteFromConnection, Editing, db, ghosts
  <2> DEFINE Next1(x) == x.visit = h[p].visit /\ (Follows(h[p], row) => Follows(x, row))
  <2>2. ASSUME NEW y \in Handlers, y.visit = h[p].visit, y.copy = h[p].copy, y.pc # "save"
        PROVE  Next1(y)
    BY <2>1, <2>2 DEF Follows, Editing
  <2>3. ASSUME NEW y \in Handlers, y.visit = h[p].visit, y.copy = h[p].copy
        PROVE  Next1(AfterSync(y)) /\ Next1(AfterDelete(y))
    <3>1. AfterSync(y).visit = h[p].visit /\ AfterDelete(y).visit = h[p].visit
      BY <1>1, <2>3 DEF AfterSync, AfterDelete, ToSave, Handlers
    <3>. QED  BY <2>1, <2>3, <3>1, AfterLoopFollows DEF Follows
  <2>4. ASSUME NEW e \in Rows, e.status = h[p].copy.status, e.in = h[p].copy.in
        PROVE  Next1(ToSave(h[p], h[p].visit, e, "done"))
    BY <1>1, <2>1, <2>4 DEF ToSave, Handlers, Follows, Fits
  <2> HIDE DEF Next1
  <2>5. PICK x : Next1(x) /\ h' = [h EXCEPT ![p] = x]
    <3>1. CASE ResolveConnections(p)
      <4> DEFINE e == [h[p].copy EXCEPT !.sync = "NOT_CONFIGURED"]
                 y == [h[p] EXCEPT !.pc = "sync", !.conns = active, !.last = NoUser]
                 z == [h[p] EXCEPT !.pc = "delete", !.conns = active]
      <4>1. e \in Rows /\ e.status = h[p].copy.status /\ e.in = h[p].copy.in
        BY <1>1 DEF Handlers, Rows, SyncStatuses
      <4>2. y \in Handlers /\ y.visit = h[p].visit /\ y.copy = h[p].copy /\ y.pc # "save"
        BY <1>1 DEF TypeInv, TypeOK, Handlers
      <4>3. z \in Handlers /\ z.visit = h[p].visit /\ z.copy = h[p].copy /\ z.pc # "save"
        BY <1>1 DEF TypeInv, TypeOK, Handlers
      <4>4. h' \in {[h EXCEPT ![p] = w] :
                      w \in {ToSave(h[p], h[p].visit, e, "done"), AfterDelete(h[p]), y, z}}
        BY <3>1 DEF ResolveConnections
      <4> HIDE DEF e, y, z
      <4>. QED  BY <1>1, <2>2, <2>3, <2>4, <4>1, <4>2, <4>3, <4>4
    <3>2. CASE SyncWithConnection(p)
      <4> DEFINE c == First(h[p].conns)
                 id == UserIdOn[c, VisitorOf[h[p].visit]]
                 rest == h[p].conns \ {c}
                 Go(x) == IF rest = {} THEN AfterSync([x EXCEPT !.conns = {}])
                          ELSE [x EXCEPT !.conns = rest]
      <4>1. id \in Users
        <5>1. c \in Conns /\ h[p].visit \in Visits
          BY <1>1, <3>2, FirstInSet DEF SyncWithConnection, HandlerOK, Handlers, Editing
        <5>. QED  BY <5>1, ConstantsAssumption
      <4>2. \E x \in {h[p], [h[p] EXCEPT !.last = id]} : h' = [h EXCEPT ![p] = Go(x)]
        <5> HIDE DEF Go
        <5>. QED  BY <3>2 DEF SyncWithConnection, Go
      <4>0. h[p].pc = "sync"
        BY <3>2 DEF SyncWithConnection
      <4> HIDE DEF id
      <4>3. PICK x \in {h[p], [h[p] EXCEPT !.last = id]} : h' = [h EXCEPT ![p] = Go(x)]
        BY <4>2
      <4>4. x \in Handlers /\ x.visit = h[p].visit /\ x.copy = h[p].copy /\ x.pc = "sync"
        BY <1>1, <4>0, <4>1 DEF Handlers
      <4>5. CASE rest = {}
        <5> DEFINE y == [x EXCEPT !.conns = {}]
        <5>1. y \in Handlers /\ y.visit = h[p].visit /\ y.copy = h[p].copy
          BY <4>4 DEF Handlers
        <5>2. h' = [h EXCEPT ![p] = AfterSync(y)]
          BY <4>3, <4>5
        <5> HIDE DEF y
        <5>. QED  BY <2>3, <5>1, <5>2
      <4>6. CASE rest # {}
        <5> DEFINE y == [x EXCEPT !.conns = rest]
        <5>1. y \in Handlers /\ y.visit = h[p].visit /\ y.copy = h[p].copy /\ y.pc # "save"
          BY <1>1, <4>4 DEF Handlers
        <5>2. h' = [h EXCEPT ![p] = y]
          BY <4>3, <4>6
        <5> HIDE DEF y
        <5>. QED  BY <2>2, <5>1, <5>2
      <4>. QED  BY <4>5, <4>6
    <3>3. CASE DeleteFromConnection(p)
      <4> DEFINE y == [h[p] EXCEPT !.conns = {}]
                 z == [h[p] EXCEPT !.conns = h[p].conns \ {First(h[p].conns)}]
      <4>1. y \in Handlers /\ y.visit = h[p].visit /\ y.copy = h[p].copy
        BY <1>1 DEF Handlers
      <4>2. z \in Handlers /\ z.visit = h[p].visit /\ z.copy = h[p].copy /\ z.pc # "save"
        BY <1>1, <3>3 DEF DeleteFromConnection, Handlers
      <4>3. h' = [h EXCEPT ![p] = AfterDelete(y)] \/ h' = [h EXCEPT ![p] = z]
        BY <3>3 DEF DeleteFromConnection
      <4> HIDE DEF y, z
      <4>. QED  BY <2>2, <2>3, <4>1, <4>2, <4>3
    <3>. QED  BY <1>e, <3>1, <3>2, <3>3
  <2>. QED  BY <2>1, <2>5, MoveFollows DEF Next1
<1>f. ASSUME NEW v \in Visits, SweepNext(p, v) PROVE FollowInv'
  <2> DEFINE x == [h[p] EXCEPT !.todo = @ \ {v}]
  <2>1. x \in Handlers
    BY <1>1 DEF Handlers
  <2>2. LoadCheckout(p, v, x) /\ row[v].status # "ABSENT"
    BY <1>f DEF SweepNext, BegunInv, Known
  <2>. QED  BY <2>1, <2>2, LoadCheckoutFollows
<1>. QED  BY <1>a, <1>b, <1>c, <1>d, <1>e, <1>f DEF Step

LEMMA FollowStep == TypeInv /\ BegunInv /\ FollowInv /\ [SplitNext]_vars => FollowInv'
<1> SUFFICES ASSUME TypeInv, BegunInv, FollowInv, [SplitNext]_vars PROVE FollowInv'
  OBVIOUS
<1>1. ASSUME NEW p \in Requests, Request(p) PROVE FollowInv'
  BY <1>1, RequestFollows DEF Procs
<1>2. ASSUME NEW p \in Procs, Step(p) PROVE FollowInv'
  BY <1>2, StepFollows
<1>3. CASE CloseExpiredTemporaryReenablements
  <2> DEFINE x == [Idle EXCEPT !.pc = "sweep", !.todo = {v \in Visits : Expired(v)}]
  <2>1. x.pc \notin Editing
    BY DEF Idle, Editing
  <2>2. h' = [h EXCEPT ![Closer] = x] /\ row' = row /\ overlapped' = overlapped
    BY <1>3 DEF CloseExpiredTemporaryReenablements, db, ghosts
  <2>. QED  BY <2>1, <2>2, MoveFollows DEF Procs
<1>4. CASE Environment
  <2>1. /\ row' = row /\ overlapped' = overlapped
        /\ h' = h \/ h' = [p \in Procs |-> Idle]
    BY <1>4 DEF Environment, Tick, Crash, SwitchConnection, DeleteOrphanedBioStarUser, db, ghosts
  <2>2. CASE h' = h
    BY <2>1, <2>2 DEF FollowInv, Works, Follows
  <2>3. CASE h' = [p \in Procs |-> Idle]
    BY <2>3 DEF FollowInv, Idle, Editing
  <2>. QED  BY <2>1, <2>2, <2>3
<1>5. ASSUME NEW p \in Procs, Compare(p) PROVE FollowInv'
  <2> DEFINE x == [h[p] EXCEPT !.seen = row[h[p].visit]]
  <2>1. h[p] \in Handlers /\ h[p].pc = "save"
    BY <1>5 DEF Compare, TypeInv, TypeOK
  <2>2. /\ x.pc = "save" /\ x.visit = h[p].visit /\ x.copy = h[p].copy
        /\ x.seen = row[h[p].visit]
    BY <2>1 DEF Handlers
  <2>3. Follows(h[p], row) => Follows(x, row)
    BY <2>1, <2>2 DEF Follows
  <2>4. h' = [h EXCEPT ![p] = x] /\ row' = row /\ overlapped' = overlapped
    BY <1>5 DEF Compare, db, ghosts
  <2> HIDE DEF x
  <2>. QED  BY <2>1, <2>2, <2>3, <2>4, MoveFollows DEF Editing
<1>6. CASE UNCHANGED vars
  BY <1>6 DEF vars, FollowInv, Works, Follows
<1>. QED  BY <1>1, <1>2, <1>3, <1>4, <1>5, <1>6 DEF SplitNext, Next

LEMMA FollowInit == Init => FollowInv
BY DEF Init, FollowInv, Idle, Editing

(***************************************************************************)
(* The refinement.  Most steps leave the rows alone; they may make a       *)
(* visitor overlapped, which disturbs his visits.                          *)
(***************************************************************************)
stages == [v \in Visits |-> StageOf(row[v].status)]
disturbs == {v \in Visits : VisitorOf[v] \in overlapped}

LEMMA KeepsRows ==
    ASSUME row' = row, overlapped \subseteq overlapped'
    PROVE  [Lifecycle!Next]_<<stages, disturbs>>
<1>1. stages' = stages /\ disturbs' = disturbs \cup disturbs'
  BY DEF stages, disturbs
<1>2. disturbs' \in SUBSET Visits
  BY DEF disturbs
<1>3. Lifecycle!Disturb
  BY <1>1, <1>2 DEF Lifecycle!Disturb, stages, disturbs
<1>. QED  BY <1>3 DEF Lifecycle!Next

LEMMA InsertMaps ==
    ASSUME TypeInv, BegunInv, NEW p \in Procs, InsertVisit(p)
    PROVE  [Lifecycle!Next]_<<stages, disturbs>>
<1> DEFINE v == h[p].visit
<1>1. /\ v \in Visits /\ row[v].status = "ABSENT" /\ overlapped' = overlapped
      /\ row' = [row EXCEPT ![v] = [NoRow EXCEPT !.status = "SCHEDULED"]]
  BY DEF InsertVisit, TypeInv, HandlerOK, BegunInv, Known, ghosts
<1>2. row'[v].status = "SCHEDULED" /\ \A w \in Visits \ {v} : row'[w] = row[w]
  BY <1>1 DEF TypeInv, TypeOK, NoRow
<1>3. stages[v] = "none" /\ stages' = [stages EXCEPT ![v] = "booked"]
  BY <1>1, <1>2, StageValues DEF stages
<1>4. <<"none", "booked">> \in Lifecycle!Diagram /\ "booked" \in Lifecycle!Stages
  BY DEF Lifecycle!Diagram, Lifecycle!Stages
<1>5. disturbs' = disturbs
  BY <1>1 DEF disturbs
<1>6. Lifecycle!Advance(v)
  BY <1>3, <1>4, <1>5 DEF Lifecycle!Advance, stages, disturbs
<1>. QED  BY <1>1, <1>6 DEF Lifecycle!Next

LEMMA SaveMaps ==
    ASSUME TypeInv, BegunInv, FollowInv, NEW p \in Procs, Save(p)
    PROVE  [Lifecycle!Next]_<<stages, disturbs>>
<1> DEFINE v == h[p].visit
           s == StageOf(row'[v].status)
<1>1. /\ v \in Visits /\ overlapped' = overlapped /\ h[p].pc \in Editing
      /\ row'[v].status \in Statuses /\ Begun(row'[v]) /\ row[v].status # "ABSENT"
  <2>1. row' \in [Visits -> Rows]
    <3>1. [SplitNext]_vars
      BY DEF SplitNext, Next, Step
    <3>. QED  BY <3>1, TypeStep DEF TypeInv, TypeOK
  <2>2. v \in Visits /\ Begun(row'[v])
    BY SaveBegins
  <2>3. row'[v].status \in Statuses
    BY <2>1, <2>2 DEF Rows
  <2>. QED  BY <2>2, <2>3 DEF Save, ghosts, BegunInv, Known, Editing
<1>2. \A w \in Visits \ {v} : row'[w] = row[w]
  BY SaveBegins DEF TypeInv, TypeOK
<1>3. s \in Lifecycle!Stages \ {"none", "booked"}
  BY <1>1, StageValues DEF Begun, Statuses, Lifecycle!Stages
<1>4. stages' = [stages EXCEPT ![v] = s] /\ disturbs' = disturbs
  BY <1>1, <1>2 DEF stages, disturbs
<1>5. stages[v] # "none"
  <2>1. row[v].status \in Statuses
    BY <1>1 DEF TypeInv, TypeOK, Rows
  <2>. QED  BY <1>1, <2>1, StageValues DEF stages, Statuses
<1> HIDE DEF s
<1>6. CASE VisitorOf[v] \in overlapped
  <2>1. v \in disturbs
    BY <1>1, <1>6 DEF disturbs
  <2>2. Lifecycle!Derail(v)
    BY <1>3, <1>4, <1>5, <2>1 DEF Lifecycle!Derail, stages, disturbs
  <2>. QED  BY <1>1, <2>2 DEF Lifecycle!Next
<1>7. CASE VisitorOf[v] \notin overlapped
  <2>1. stages[v] = s \/ <<stages[v], s>> \in Lifecycle!Diagram
    BY <1>1, <1>7, SaveWrites DEF Fits, stages, s
  <2>2. CASE stages[v] = s
    <3>1. stages' = stages
      BY <1>4, <2>2 DEF stages
    <3>. QED  BY <1>4, <3>1
  <2>3. CASE <<stages[v], s>> \in Lifecycle!Diagram
    <3>1. Lifecycle!Advance(v)
      BY <1>3, <1>4, <2>3 DEF Lifecycle!Advance, stages, disturbs
    <3>. QED  BY <1>1, <3>1 DEF Lifecycle!Next
  <2>. QED  BY <2>1, <2>2, <2>3
<1>. QED  BY <1>6, <1>7

\* Only an insertion or a save writes a row.
LEMMA OnlySavesWrite ==
    ASSUME [SplitNext]_vars
    PROVE  \/ row' = row /\ overlapped \subseteq overlapped'
           \/ \E p \in Procs : InsertVisit(p) \/ Save(p)
<1>3. ASSUME NEW p \in Procs, Step(p), ~InsertVisit(p), ~Save(p)
      PROVE  row' = row /\ overlapped \subseteq overlapped'
  BY <1>3 DEF Step, RunCheckout, SendExitSurveyEmail, ReportFalseExit, ResolveConnections,
              SyncWithConnection, DeleteFromConnection, SweepNext, Load, LoadCheckout, Enter, db, ghosts
<1>4. ASSUME NEW p \in Procs, Request(p) PROVE row' = row /\ overlapped \subseteq overlapped'
  BY <1>4 DEF Request, BulkCheckoutTenant, BulkCheckoutSelected, ScheduleVisit, InviteVisitors,
              CompletePreRegistration, MarkAsNoShow, CheckInVisit, ForceSyncVisit,
              TemporaryReenableVisit, CheckoutVisit, CheckoutOnExitDevice, SubmitExitSurvey,
              SpendFalseExitLink, DismissFalseExit, Load, LoadCheckout, Enter, db, ghosts
<1>5. CloseExpiredTemporaryReenablements => row' = row /\ overlapped \subseteq overlapped'
  BY DEF CloseExpiredTemporaryReenablements, db, ghosts
<1>6. Environment => row' = row /\ overlapped \subseteq overlapped'
  BY DEF Environment, Tick, Crash, SwitchConnection, DeleteOrphanedBioStarUser, db, ghosts
<1>7. ASSUME NEW p \in Procs, Compare(p) PROVE row' = row /\ overlapped \subseteq overlapped'
  BY <1>7 DEF Compare, db, ghosts
<1>8. UNCHANGED vars => row' = row /\ overlapped \subseteq overlapped'
  BY DEF vars
<1>. QED  BY <1>3, <1>4, <1>5, <1>6, <1>7, <1>8 DEF SplitNext, Next, Procs

LEMMA StepMaps ==
    ASSUME TypeInv, BegunInv, FollowInv, [SplitNext]_vars
    PROVE  [Lifecycle!Next]_<<stages, disturbs>>
<1>1. ASSUME NEW p \in Procs, InsertVisit(p) PROVE [Lifecycle!Next]_<<stages, disturbs>>
  BY <1>1, InsertMaps
<1>2. ASSUME NEW p \in Procs, Save(p) PROVE [Lifecycle!Next]_<<stages, disturbs>>
  BY <1>2, SaveMaps
<1>. QED  BY <1>1, <1>2, OnlySavesWrite, KeepsRows

LEMMA InitMaps == Init => Lifecycle!Init
<1> SUFFICES ASSUME Init PROVE Lifecycle!Init
  OBVIOUS
<1>1. \A v \in Visits : StageOf(row[v].status) = "none"
  BY StageValues DEF Init, NoRow
<1>2. overlapped = {}
  BY DEF Init
<1>. QED  BY <1>1, <1>2 DEF Lifecycle!Init

\* VisitSync implements the life cycle of visits: every step of every handler,
\* whatever stale entity it saves, is a step of the diagram of VisitLifecycle,
\* unless handlers of the visitor overlapped.
THEOREM ImplementsLifecycle == SplitSpec => FollowsLifecycle
<1>1. TypeInv /\ BegunInv /\ FollowInv /\ [SplitNext]_vars => [Lifecycle!Next]_<<stages, disturbs>>
  BY StepMaps
<1>. QED
  BY <1>1, TypeInit, TypeStep, BegunInit, BegunStep, FollowInit, FollowStep, InitMaps, PTL
     DEF SplitSpec, FollowsLifecycle, Lifecycle!Spec, stages, disturbs

(***************************************************************************)
(* The admission of a visit.                                               *)
(***************************************************************************)
AbsentIsNew == \A v \in Visits : row[v].in => row[v].status # "ABSENT"

\* A save of a visitor whose handlers did not overlap keeps the admission, and
\* an insertion meets a row without one.
LEMMA StepKeepsAdmission ==
    ASSUME TypeInv, BegunInv, FollowInv, AbsentIsNew, [SplitNext]_vars,
           NEW v \in Visits
    PROVE  /\ row[v].in /\ VisitorOf[v] \notin overlapped => row'[v].in
           /\ row'[v].in => row'[v].status # "ABSENT"
<1>0. row \in [Visits -> Rows]
  BY DEF TypeInv, TypeOK
<1>1. CASE row' = row
  BY <1>1 DEF AbsentIsNew
<1>2. ASSUME NEW p \in Procs, InsertVisit(p)
      PROVE  /\ row[v].in /\ VisitorOf[v] \notin overlapped => row'[v].in
             /\ row'[v].in => row'[v].status # "ABSENT"
  <2>1. /\ h[p].visit \in Visits /\ row[h[p].visit].status = "ABSENT"
        /\ row' = [row EXCEPT ![h[p].visit] = [NoRow EXCEPT !.status = "SCHEDULED"]]
    BY <1>2 DEF InsertVisit, TypeInv, HandlerOK, BegunInv, Known
  <2>2. row'[h[p].visit].status = "SCHEDULED" /\ \A w \in Visits \ {h[p].visit} : row'[w] = row[w]
    BY <1>0, <2>1 DEF NoRow
  <2>. QED  BY <2>1, <2>2 DEF AbsentIsNew
<1>3. ASSUME NEW p \in Procs, Save(p)
      PROVE  /\ row[v].in /\ VisitorOf[v] \notin overlapped => row'[v].in
             /\ row'[v].in => row'[v].status # "ABSENT"
  <2>1. Begun(row'[h[p].visit]) /\ \A w \in Visits \ {h[p].visit} : row'[w] = row[w]
    BY <1>0, <1>3, SaveBegins
  <2>2. VisitorOf[h[p].visit] \notin overlapped => (row[h[p].visit].in => row'[h[p].visit].in)
    BY <1>3, SaveWrites
  <2>. QED  BY <2>1, <2>2 DEF AbsentIsNew, Begun
<1>4. row' = row \/ \E p \in Procs : InsertVisit(p) \/ Save(p)
  BY OnlySavesWrite
<1>. QED  BY <1>1, <1>2, <1>3, <1>4

\* checkedInAt survives every handler, stale entity, crash and failed call,
\* unless handlers of the visitor overlapped.
THEOREM AdmissionIsKept == SplitSpec => AdmissionKept
<1>1. Init => AbsentIsNew
  BY DEF Init, AbsentIsNew, NoRow
<1>2. TypeInv /\ BegunInv /\ FollowInv /\ AbsentIsNew /\ [SplitNext]_vars => AbsentIsNew'
  BY StepKeepsAdmission DEF AbsentIsNew
<1>3. TypeInv /\ BegunInv /\ FollowInv /\ AbsentIsNew /\ [SplitNext]_vars =>
        [\A v \in Visits : row[v].in /\ VisitorOf[v] \notin overlapped => row'[v].in]_vars
  BY StepKeepsAdmission
<1>. QED
  BY <1>1, <1>2, <1>3, TypeInit, TypeStep, BegunInit, BegunStep, FollowInit, FollowStep, PTL
     DEF SplitSpec, AdmissionKept

(***************************************************************************)
(* Access is revoked.  While nothing disturbs a visitor, the BioStar user  *)
(* he has is known to a row: to the row of a checked-in visit when nobody  *)
(* works on him, else to the handler that does, which is the only one.     *)
(***************************************************************************)

\* A visitor has one id on all servers, and nobody else has it.  With servers
\* of two kinds he has two, and a visit remembers only one of them.
OneIdEach ==
    /\ \A c, d \in Conns, u \in Visitors : UserIdOn[c, u] = UserIdOn[d, u]
    /\ \A c \in Conns, u, w \in Visitors : u # w => UserIdOn[c, u] # UserIdOn[c, w]

Undisturbed(u) == u \notin overlapped \cup faulted

\* Visitor u has a user on server c (bio holds the users of the servers); a
\* visit that would have it deleted at its checkout; a user has such a visit.
On(bio, c, u) == UserIdOn[c, u] \in bio[c]
Holds(r) == r.status = "CHECKED_IN" /\ r.ref # NoUser
Backed(table, bio, u) ==
    (\E c \in Conns : On(bio, c, u)) => \E w \in VisitsOf(u) : Holds(table[w])

RefOK(r, u) == r = NoUser \/ \A c \in Conns : r = UserIdOn[c, u]
Deletes(x) == x.then \in {"checkout", "force"}

\* What the only handler at work on visitor u has in hand: an entity that is the
\* row's, or the one to save; in the loop of a sync the id of the user it created,
\* in the loop of a delete the servers that may still have one.
WorkOK(x, u, table, bio) ==
    /\ RefOK(x.copy.ref, u)
    /\ x.then \in {"sync", "force", "pending"} => x.copy.status = "CHECKED_IN"
    /\ Deletes(x) => x.copy.ref # NoUser
    /\ x.pc = "save" /\ x.seen # NoRow => x.seen = table[x.visit]
    /\ x.pc # "save" => x.copy = table[x.visit] /\ x.then \in {"sync", "checkout", "force"}
    /\ x.pc \in {"save", "resolve"} /\ ~Deletes(x) =>
         Backed([table EXCEPT ![x.visit] = x.copy], bio, u)
    /\ x.pc = "sync" => /\ x.then = "sync" /\ RefOK(x.last, u)
                        /\ x.last = NoUser => Backed(table, bio, u)
    /\ x.pc = "delete" => Deletes(x) /\ \A c \in Conns \ x.conns : ~On(bio, c, u)

Account(u) ==
    /\ active = Conns
    /\ \A w \in VisitsOf(u) : RefOK(row[w].ref, u)
    /\ \A p \in Procs : Works(h[p], u) => WorkOK(h[p], u, row, biostar)
    /\ (\A p \in Procs : ~Works(h[p], u)) => Backed(row, biostar, u)

AccountInv == \A u \in Visitors : Undisturbed(u) => Account(u)

\* A visitor none of whose handlers takes the step; a row that is inserted
\* holds no user.
LEMMA OthersAccount ==
    ASSUME TypeInv, TypeInv', NEW u \in Visitors, Account(u), active' = active,
           \A w \in VisitsOf(u) :
               \/ row'[w] = row[w]
               \/ /\ row[w].status = "ABSENT" /\ row'[w].ref = NoUser
                  /\ \A p \in Procs : Works(h[p], u) => h[p].visit # w,
           \A c \in Conns : On(biostar', c, u) => On(biostar, c, u),
           \A p \in Procs : h'[p] = h[p] \/ (~Works(h[p], u) /\ ~Works(h'[p], u))
    PROVE  Account(u)'
<1>1. /\ row \in [Visits -> Rows] /\ row' \in [Visits -> Rows] /\ VisitsOf(u) \subseteq Visits
  BY DEF TypeInv, TypeOK, VisitsOf
<1>2. \A w \in VisitsOf(u) : Holds(row[w]) => row'[w] = row[w]
  BY DEF Holds
<1>3. Backed(row, biostar, u) => Backed(row', biostar', u)
  BY <1>2 DEF Backed
<1>4. ASSUME NEW p \in Procs, Works(h'[p], u) PROVE WorkOK(h'[p], u, row', biostar')
  <2>1. h'[p] = h[p] /\ Works(h[p], u) /\ WorkOK(h[p], u, row, biostar)
    BY <1>4 DEF Account
  <2>2. PICK x : x = h[p]
    OBVIOUS
  <2>3. x.visit \in VisitsOf(u) /\ row'[x.visit] = row[x.visit]
    BY <2>1, <2>2 DEF Works, VisitsOf, TypeInv, HandlerOK
  <2>4. Backed([row EXCEPT ![x.visit] = x.copy], biostar, u) =>
          Backed([row' EXCEPT ![x.visit] = x.copy], biostar', u)
    <3>1. ASSUME NEW w \in VisitsOf(u), Holds([row EXCEPT ![x.visit] = x.copy][w])
          PROVE  Holds([row' EXCEPT ![x.visit] = x.copy][w])
      BY <1>1, <1>2, <2>3, <3>1
    <3>. QED  BY <3>1 DEF Backed
  <2>5. WorkOK(x, u, row', biostar')
    <3>1. WorkOK(x, u, row, biostar)
      BY <2>1, <2>2
    <3>2. x.pc = "delete" => \A c \in Conns \ x.conns : ~On(biostar', c, u)
      BY <3>1 DEF WorkOK
    <3>. QED  BY <1>3, <2>3, <2>4, <3>1, <3>2 DEF WorkOK
  <2>. QED  BY <2>1, <2>2, <2>5
<1>5. \A w \in VisitsOf(u) : RefOK(row'[w].ref, u)
  BY DEF Account, RefOK
<1>6. (\A p \in Procs : ~Works(h'[p], u)) => \A p \in Procs : ~Works(h[p], u)
  OBVIOUS
<1>7. (\A p \in Procs : ~Works(h'[p], u)) => Backed(row', biostar', u)
  BY <1>3, <1>6 DEF Account
<1>8. active' = Conns
  BY DEF Account
<1>9. (\A p \in Procs : Works(h[p], u) => WorkOK(h[p], u, row, biostar))'
  BY <1>4
<1>10. (\A w \in VisitsOf(u) : RefOK(row[w].ref, u))'
  BY <1>5 DEF VisitsOf, RefOK
<1>11. ((\A p \in Procs : ~Works(h[p], u)) => Backed(row, biostar, u))'
  BY <1>7
<1>. QED  BY <1>8, <1>9, <1>10, <1>11 DEF Account

\* A visitor on whom p, and nobody else, works in the step.
LEMMA OwnAccount ==
    ASSUME NEW u \in Visitors, NEW p \in Procs, active' = Conns,
           \A w \in VisitsOf(u) : RefOK(row'[w].ref, u),
           \A q \in Procs \ {p} : h'[q] = h[q] /\ ~Works(h[q], u),
           Works(h'[p], u) => WorkOK(h'[p], u, row', biostar'),
           ~Works(h'[p], u) => Backed(row', biostar', u)
    PROVE  Account(u)'
<1>1. \A q \in Procs : Works(h'[q], u) => WorkOK(h'[q], u, row', biostar')
  OBVIOUS
<1>2. (\A q \in Procs : Works(h[q], u) => WorkOK(h[q], u, row, biostar))'
  BY <1>1
<1>3. (\A w \in VisitsOf(u) : RefOK(row[w].ref, u))'
  BY DEF VisitsOf, RefOK
<1>4. ((\A q \in Procs : ~Works(h[q], u)) => Backed(row, biostar, u))'
  OBVIOUS
<1>. QED  BY <1>2, <1>3, <1>4 DEF Account

\* A handler that has no entity yet, and has none after the step.
LEMMA AsideAccount ==
    ASSUME TypeInv, TypeInv', AccountInv, NEW p \in Procs, NEW x,
           h' = [h EXCEPT ![p] = x], h[p].pc \notin Editing, x.pc \notin Editing,
           row' = row, biostar' = biostar, active' = active, UNCHANGED ghosts
    PROVE  AccountInv'
<1>1. h'[p] = x /\ \A q \in Procs \ {p} : h'[q] = h[q]
  BY DEF TypeInv, TypeOK
<1>2. ASSUME NEW u \in Visitors, Account(u) PROVE Account(u)'
  <2>1. \A q \in Procs : h'[q] = h[q] \/ (~Works(h[q], u) /\ ~Works(h'[q], u))
    BY <1>1 DEF Works
  <2>. QED  BY <1>2, <2>1, OthersAccount
<1>. QED  BY <1>2 DEF AccountInv, Undisturbed, ghosts

\* A handler starts to edit visit v; it is the only one, or the visitor is
\* overlapped.
LEMMA EnterAccount ==
    ASSUME TypeInv, TypeInv', AccountInv, NEW p \in Procs, NEW v \in Visits, NEW x,
           h' = [h EXCEPT ![p] = x], h[p].pc \notin Editing, Enter(p, v),
           x.pc \in Editing, x.visit = v,
           Account(VisitorOf[v]) /\ Backed(row, biostar, VisitorOf[v]) =>
             WorkOK(x, VisitorOf[v], row, biostar)
    PROVE  AccountInv'
<1>1. h'[p] = x /\ \A q \in Procs \ {p} : h'[q] = h[q]
  BY DEF TypeInv, TypeOK
<1>2. /\ row' = row /\ biostar' = biostar /\ active' = active /\ faulted' = faulted
      /\ overlapped \subseteq overlapped'
      /\ (\E q \in Procs \ {p} : Works(h[q], VisitorOf[v])) => VisitorOf[v] \in overlapped'
  BY BusyWorks DEF Enter, db
<1> SUFFICES ASSUME NEW u \in Visitors, u \notin overlapped' \cup faulted' PROVE Account(u)'
  BY DEF AccountInv, Undisturbed
<1>3. Account(u)
  BY <1>2 DEF AccountInv, Undisturbed
<1>4. CASE u # VisitorOf[v]
  <2>1. \A q \in Procs : h'[q] = h[q] \/ (~Works(h[q], u) /\ ~Works(h'[q], u))
    BY <1>1, <1>4 DEF Works
  <2>. QED  BY <1>2, <1>3, <2>1, OthersAccount
<1>5. CASE u = VisitorOf[v]
  <2>1. \A q \in Procs \ {p} : h'[q] = h[q] /\ ~Works(h[q], u)
    BY <1>1, <1>2, <1>5
  <2>2. ~Works(h[p], u) /\ Works(h'[p], u)
    BY <1>1, <1>5 DEF Works
  <2>3. Backed(row, biostar, u)
    BY <1>3, <2>1, <2>2 DEF Account
  <2>4. WorkOK(h'[p], u, row', biostar')
    BY <1>1, <1>2, <1>3, <1>5, <2>3
  <2>5. active' = Conns /\ \A w \in VisitsOf(u) : RefOK(row'[w].ref, u)
    BY <1>2, <1>3 DEF Account
  <2>. QED  BY <2>1, <2>2, <2>4, <2>5, OwnAccount
<1>. QED  BY <1>4, <1>5

\* What it loads: the row with another status.  An entity that does not go
\* through the loop of a delete keeps the user that the row knows.
LEMMA LoadWork ==
    ASSUME TypeInv, NEW v \in Visits, NEW x \in Handlers, NEW e \in Rows, NEW t,
           e.ref = row[v].ref,
           t \in {"sync", "checkout", "done"},
           t = "sync" => e.status = "CHECKED_IN",
           t = "checkout" => e.ref # NoUser,
           t # "checkout" /\ Holds(row[v]) => e.status = "CHECKED_IN"
    PROVE  LET y == ToSave(x, v, e, t) IN
           /\ y.pc \in Editing /\ y.visit = v
           /\ Account(VisitorOf[v]) /\ Backed(row, biostar, VisitorOf[v]) =>
                WorkOK(y, VisitorOf[v], row, biostar)
<1> DEFINE y == ToSave(x, v, e, t)
           u == VisitorOf[v]
<1>1. y.pc = "save" /\ y.visit = v /\ y.copy = e /\ y.seen = NoRow /\ y.then = t
  BY DEF ToSave, Handlers
<1> HIDE DEF y
<1> SUFFICES ASSUME Account(u), Backed(row, biostar, u) PROVE WorkOK(y, u, row, biostar)
  BY <1>1 DEF Editing, y
<1>2. v \in VisitsOf(u) /\ RefOK(e.ref, u)
  BY DEF Account, VisitsOf
<1>3. t # "checkout" => Backed([row EXCEPT ![v] = e], biostar, u)
  <2>1. row \in [Visits -> Rows] /\ VisitsOf(u) \subseteq Visits
    BY DEF TypeInv, TypeOK, VisitsOf
  <2>2. ASSUME t # "checkout", NEW w \in VisitsOf(u), Holds(row[w])
        PROVE  Holds([row EXCEPT ![v] = e][w])
    BY <2>1, <2>2 DEF Holds
  <2>. QED  BY <2>2 DEF Backed
<1>. QED  BY <1>1, <1>2, <1>3 DEF WorkOK, Deletes

LEMMA LoadAccount ==
    ASSUME TypeInv, TypeInv', AccountInv, NEW p \in Procs, NEW v \in Visits, NEW e \in Rows, NEW t,
           Load(p, v, e, t), h[p].pc \notin Editing,
           e.ref = row[v].ref,
           t \in {"sync", "checkout", "done"},
           t = "sync" => e.status = "CHECKED_IN",
           t = "checkout" => e.ref # NoUser,
           t # "checkout" /\ Holds(row[v]) => e.status = "CHECKED_IN"
    PROVE  AccountInv'
<1>1. h[p] \in Handlers
  BY DEF TypeInv, TypeOK
<1>2. PICK y : y = ToSave(h[p], v, e, t)
  OBVIOUS
<1>3. /\ y.pc \in Editing /\ y.visit = v
      /\ Account(VisitorOf[v]) /\ Backed(row, biostar, VisitorOf[v]) =>
           WorkOK(y, VisitorOf[v], row, biostar)
  BY <1>1, <1>2, LoadWork
<1>4. h' = [h EXCEPT ![p] = y] /\ Enter(p, v)
  BY <1>2 DEF Load
<1>. QED  BY <1>3, <1>4, EnterAccount

LEMMA LoadCheckoutAccount ==
    ASSUME TypeInv, TypeInv', AccountInv, NEW p \in Procs, NEW v \in Visits, NEW x \in Handlers,
           h[p].pc \notin Editing, LoadCheckout(p, v, x)
    PROVE  AccountInv'
<1>1. row[v] \in Rows
  BY DEF TypeInv, TypeOK
<1>2. CASE row[v].status = "CHECKED_OUT"
  <2> DEFINE y == [x EXCEPT !.visit = v]
  <2>1. y \in Handlers
    BY DEF Handlers
  <2> HIDE DEF y
  <2>2. Done(y).pc \notin Editing
    BY <2>1 DEF Done, Idle, Editing, Handlers
  <2>3. h' = [h EXCEPT ![p] = Done(y)] /\ UNCHANGED <<db, ghosts>>
    BY <1>2 DEF LoadCheckout, y
  <2>. QED  BY <2>2, <2>3, AsideAccount DEF db
<1>3. CASE row[v].status # "CHECKED_OUT"
  <2> DEFINE e == [row[v] EXCEPT !.status = "CHECKED_OUT", !.out = TRUE, !.reenable = 0]
             t == IF row[v].ref # NoUser THEN "checkout" ELSE "done"
             y == ToSave(x, v, e, t)
  <2>0. 0 \in 0..MaxTime
    BY ConstantsAssumption
  <2>1. e \in Rows /\ e.ref = row[v].ref
    BY <1>1, <2>0 DEF Rows, Statuses
  <2>2. t # "checkout" => ~Holds(row[v])
    BY DEF Holds
  <2> HIDE DEF e
  <2>3. h' = [h EXCEPT ![p] = y] /\ Enter(p, v)
    BY <1>3 DEF LoadCheckout, e
  <2>4. /\ y.pc \in Editing /\ y.visit = v
        /\ Account(VisitorOf[v]) /\ Backed(row, biostar, VisitorOf[v]) =>
             WorkOK(y, VisitorOf[v], row, biostar)
    <3>1. t \in {"sync", "checkout", "done"} /\ t # "sync" /\ (t = "checkout" => e.ref # NoUser)
      BY <2>1
    <3> HIDE DEF t
    <3>. QED  BY <2>1, <2>2, <3>1, LoadWork
  <2> HIDE DEF y
  <2>. QED  BY <2>3, <2>4, EnterAccount
<1>. QED  BY <1>2, <1>3

LEMMA RequestAccount ==
    ASSUME TypeInv, TypeInv', AccountInv, NEW p \in Procs, Request(p) PROVE AccountInv'
<1>0. h[p].pc = "idle" /\ h[p].pc \notin Editing
  BY DEF Request, BulkCheckoutTenant, BulkCheckoutSelected, ScheduleVisit, InviteVisitors,
         CompletePreRegistration, MarkAsNoShow, CheckInVisit, ForceSyncVisit,
         TemporaryReenableVisit, CheckoutVisit, CheckoutOnExitDevice, SubmitExitSurvey,
         SpendFalseExitLink, DismissFalseExit, Editing
<1>1. \A v \in Visits : row[v] \in Rows
  BY DEF TypeInv, TypeOK
<1>2. h[p] \in Handlers
  BY DEF TypeInv, TypeOK
<1>3. 0 \in 0..MaxTime
  BY ConstantsAssumption
<1>a. CASE \/ BulkCheckoutTenant(p) \/ \E S \in SUBSET Visits : BulkCheckoutSelected(p, S)
           \/ \E v \in Visits : \/ ScheduleVisit(p, v) \/ InviteVisitors(p, v)
                                \/ SpendFalseExitLink(p, v) \/ CheckoutOnExitDevice(p, v)
  <2>1. ASSUME NEW S PROVE [Idle EXCEPT !.pc = "sweep", !.todo = S].pc \notin Editing
    BY DEF Idle, Editing
  <2>2. ASSUME NEW pc \in {"insert", "link"}, NEW v
        PROVE  [Idle EXCEPT !.pc = pc, !.visit = v].pc \notin Editing
    BY DEF Idle, Editing
  <2>3. ASSUME NEW v
        PROVE  [Idle EXCEPT !.pc = "recheck", !.visit = v, !.exit = TRUE].pc \notin Editing
    BY DEF Idle, Editing
  <2>4. row' = row /\ biostar' = biostar /\ active' = active /\ UNCHANGED ghosts
    BY <1>a DEF BulkCheckoutTenant, BulkCheckoutSelected, ScheduleVisit, InviteVisitors,
                SpendFalseExitLink, CheckoutOnExitDevice, db, ghosts
  <2>5. PICK x : h' = [h EXCEPT ![p] = x] /\ x.pc \notin Editing
    <3>1. CASE \/ BulkCheckoutTenant(p) \/ \E S \in SUBSET Visits : BulkCheckoutSelected(p, S)
      BY <2>1, <3>1 DEF BulkCheckoutTenant, BulkCheckoutSelected
    <3>2. CASE \E v \in Visits : ScheduleVisit(p, v) \/ InviteVisitors(p, v) \/ SpendFalseExitLink(p, v)
      BY <2>2, <3>2 DEF ScheduleVisit, InviteVisitors, SpendFalseExitLink
    <3>3. CASE \E v \in Visits : CheckoutOnExitDevice(p, v)
      BY <2>3, <3>3 DEF CheckoutOnExitDevice
    <3>. QED  BY <1>a, <3>1, <3>2, <3>3
  <2>. QED  BY <1>0, <2>4, <2>5, AsideAccount
<1>b. ASSUME NEW v \in Visits,
             CompletePreRegistration(p, v) \/ MarkAsNoShow(p, v) \/ DismissFalseExit(p, v)
      PROVE  AccountInv'
  <2>1. ASSUME NEW s \in Statuses
        PROVE  [row[v] EXCEPT !.status = s] \in Rows /\ [row[v] EXCEPT !.status = s].ref = row[v].ref
    BY <1>1 DEF Rows
  <2>2. PICK s \in Statuses : Load(p, v, [row[v] EXCEPT !.status = s], "done")
    BY <1>b DEF CompletePreRegistration, MarkAsNoShow, DismissFalseExit, Statuses
  <2>3. ~Holds(row[v])
    BY <1>b DEF CompletePreRegistration, MarkAsNoShow, DismissFalseExit, Holds
  <2>. QED  BY <1>0, <2>1, <2>2, <2>3, LoadAccount
<1>c. ASSUME NEW v \in Visits, SubmitExitSurvey(p, v) PROVE AccountInv'
  BY <1>0, <1>1, <1>c, LoadAccount DEF SubmitExitSurvey, Holds
<1>d. ASSUME NEW v \in Visits, NEW d \in 0..MaxTime,
             CheckInVisit(p, v) \/ TemporaryReenableVisit(p, v, d)
      PROVE  AccountInv'
  <2>1. PICK e \in Rows : Load(p, v, e, "sync") /\ e.status = "CHECKED_IN" /\ e.ref = row[v].ref
    <3>1. LET e == [row[v] EXCEPT !.status = "CHECKED_IN", !.in = TRUE, !.out = FALSE, !.reenable = 0]
          IN  e \in Rows /\ e.status = "CHECKED_IN" /\ e.ref = row[v].ref
      BY <1>1, <1>3 DEF Rows, Statuses
    <3>2. LET e == [row[v] EXCEPT !.status = "CHECKED_IN", !.out = FALSE, !.reenable = d]
          IN  e \in Rows /\ e.status = "CHECKED_IN" /\ e.ref = row[v].ref
      BY <1>1 DEF Rows, Statuses
    <3>. QED  BY <1>d, <3>1, <3>2 DEF CheckInVisit, TemporaryReenableVisit
  <2>. QED  BY <1>0, <2>1, LoadAccount
<1>e. ASSUME NEW v \in Visits, ForceSyncVisit(p, v) PROVE AccountInv'
  <2>0. row[v].status = "CHECKED_IN"
    BY <1>e DEF ForceSyncVisit
  <2>1. CASE row[v].ref # NoUser
    <3> DEFINE x == [Idle EXCEPT !.pc = "resolve", !.visit = v, !.copy = row[v], !.then = "force"]
               u == VisitorOf[v]
    <3>1. h' = [h EXCEPT ![p] = x] /\ Enter(p, v)
      BY <1>e, <2>1 DEF ForceSyncVisit
    <3>2. x.pc = "resolve" /\ x.visit = v /\ x.copy = row[v] /\ x.then = "force"
      BY DEF Idle
    <3> HIDE DEF x
    <3>3. ASSUME Account(u) PROVE WorkOK(x, u, row, biostar)
      <4>1. v \in VisitsOf(u) /\ RefOK(row[v].ref, u)
        BY <3>3 DEF Account, VisitsOf
      <4>. QED  BY <2>0, <2>1, <3>2, <4>1 DEF WorkOK, Deletes
    <3>. QED  BY <1>0, <3>1, <3>2, <3>3, EnterAccount DEF Editing
  <2>2. CASE row[v].ref = NoUser
    <3> DEFINE e == [row[v] EXCEPT !.sync = "PENDING"]
    <3>1. e \in Rows /\ e.status = row[v].status /\ e.ref = row[v].ref
      BY <1>1 DEF Rows, SyncStatuses
    <3>2. Load(p, v, e, "sync")
      BY <1>e, <2>2 DEF ForceSyncVisit
    <3>. QED  BY <1>0, <2>0, <3>1, <3>2, LoadAccount
  <2>. QED  BY <2>1, <2>2
<1>f. ASSUME NEW v \in Visits, CheckoutVisit(p, v) PROVE AccountInv'
  BY <1>0, <1>2, <1>f, LoadCheckoutAccount DEF CheckoutVisit
<1>4. ASSUME NEW v \in Visits, NEW d \in 1..MaxTime, TemporaryReenableVisit(p, v, d) PROVE AccountInv'
  <2>1. d \in 0..MaxTime
    BY ConstantsAssumption
  <2>. QED  BY <1>4, <1>d, <2>1
<1>. QED  BY <1>3, <1>4, <1>a, <1>b, <1>c, <1>d, <1>e, <1>f DEF Request

\* A handler that has an entity goes on with it, or ends.
LEMMA WorkAccount ==
    ASSUME TypeInv, TypeInv', FollowInv, AccountInv, NEW p \in Procs, NEW x, NEW v \in Visits,
           h[p].pc \in Editing, v = h[p].visit,
           h' = [h EXCEPT ![p] = x], x.pc \in Editing => x.visit = v,
           active' = active, overlapped' = overlapped, faulted \subseteq faulted',
           \A w \in Visits \ {v} : row'[w] = row[w],
           \A u \in Visitors \ {VisitorOf[v]} : \A c \in Conns :
              On(biostar', c, u) => On(biostar, c, u),
           VisitorOf[v] \notin faulted' /\ Account(VisitorOf[v]) /\ WorkOK(h[p], VisitorOf[v], row, biostar) =>
              /\ RefOK(row'[v].ref, VisitorOf[v])
              /\ x.pc \in Editing => WorkOK(x, VisitorOf[v], row', biostar')
              /\ x.pc \notin Editing => Backed(row', biostar', VisitorOf[v])
    PROVE  AccountInv'
<1>1. h'[p] = x /\ \A q \in Procs \ {p} : h'[q] = h[q]
  BY DEF TypeInv, TypeOK
<1> SUFFICES ASSUME NEW u \in Visitors, u \notin overlapped' \cup faulted' PROVE Account(u)'
  BY DEF AccountInv, Undisturbed
<1>2. Account(u)
  BY DEF AccountInv, Undisturbed
<1>3. CASE u # VisitorOf[v]
  <2>1. \A q \in Procs : h'[q] = h[q] \/ (~Works(h[q], u) /\ ~Works(h'[q], u))
    BY <1>1, <1>3 DEF Works
  <2>2. \A w \in VisitsOf(u) : row'[w] = row[w]
    BY <1>3 DEF VisitsOf
  <2>. QED  BY <1>2, <1>3, <2>1, <2>2, OthersAccount
<1>4. CASE u = VisitorOf[v]
  <2>1. Works(h[p], u) /\ WorkOK(h[p], u, row, biostar)
    BY <1>2, <1>4 DEF Works, Account
  <2>2. \A q \in Procs \ {p} : h'[q] = h[q] /\ ~Works(h[q], u)
    BY <1>1, <1>4 DEF FollowInv
  <2>3. /\ RefOK(row'[v].ref, u)
        /\ x.pc \in Editing => WorkOK(x, u, row', biostar')
        /\ x.pc \notin Editing => Backed(row', biostar', u)
    BY <1>2, <1>4, <2>1
  <2>4. Works(h'[p], u) <=> x.pc \in Editing
    BY <1>1, <1>4 DEF Works
  <2>5. \A w \in VisitsOf(u) : RefOK(row'[w].ref, u)
    BY <1>2, <2>3 DEF Account, VisitsOf
  <2>6. active' = Conns
    BY <1>2 DEF Account
  <2>. QED  BY <1>1, <2>2, <2>3, <2>4, <2>5, <2>6, OwnAccount
<1>. QED  BY <1>3, <1>4

\* A save of an entity that was compared with the row as it is.
LEMMA SaveWork ==
    ASSUME TypeInv, NEW x \in Handlers, NEW v \in Visits, x.visit = v, x.pc = "save",
           NEW u \in Visitors, v \in VisitsOf(u), WorkOK(x, u, row, biostar),
           row' = [row EXCEPT ![v] = x.copy]
    PROVE  /\ AfterSave(x).pc \in Editing => /\ AfterSave(x).visit = v
                                             /\ WorkOK(AfterSave(x), u, row', biostar)
           /\ AfterSave(x).pc \notin Editing => Backed(row', biostar, u)
<1> DEFINE e == x.copy
<1>1. e \in Rows /\ row'[v] = e /\ row' \in [Visits -> Rows]
  BY DEF TypeInv, TypeOK, Handlers
<1>2. ~Deletes(x) => Backed(row', biostar, u)
  BY DEF WorkOK
<1>3. RefOK(e.ref, u)
  BY DEF WorkOK
<1>4. CASE x.then = "done"
  <2>1. AfterSave(x).pc \notin Editing
    BY <1>4 DEF AfterSave, Done, Idle, Editing, Handlers
  <2>. QED  BY <1>2, <1>4, <2>1 DEF Deletes
<1>5. CASE x.then = "pending"
  <2> DEFINE f == [e EXCEPT !.sync = "PENDING"]
             y == ToSave(x, v, f, "sync")
  <2>1. f.status = e.status /\ f.ref = e.ref
    BY <1>1 DEF Rows
  <2>2. AfterSave(x) = y
    BY <1>5 DEF AfterSave
  <2> HIDE DEF f
  <2>3. y.pc = "save" /\ y.visit = v /\ y.copy = f /\ y.seen = NoRow /\ y.then = "sync"
    BY DEF ToSave, Handlers
  <2>4. Backed([row' EXCEPT ![v] = f], biostar, u)
    <3>1. ASSUME NEW w \in VisitsOf(u), Holds(row'[w]) PROVE Holds([row' EXCEPT ![v] = f][w])
      BY <1>1, <2>1, <3>1 DEF Holds, VisitsOf
    <3>. QED  BY <1>2, <1>5, <3>1 DEF Backed, Deletes
  <2>5. f.status = "CHECKED_IN"
    BY <1>5, <2>1 DEF WorkOK
  <2> HIDE DEF y
  <2>6. WorkOK(y, u, row', biostar)
    BY <1>3, <2>1, <2>3, <2>4, <2>5 DEF WorkOK, Deletes
  <2>. QED  BY <2>2, <2>3, <2>6 DEF Editing
<1>6. CASE x.then \in {"sync", "checkout", "force"}
  <2> DEFINE y == [x EXCEPT !.pc = "resolve", !.seen = NoRow]
  <2>1. AfterSave(x) = y
    BY <1>6 DEF AfterSave
  <2>2. y.pc = "resolve" /\ y.visit = v /\ y.copy = e /\ y.then = x.then
    BY DEF Handlers
  <2> HIDE DEF y
  <2>3. [row' EXCEPT ![v] = e] = row'
    BY <1>1
  <2>4. WorkOK(y, u, row', biostar)
    BY <1>1, <1>2, <1>3, <1>6, <2>2, <2>3 DEF WorkOK, Deletes
  <2>. QED  BY <2>1, <2>2, <2>4 DEF Editing
<1>. QED  BY <1>4, <1>5, <1>6 DEF Handlers

LEMMA SaveAccount ==
    ASSUME TypeInv, TypeInv', FollowInv, AccountInv, NEW p \in Procs, Save(p) PROVE AccountInv'
<1>0. PICK v \in Visits : v = h[p].visit
  BY DEF Save, TypeInv, HandlerOK, Editing
<1>1. PICK u \in Visitors : u = VisitorOf[v] /\ v \in VisitsOf(u)
  BY ConstantsAssumption DEF VisitsOf
<1>2. /\ h[p] \in Handlers /\ h[p].pc = "save" /\ h[p].pc \in Editing
      /\ h' = [h EXCEPT ![p] = AfterSave(h[p])]
      /\ biostar' = biostar /\ active' = active /\ overlapped' = overlapped /\ faulted' = faulted
  BY DEF Save, TypeInv, TypeOK, Editing, ghosts
<1>3. \A w \in Visits \ {v} : row'[w] = row[w]
  BY <1>0 DEF TypeInv, TypeOK, Save
<1>4. AfterSave(h[p]).pc \in Editing => AfterSave(h[p]).visit = v
  <2>1. h[p].then \in {"done", "pending"} \/ h[p].then \notin {"done", "pending"}
    OBVIOUS
  <2>. QED  BY <1>0, <1>2, <2>1 DEF AfterSave, ToSave, Done, Idle, Editing, Handlers
<1>5. ASSUME WorkOK(h[p], u, row, biostar)
      PROVE  /\ RefOK(row'[v].ref, u)
             /\ AfterSave(h[p]).pc \in Editing => WorkOK(AfterSave(h[p]), u, row', biostar)
             /\ AfterSave(h[p]).pc \notin Editing => Backed(row', biostar, u)
  <2>1. row[v] \in Rows /\ h[p].copy \in Rows /\ row \in [Visits -> Rows]
    BY <1>2 DEF TypeInv, TypeOK, Handlers
  <2>2. (IF h[p].seen = NoRow THEN row[v] ELSE h[p].seen) = row[v]
    BY <1>0, <1>2, <1>5 DEF WorkOK
  <2>3. row' = [row EXCEPT ![v] = Merge(h[p].copy, row[v], row[v])]
    BY <1>0, <2>2 DEF Save
  <2>4. row' = [row EXCEPT ![v] = h[p].copy]
    BY <2>1, <2>3, MergeIsCopy
  <2>5. RefOK(row'[v].ref, u)
    BY <1>5, <2>1, <2>4 DEF WorkOK
  <2>. QED  BY <1>0, <1>1, <1>2, <1>5, <2>4, <2>5, SaveWork
<1>6. PICK x : x = AfterSave(h[p])
  OBVIOUS
<1>. QED  BY <1>0, <1>1, <1>2, <1>3, <1>4, <1>5, <1>6, WorkAccount

\* The loops of a sync and of a delete.  What follows them finds the user
\* of the visitor in its entity, or no user on any server.
LEMMA AfterSyncWork ==
    ASSUME NEW x \in Handlers, NEW v \in Visits, x.visit = v, NEW u \in Visitors, v \in VisitsOf(u),
           NEW table \in [Visits -> Rows], NEW bio, x.copy = table[v],
           x.copy.status = "CHECKED_IN",
           RefOK(x.copy.ref, u), RefOK(x.last, u),
           x.last = NoUser => Backed(table, bio, u)
    PROVE  WorkOK(AfterSync(x), u, table, bio) /\ AfterSync(x).pc = "save" /\ AfterSync(x).visit = v
<1> DEFINE c == x.copy
           f == IF x.last # NoUser THEN [c EXCEPT !.ref = x.last, !.sync = "SYNCED"]
                                   ELSE [c EXCEPT !.sync = "PENDING"]
           y == ToSave(x, v, f, "done")
<1>1. /\ f.status = "CHECKED_IN" /\ f.ref = IF x.last # NoUser THEN x.last ELSE c.ref
  BY DEF Handlers, Rows
<1>2. AfterSync(x) = y
  BY DEF AfterSync
<1> HIDE DEF f
<1>3. y.pc = "save" /\ y.visit = v /\ y.copy = f /\ y.seen = NoRow /\ y.then = "done"
  BY DEF ToSave, Handlers
<1>4. Backed([table EXCEPT ![v] = f], bio, u)
  <2>1. CASE x.last # NoUser
    BY <1>1, <2>1 DEF Backed, Holds, VisitsOf
  <2>2. CASE x.last = NoUser
    <3>1. ASSUME NEW w \in VisitsOf(u), Holds(table[w]) PROVE Holds([table EXCEPT ![v] = f][w])
      BY <1>1, <2>2, <3>1 DEF Holds, VisitsOf
    <3>. QED  BY <2>2, <3>1 DEF Backed
  <2>. QED  BY <2>1, <2>2
<1>5. RefOK(f.ref, u)
  BY <1>1
<1> HIDE DEF y
<1>6. WorkOK(y, u, table, bio)
  BY <1>3, <1>4, <1>5 DEF WorkOK, Deletes
<1>. QED  BY <1>2, <1>3, <1>6

LEMMA AfterDeleteWork ==
    ASSUME NEW x \in Handlers, NEW v \in Visits, x.visit = v, NEW u \in Visitors,
           NEW table, NEW bio, Deletes(x),
           x.then = "force" => x.copy.status = "CHECKED_IN",
           \A c \in Conns : ~On(bio, c, u)
    PROVE  WorkOK(AfterDelete(x), u, table, bio) /\ AfterDelete(x).pc = "save" /\ AfterDelete(x).visit = v
<1>1. \A t : Backed(t, bio, u)
  BY DEF Backed
<1>2. ASSUME NEW e, NEW t \in {"pending", "done"}, e.ref = NoUser, t = "pending" => e.status = "CHECKED_IN"
      PROVE  LET y == ToSave(x, v, e, t) IN WorkOK(y, u, table, bio) /\ y.pc = "save" /\ y.visit = v
  <2> DEFINE y == ToSave(x, v, e, t)
  <2>1. y.pc = "save" /\ y.visit = v /\ y.copy = e /\ y.seen = NoRow /\ y.then = t
    BY DEF ToSave, Handlers
  <2> HIDE DEF y
  <2>2. WorkOK(y, u, table, bio)
    BY <1>1, <1>2, <2>1 DEF WorkOK, Deletes, RefOK
  <2>. QED  BY <2>1, <2>2 DEF y
<1>3. CASE x.then = "force"
  <2> DEFINE e == [x.copy EXCEPT !.ref = NoUser]
  <2>1. e.ref = NoUser /\ e.status = "CHECKED_IN"
    BY <1>3 DEF Handlers, Rows
  <2>2. AfterDelete(x) = ToSave(x, v, e, "pending")
    BY <1>3 DEF AfterDelete
  <2> HIDE DEF e
  <2>. QED  BY <1>2, <2>1, <2>2
<1>4. CASE x.then # "force"
  <2> DEFINE e == [x.copy EXCEPT !.ref = NoUser, !.sync = "null"]
  <2>1. e.ref = NoUser
    BY DEF Handlers, Rows
  <2>2. AfterDelete(x) = ToSave(x, v, e, "done")
    BY <1>4 DEF AfterDelete
  <2> HIDE DEF e
  <2>. QED  BY <1>2, <2>1, <2>2
<1>. QED  BY <1>3, <1>4

LEMMA ResolveAccount ==
    ASSUME TypeInv, TypeInv', FollowInv, AccountInv, NEW p \in Procs, ResolveConnections(p)
    PROVE  AccountInv'
<1>0. PICK v \in Visits : v = h[p].visit
  BY DEF ResolveConnections, TypeInv, HandlerOK, Editing
<1>1. PICK u \in Visitors : u = VisitorOf[v] /\ v \in VisitsOf(u)
  BY ConstantsAssumption DEF VisitsOf
<1>2. PICK x \in Handlers : x = h[p]
  BY DEF TypeInv, TypeOK
<1>3. /\ x.pc = "resolve" /\ x.visit = v /\ row' = row /\ row \in [Visits -> Rows]
      /\ biostar' = biostar /\ active' = active /\ overlapped' = overlapped /\ faulted' = faulted
  BY <1>0, <1>2 DEF ResolveConnections, TypeInv, TypeOK, db, ghosts
<1> DEFINE e == [x.copy EXCEPT !.sync = "NOT_CONFIGURED"]
           a == ToSave(x, v, e, "done")
           s == [x EXCEPT !.pc = "sync", !.conns = active, !.last = NoUser]
           d == [x EXCEPT !.pc = "delete", !.conns = active]
<1>4. \E y : h' = [h EXCEPT ![p] = y] /\ \/ active = {} /\ x.then = "sync" /\ y = a
                                         \/ active = {} /\ x.then # "sync" /\ y = AfterDelete(x)
                                         \/ active # {} /\ x.then = "sync" /\ y = s
                                         \/ active # {} /\ x.then # "sync" /\ y = d
  BY <1>2, <1>3 DEF ResolveConnections
<1>5. PICK y : h' = [h EXCEPT ![p] = y] /\ \/ active = {} /\ x.then = "sync" /\ y = a
                                           \/ active = {} /\ x.then # "sync" /\ y = AfterDelete(x)
                                           \/ active # {} /\ x.then = "sync" /\ y = s
                                           \/ active # {} /\ x.then # "sync" /\ y = d
  BY <1>4
<1>6. y.visit = v /\ y.pc \in Editing
  <2>1. a.visit = v /\ a.pc = "save" /\ AfterDelete(x).visit = v /\ AfterDelete(x).pc = "save"
    BY <1>3 DEF ToSave, AfterDelete, Handlers
  <2>2. s.visit = v /\ s.pc = "sync" /\ d.visit = v /\ d.pc = "delete"
    BY <1>3 DEF Handlers
  <2> HIDE DEF a, s, d
  <2>. QED  BY <1>5, <2>1, <2>2 DEF Editing
<1>7. ASSUME Account(u), WorkOK(x, u, row, biostar)
      PROVE  RefOK(row[v].ref, u) /\ WorkOK(y, u, row, biostar)
  <2>1. /\ active = Conns /\ RefOK(row[v].ref, u) /\ x.copy = row[v] /\ RefOK(x.copy.ref, u)
        /\ x.then \in {"sync", "checkout", "force"}
        /\ x.then \in {"sync", "force"} => x.copy.status = "CHECKED_IN"
        /\ Deletes(x) => x.copy.ref # NoUser
    BY <1>1, <1>3, <1>7 DEF Account, WorkOK
  <2>2. x.then = "sync" => Backed(row, biostar, u)
    <3>1. [row EXCEPT ![v] = x.copy] = row
      BY <1>3, <2>1
    <3>. QED  BY <1>3, <1>7, <3>1 DEF WorkOK, Deletes
  <2>3. CASE active = {} /\ x.then = "sync" /\ y = a
    <3>1. e.ref = x.copy.ref
      BY DEF Handlers, Rows
    <3> HIDE DEF e
    <3>2. a.pc = "save" /\ a.visit = v /\ a.copy = e /\ a.seen = NoRow /\ a.then = "done"
      BY DEF ToSave, Handlers
    <3>3. \A t : Backed(t, biostar, u)
      BY <2>1, <2>3 DEF Backed
    <3> HIDE DEF a
    <3>4. WorkOK(a, u, row, biostar)
      BY <2>1, <3>1, <3>2, <3>3 DEF WorkOK, Deletes
    <3>. QED  BY <2>1, <2>3, <3>4
  <2>4. CASE active = {} /\ x.then # "sync" /\ y = AfterDelete(x)
    <3>1. Deletes(x) /\ \A c \in Conns : ~On(biostar, c, u)
      BY <2>1, <2>4 DEF Deletes
    <3>. QED  BY <1>3, <2>1, <2>4, <3>1, AfterDeleteWork
  <2>5. CASE active # {} /\ x.then = "sync" /\ y = s
    <3>1. s.pc = "sync" /\ s.visit = v /\ s.copy = x.copy /\ s.then = "sync" /\ s.last = NoUser
      BY <1>3, <2>5 DEF Handlers
    <3> HIDE DEF s
    <3>2. WorkOK(s, u, row, biostar)
      BY <2>1, <2>2, <2>5, <3>1 DEF WorkOK, Deletes, RefOK
    <3>. QED  BY <2>1, <2>5, <3>2
  <2>6. CASE active # {} /\ x.then # "sync" /\ y = d
    <3>1. d.pc = "delete" /\ d.visit = v /\ d.copy = x.copy /\ d.then = x.then /\ d.conns = Conns
      BY <1>3, <2>1 DEF Handlers
    <3> HIDE DEF d
    <3>2. WorkOK(d, u, row, biostar)
      BY <2>1, <2>6, <3>1 DEF WorkOK, Deletes
    <3>. QED  BY <2>1, <2>6, <3>2
  <2>. QED  BY <1>5, <2>3, <2>4, <2>5, <2>6
<1> HIDE DEF a, s, d
<1>. QED  BY <1>0, <1>1, <1>2, <1>3, <1>5, <1>6, <1>7, WorkAccount DEF Editing

\* One turn of the loop of a sync: the server that answers has the user whose id
\* the handler keeps, one that fails has no new user.
LEMMA SyncAccount ==
    ASSUME OneIdEach, TypeInv, TypeInv', FollowInv, AccountInv, NEW p \in Procs, SyncWithConnection(p)
    PROVE  AccountInv'
<1>0. PICK v \in Visits : v = h[p].visit
  BY DEF SyncWithConnection, TypeInv, HandlerOK, Editing
<1>1. PICK u \in Visitors : u = VisitorOf[v] /\ v \in VisitsOf(u)
  BY ConstantsAssumption DEF VisitsOf
<1>2. PICK x \in Handlers : x = h[p]
  BY DEF TypeInv, TypeOK
<1>3. /\ x.pc = "sync" /\ x.visit = v /\ row' = row /\ row \in [Visits -> Rows]
      /\ active' = active /\ overlapped' = overlapped
  BY <1>0, <1>2 DEF SyncWithConnection, TypeInv, TypeOK
<1>4. PICK c \in Conns : c = First(x.conns)
  BY <1>2, <1>3, FirstInSet DEF TypeInv, HandlerOK, Handlers
<1>5. PICK id \in Users : id = UserIdOn[c, u] /\ \A d \in Conns : id = UserIdOn[d, u]
  <2>1. UserIdOn[c, u] \in Users
    BY ConstantsAssumption
  <2>2. \A d \in Conns : UserIdOn[c, u] = UserIdOn[d, u]
    BY DEF OneIdEach
  <2>. QED  BY <2>1, <2>2
<1> DEFINE rest == x.conns \ {c}
           Go(z) == IF rest = {} THEN AfterSync([z EXCEPT !.conns = {}]) ELSE [z EXCEPT !.conns = rest]
<1>6. PICK outcome \in {"ok", "failed", "lost"} :
         /\ biostar' = IF outcome = "failed" THEN biostar ELSE createBioStarUser(c, u)
         /\ h' = [h EXCEPT ![p] = Go(IF outcome = "ok" THEN [x EXCEPT !.last = id] ELSE x)]
         /\ faulted' = IF outcome = "lost" THEN faulted \cup {u} ELSE faulted
  BY <1>0, <1>1, <1>2, <1>4, <1>5 DEF SyncWithConnection
<1>7. PICK z \in Handlers : z = IF outcome = "ok" THEN [x EXCEPT !.last = id] ELSE x
  BY <1>5 DEF Handlers
<1>8. /\ z.pc = "sync" /\ z.visit = v /\ z.copy = x.copy /\ z.then = x.then
      /\ z.last = IF outcome = "ok" THEN id ELSE x.last
  BY <1>3, <1>7 DEF Handlers
<1>9. PICK y : y = Go(z)
  OBVIOUS
<1>10. h' = [h EXCEPT ![p] = y]
  BY <1>6, <1>7, <1>9
<1> DEFINE t == [z EXCEPT !.conns = {}]
           g == [z EXCEPT !.conns = rest]
<1>11. /\ t \in Handlers /\ t.visit = v /\ t.copy = x.copy /\ t.last = z.last
       /\ g.pc = "sync" /\ g.visit = v /\ g.copy = x.copy /\ g.last = z.last /\ g.then = x.then
  BY <1>8 DEF Handlers
<1>12. y = AfterSync(t) \/ y = g
  <2>1. CASE rest = {}
    BY <1>9, <2>1
  <2>2. CASE rest # {}
    BY <1>9, <2>2
  <2>. QED  BY <2>1, <2>2
<1> HIDE DEF t, g, rest, Go
<1>13. y.visit = v /\ y.pc \in Editing
  <2>1. AfterSync(t).visit = v /\ AfterSync(t).pc = "save"
    BY <1>11 DEF AfterSync, ToSave, Handlers
  <2>. QED  BY <1>11, <1>12, <2>1 DEF Editing
<1>14. \A w \in Visitors \ {u} : \A d \in Conns : On(biostar', d, w) => On(biostar, d, w)
  <2>1. ASSUME NEW w \in Visitors \ {u}, NEW d \in Conns, On(biostar', d, w) PROVE On(biostar, d, w)
    <3>1. UserIdOn[d, w] # UserIdOn[d, u]
      BY DEF OneIdEach
    <3>2. biostar \in [Conns -> SUBSET Users]
      BY DEF TypeInv, TypeOK
    <3>3. biostar' = biostar \/ biostar' = [biostar EXCEPT ![c] = @ \cup {UserIdOn[c, u]}]
      BY <1>6 DEF createBioStarUser
    <3>. QED  BY <2>1, <3>1, <3>2, <3>3 DEF On
  <2>. QED  BY <2>1
<1>15. ASSUME u \notin faulted', Account(u), WorkOK(x, u, row, biostar)
       PROVE  RefOK(row[v].ref, u) /\ WorkOK(y, u, row, biostar')
  <2>1. /\ x.then = "sync" /\ x.copy = row[v] /\ x.copy.status = "CHECKED_IN"
        /\ RefOK(x.copy.ref, u) /\ RefOK(x.last, u)
        /\ x.last = NoUser => Backed(row, biostar, u)
    BY <1>3, <1>15 DEF WorkOK
  <2>2. outcome # "lost"
    BY <1>6, <1>15
  <2>3. RefOK(z.last, u) /\ (z.last = NoUser => Backed(row, biostar', u))
    <3>1. id # NoUser /\ RefOK(id, u)
      BY <1>5, ConstantsAssumption DEF RefOK
    <3>. QED  BY <1>6, <1>8, <2>1, <2>2, <3>1
  <2>4. CASE y = AfterSync(t)
    BY <1>1, <1>3, <1>11, <2>1, <2>3, <2>4, AfterSyncWork
  <2>5. CASE y = g
    <3>1. WorkOK(g, u, row, biostar')
      BY <1>11, <2>1, <2>3 DEF WorkOK, Deletes
    <3>. QED  BY <2>1, <2>5, <3>1
  <2>. QED  BY <1>12, <2>1, <2>4, <2>5
<1>16. faulted \subseteq faulted'
  BY <1>6
<1>. QED  BY <1>0, <1>1, <1>2, <1>3, <1>10, <1>13, <1>14, <1>15, <1>16, WorkAccount DEF Editing

\* One turn of the loop of a delete.
LEMMA DeleteAccount ==
    ASSUME TypeInv, TypeInv', FollowInv, AccountInv, NEW p \in Procs, DeleteFromConnection(p)
    PROVE  AccountInv'
<1>0. PICK v \in Visits : v = h[p].visit
  BY DEF DeleteFromConnection, TypeInv, HandlerOK, Editing
<1>1. PICK u \in Visitors : u = VisitorOf[v] /\ v \in VisitsOf(u)
  BY ConstantsAssumption DEF VisitsOf
<1>2. PICK x \in Handlers : x = h[p]
  BY DEF TypeInv, TypeOK
<1>3. /\ x.pc = "delete" /\ x.visit = v /\ row' = row
      /\ active' = active /\ overlapped' = overlapped
  BY <1>0, <1>2 DEF DeleteFromConnection
<1>4. PICK c \in Conns : c = First(x.conns)
  BY <1>2, <1>3, FirstInSet DEF TypeInv, HandlerOK, Handlers
<1> DEFINE rest == x.conns \ {c}
           t == [x EXCEPT !.conns = {}]
           g == [x EXCEPT !.conns = rest]
<1>5. PICK y : h' = [h EXCEPT ![p] = y] /\ y = IF rest = {} THEN AfterDelete(t) ELSE g
  BY <1>2, <1>4 DEF DeleteFromConnection
<1>6. \/ biostar' = [biostar EXCEPT ![c] = @ \ {x.copy.ref}] /\ faulted' = faulted
      \/ biostar' = biostar /\ faulted' = faulted \cup {u}
  BY <1>0, <1>1, <1>2, <1>4 DEF DeleteFromConnection
<1>7. biostar \in [Conns -> SUBSET Users]
  BY DEF TypeInv, TypeOK
<1>8. /\ t \in Handlers /\ t.visit = v /\ t.copy = x.copy /\ t.then = x.then
      /\ g.pc = "delete" /\ g.visit = v /\ g.copy = x.copy /\ g.then = x.then /\ g.conns = rest
  BY <1>3 DEF Handlers
<1> HIDE DEF t, g
<1>9. y.visit = v /\ y.pc \in Editing
  <2>1. AfterDelete(t).visit = v /\ AfterDelete(t).pc = "save"
    BY <1>8 DEF AfterDelete, ToSave, Handlers
  <2>. QED  BY <1>5, <1>8, <2>1 DEF Editing
<1>10. \A w \in Visitors : \A d \in Conns : On(biostar', d, w) => On(biostar, d, w)
  BY <1>6, <1>7 DEF On
<1>11. ASSUME u \notin faulted', Account(u), WorkOK(x, u, row, biostar)
       PROVE  RefOK(row[v].ref, u) /\ WorkOK(y, u, row, biostar')
  <2>1. /\ Deletes(x) /\ x.copy = row[v] /\ RefOK(x.copy.ref, u) /\ x.copy.ref # NoUser
        /\ x.then = "force" => x.copy.status = "CHECKED_IN"
        /\ x.then \in {"checkout", "force"}
        /\ \A d \in Conns \ x.conns : ~On(biostar, d, u)
    BY <1>3, <1>11 DEF WorkOK, Deletes
  <2>2. biostar' = [biostar EXCEPT ![c] = @ \ {UserIdOn[c, u]}]
    BY <1>6, <1>11, <2>1 DEF RefOK
  <2>3. ~On(biostar', c, u)
    BY <1>7, <2>2 DEF On
  <2>4. \A d \in Conns \ rest : ~On(biostar', d, u)
    BY <1>10, <2>1, <2>3
  <2>5. CASE rest = {} /\ y = AfterDelete(t)
    <3>1. (t.then = "force" => t.copy.status = "CHECKED_IN") /\ Deletes(t)
      BY <1>8, <2>1 DEF Deletes
    <3>2. \A d \in Conns : ~On(biostar', d, u)
      BY <2>4, <2>5
    <3>. QED  BY <1>8, <2>1, <2>5, <3>1, <3>2, AfterDeleteWork
  <2>6. CASE y = g
    <3>1. WorkOK(g, u, row, biostar')
      BY <1>8, <2>1, <2>4 DEF WorkOK, Deletes
    <3>. QED  BY <2>1, <2>6, <3>1
  <2>. QED  BY <1>5, <2>5, <2>6
<1>12. faulted \subseteq faulted'
  BY <1>6
<1>. QED  BY <1>0, <1>1, <1>2, <1>3, <1>5, <1>9, <1>10, <1>11, <1>12, WorkAccount DEF Editing

\* Nobody edits a visit that is not inserted yet.
LEMMA InsertAccount ==
    ASSUME TypeInv, TypeInv', BegunInv, AccountInv, NEW p \in Procs, InsertVisit(p) PROVE AccountInv'
<1> DEFINE v == h[p].visit
<1>1. /\ v \in Visits /\ row[v].status = "ABSENT" /\ h[p].pc \notin Editing
      /\ h' = [h EXCEPT ![p] = Idle] /\ UNCHANGED <<biostar, active, overlapped, faulted>>
      /\ row' = [row EXCEPT ![v] = [NoRow EXCEPT !.status = "SCHEDULED"]]
  BY DEF InsertVisit, TypeInv, HandlerOK, BegunInv, Known, Editing, ghosts
<1>2. h'[p] = Idle /\ \A q \in Procs \ {p} : h'[q] = h[q]
  BY <1>1 DEF TypeInv, TypeOK
<1>3. row'[v].ref = NoUser /\ \A w \in Visits \ {v} : row'[w] = row[w]
  BY <1>1 DEF TypeInv, TypeOK, NoRow
<1>4. ASSUME NEW u \in Visitors, Account(u) PROVE Account(u)'
  <2>1. \A q \in Procs : h'[q] = h[q] \/ (~Works(h[q], u) /\ ~Works(h'[q], u))
    BY <1>1, <1>2 DEF Works, Idle, Editing
  <2>2. \A q \in Procs : Works(h[q], u) => h[q].visit # v
    BY <1>1 DEF Works, BegunInv, Known
  <2>3. \A w \in VisitsOf(u) : row'[w] = row[w] \/ w = v
    BY <1>3 DEF VisitsOf
  <2>. QED  BY <1>1, <1>3, <1>4, <2>1, <2>2, <2>3, OthersAccount
<1>. QED  BY <1>1, <1>4 DEF AccountInv, Undisturbed

LEMMA StepAccount ==
    ASSUME OneIdEach, TypeInv, TypeInv', BegunInv, FollowInv, AccountInv, NEW p \in Procs, Step(p)
    PROVE  AccountInv'
<1>1. h[p] \in Handlers /\ HandlerOK(h[p])
  BY DEF TypeInv, TypeOK
<1>2. \A v \in Visits : row[v] \in Rows
  BY DEF TypeInv, TypeOK
<1>3. Idle.pc \notin Editing
  BY DEF Idle, Editing
<1>a. CASE RunCheckout(p) \/ SendExitSurveyEmail(p)
  <2>1. [h[p] EXCEPT !.pc = "sweep", !.todo = {h[p].visit}].pc \notin Editing
    BY <1>1 DEF Handlers, Editing
  <2>2. PICK x : x.pc \notin Editing /\ h' = [h EXCEPT ![p] = x]
    <3>1. CASE RunCheckout(p)
      BY <1>3, <2>1, <3>1 DEF RunCheckout
    <3>2. CASE SendExitSurveyEmail(p)
      BY <1>3, <3>2 DEF SendExitSurveyEmail
    <3>. QED  BY <1>a, <3>1, <3>2
  <2>3. /\ h[p].pc \notin Editing /\ row' = row /\ biostar' = biostar /\ active' = active
        /\ UNCHANGED ghosts
    BY <1>a DEF RunCheckout, SendExitSurveyEmail, db, ghosts, Editing
  <2>. QED  BY <2>2, <2>3, AsideAccount
<1>b. CASE ReportFalseExit(p)
  <2> DEFINE v == h[p].visit
             e == [row[v] EXCEPT !.status = "FALSE_EXIT_REPORTED"]
  <2>1. v \in Visits /\ h[p].pc \notin Editing
    BY <1>1, <1>b DEF ReportFalseExit, HandlerOK, Editing
  <2>2. CASE row[v].status = "CHECKED_OUT" /\ Load(p, v, e, "done")
    <3>1. e \in Rows /\ e.ref = row[v].ref /\ ~Holds(row[v])
      BY <1>2, <2>1, <2>2 DEF Rows, Statuses, Holds
    <3>. QED  BY <2>1, <2>2, <3>1, LoadAccount
  <2>3. CASE h' = [h EXCEPT ![p] = Idle] /\ UNCHANGED <<db, ghosts>>
    BY <1>3, <2>1, <2>3, AsideAccount DEF db
  <2>. QED  BY <1>b, <2>2, <2>3 DEF ReportFalseExit
<1>c. ASSUME NEW v \in Visits, SweepNext(p, v) PROVE AccountInv'
  <2> DEFINE x == [h[p] EXCEPT !.todo = @ \ {v}]
  <2>1. x \in Handlers
    BY <1>1 DEF Handlers
  <2>2. LoadCheckout(p, v, x) /\ h[p].pc \notin Editing
    BY <1>c DEF SweepNext, Editing
  <2>. QED  BY <2>1, <2>2, LoadCheckoutAccount
<1>. QED
  BY <1>a, <1>b, <1>c, InsertAccount, SaveAccount, ResolveAccount, SyncAccount, DeleteAccount DEF Step

LEMMA CompareAccount ==
    ASSUME TypeInv, TypeInv', FollowInv, AccountInv, NEW p \in Procs, Compare(p) PROVE AccountInv'
<1>0. PICK v \in Visits : v = h[p].visit
  BY DEF Compare, TypeInv, HandlerOK, Editing
<1>1. PICK u \in Visitors : u = VisitorOf[v]
  BY ConstantsAssumption
<1>2. PICK y : y = [h[p] EXCEPT !.seen = row[v]]
  OBVIOUS
<1>3. /\ h[p] \in Handlers /\ h[p].pc = "save" /\ h' = [h EXCEPT ![p] = y]
      /\ row' = row /\ biostar' = biostar /\ active' = active
      /\ overlapped' = overlapped /\ faulted' = faulted
  BY <1>0, <1>2 DEF Compare, TypeInv, TypeOK, db, ghosts
<1>4. /\ y.pc = "save" /\ y.visit = v /\ y.copy = h[p].copy /\ y.then = h[p].then /\ y.seen = row[v]
  BY <1>0, <1>2, <1>3 DEF Handlers
<1>5. ASSUME Account(u), WorkOK(h[p], u, row, biostar)
      PROVE  RefOK(row[v].ref, u) /\ WorkOK(y, u, row, biostar)
  <2>1. RefOK(row[v].ref, u)
    BY <1>1, <1>5 DEF Account, VisitsOf
  <2>2. WorkOK(y, u, row, biostar)
    BY <1>0, <1>3, <1>4, <1>5 DEF WorkOK, Deletes
  <2>. QED  BY <2>1, <2>2
<1>. QED  BY <1>0, <1>1, <1>3, <1>4, <1>5, WorkAccount DEF Editing

LEMMA EnvironmentAccount ==
    ASSUME OneIdEach, TypeInv, TypeInv', AccountInv, Environment PROVE AccountInv'
<1>a. CASE Tick
  <2>1. UNCHANGED <<row, h, biostar, active, overlapped, faulted>>
    BY <1>a DEF Tick, ghosts
  <2>. QED  BY <2>1, OthersAccount DEF AccountInv, Undisturbed
<1>b. CASE Crash
  <2> SUFFICES ASSUME NEW u \in Visitors, u \notin overlapped' \cup faulted' PROVE Account(u)'
    BY DEF AccountInv, Undisturbed
  <2>1. /\ h' = [p \in Procs |-> Idle] /\ row' = row /\ biostar' = biostar /\ active' = active
        /\ overlapped' = overlapped /\ faulted \subseteq faulted'
        /\ \A p \in Procs : ~Works(h[p], u)
    BY <1>b, BusyWorks DEF Crash, db
  <2>2. Account(u)
    BY <2>1 DEF AccountInv, Undisturbed
  <2>3. \A p \in Procs : ~Works(h'[p], u)
    BY <2>1 DEF Works, Idle, Editing
  <2>. QED  BY <2>1, <2>2, <2>3, OthersAccount
<1>c. ASSUME NEW c \in Conns, SwitchConnection(c) PROVE AccountInv'
  BY <1>c DEF SwitchConnection, AccountInv, Undisturbed
<1>d. ASSUME NEW c \in Conns, NEW w \in Visitors, DeleteOrphanedBioStarUser(c, w) PROVE AccountInv'
  <2>1. /\ UNCHANGED <<row, h, active, overlapped>> /\ faulted \subseteq faulted'
        /\ biostar' = [biostar EXCEPT ![c] = @ \ {UserIdOn[c, w]}]
    BY <1>d DEF DeleteOrphanedBioStarUser
  <2>2. \A u \in Visitors : \A d \in Conns : On(biostar', d, u) => On(biostar, d, u)
    BY <2>1 DEF On, TypeInv, TypeOK
  <2>. QED  BY <2>1, <2>2, OthersAccount DEF AccountInv, Undisturbed
<1>. QED  BY <1>a, <1>b, <1>c, <1>d DEF Environment

LEMMA AccountStep ==
    ASSUME OneIdEach, TypeInv, BegunInv, FollowInv, AccountInv, [SplitNext]_vars PROVE AccountInv'
<1>0. TypeInv'
  BY TypeStep
<1>1. ASSUME NEW p \in Requests, Request(p) PROVE AccountInv'
  BY <1>0, <1>1, RequestAccount DEF Procs
<1>2. ASSUME NEW p \in Procs, Step(p) PROVE AccountInv'
  BY <1>0, <1>2, StepAccount
<1>3. CASE CloseExpiredTemporaryReenablements
  <2> DEFINE x == [Idle EXCEPT !.pc = "sweep", !.todo = {v \in Visits : Expired(v)}]
  <2>1. x.pc \notin Editing
    BY DEF Idle, Editing
  <2>2. /\ h' = [h EXCEPT ![Closer] = x] /\ h[Closer].pc \notin Editing
        /\ UNCHANGED <<db, ghosts>>
    BY <1>3 DEF CloseExpiredTemporaryReenablements, Editing
  <2>. QED  BY <1>0, <2>1, <2>2, AsideAccount DEF Procs, db
<1>4. CASE Environment
  BY <1>0, <1>4, EnvironmentAccount
<1>5. ASSUME NEW p \in Procs, Compare(p) PROVE AccountInv'
  BY <1>0, <1>5, CompareAccount
<1>6. CASE UNCHANGED vars
  BY <1>0, <1>6, OthersAccount DEF vars, AccountInv, Undisturbed
<1>. QED  BY <1>1, <1>2, <1>3, <1>4, <1>5, <1>6 DEF SplitNext, Next

LEMMA AccountInit == Init => AccountInv
<1> SUFFICES ASSUME Init, NEW u \in Visitors PROVE Account(u)
  BY DEF AccountInv
<1>1. active = Conns /\ \A c \in Conns : ~On(biostar, c, u)
  BY DEF Init, On
<1>2. \A w \in VisitsOf(u) : RefOK(row[w].ref, u)
  BY DEF Init, RefOK, NoRow, VisitsOf
<1>3. \A p \in Procs : ~Works(h[p], u)
  BY DEF Init, Works, Idle, Editing
<1>. QED  BY <1>1, <1>2, <1>3 DEF Account, Backed

\* Access is revoked: when no visit of a visitor is checked in and nobody works
\* on one, no server has the visitor's user, whatever checkInVisit,
\* temporaryReenableVisit, forceSyncVisit and checkoutVisit did to him before,
\* as long as handlers did not overlap and no call failed after it was made.
THEOREM AccessIsRevoked == OneIdEach => (SplitSpec => []AccessRevoked)
<1>1. AccountInv => AccessRevoked
  BY BusyWorks DEF AccountInv, Account, Undisturbed, AccessRevoked, Revoked, AtRest, Inside,
                   Backed, Holds, On
<1>2. OneIdEach /\ TypeInv /\ BegunInv /\ FollowInv /\ AccountInv /\ [SplitNext]_vars => AccountInv'
  BY AccountStep
<1>3. OneIdEach => OneIdEach'
  BY DEF OneIdEach
<1>. QED
  BY <1>1, <1>2, <1>3, AccountInit, TypeInit, TypeStep, BegunInit, BegunStep, FollowInit, FollowStep,
     PTL DEF SplitSpec

(***************************************************************************)
(* Access is granted.  What could take the user of a checked-in visit away *)
(* is the checkout of another visit of the visitor, which deletes the user *)
(* they share; but then that visit was admitted, too.  That it says so is  *)
(* the trail that an admission leaves: a user, a status, an exit event, a  *)
(* link.  The steps are sorted by what they do before any of this is       *)
(* proved: a handler moves aside, starts to edit a visit, or goes on.      *)
(***************************************************************************)

\* A row or an entity whose visitor has come says when.
Came == {"CHECKED_IN", "FALSE_EXIT_REPORTED"}
Traced(r) == r.ref # NoUser \/ r.status \in Came => r.in

\* Handler x is on the way of the exit of visit w: an exit device started it,
\* or the visitor's false-exit link.
Leaves(x, w) == \/ x.exit /\ w \in x.todo \cup {x.visit}
                \/ x.pc \in {"link", "mail"} /\ x.visit = w

\* The kinds of steps.  A handler without an entity becomes another such.
MovesAside(p, x) ==
    /\ h' = [h EXCEPT ![p] = x]
    /\ h[p].pc \notin Editing /\ x.pc \notin Editing
    /\ x.pc = "idle" => ~x.exit
    /\ UNCHANGED <<row, biostar, active, ghosts>>
    /\ \A w \in Visits : Leaves(x, w) =>
         Leaves(h[p], w) \/ row[w].status = "CHECKED_IN" \/ links[w] > 0
    /\ \A w \in Visits : links'[w] > 0 => links[w] > 0 \/ Leaves(h[p], w)

\* A handler loads visit v; an entity that is only to be saved leaves the
\* admission, and the user of a checked-in visit, as they are.
Starts(p, v, x) ==
    /\ h' = [h EXCEPT ![p] = x] /\ Enter(p, v)
    /\ h[p].pc \notin Editing /\ x.pc \in {"save", "resolve"} /\ x.visit = v
    /\ x.copy.ref = row[v].ref
    /\ row[v].in => x.copy.in
    /\ x.copy.status \in Came => x.copy.in \/ row[v].status \in Came \/ Leaves(h[p], v)
    /\ \A w \in Visits : Leaves(x, w) => Leaves(h[p], w)
    /\ x.pc = "save" /\ x.then = "done" =>
         \/ x.copy = row[v]
         \/ /\ x.copy.in = row[v].in /\ x.copy.sync = row[v].sync
            /\ row[v].status # "CHECKED_IN" \/ row[v].ref = NoUser

\* A handler goes on with its entity.  The servers keep the users of the
\* others; its entity is to be saved for good as it was before, after a sync,
\* or without being SYNCED.
UsersOf(x) == {x.last} \cup {UserIdOn[c, VisitorOf[x.visit]] : c \in Conns}
Keeps(x, y) ==
    /\ y.visit = x.visit /\ y.copy.in = x.copy.in /\ y.copy.status = x.copy.status
    /\ y.copy.ref \in {x.copy.ref, NoUser} \/ (x.pc = "sync" /\ y.copy.ref \in UsersOf(x))
    /\ y.pc = "sync" => y.last = NoUser \/ (x.pc = "sync" /\ y.last \in UsersOf(x))
Serves(x, y, bio, later) ==
    LET u == VisitorOf[x.visit] IN
    /\ \/ later = bio
       \/ x.pc = "sync" /\ \A c \in Conns : bio[c] \subseteq later[c]
       \/ x.pc = "delete" /\ \A c \in Conns : bio[c] \ {x.copy.ref} \subseteq later[c]
    /\ y.pc = "sync" /\ y.last # NoUser =>
         x.pc = "sync" /\ (y.last = x.last \/ \E c \in Conns : On(later, c, u))
    /\ y.pc = "save" /\ y.then = "done" =>
         \/ x.pc = "save" /\ x.then = "done" /\ y.copy = x.copy
         \/ x.pc # "save" /\ y.copy.sync # "SYNCED"
         \/ /\ x.pc = "sync" /\ y.copy.sync = "SYNCED" /\ y.copy.ref # NoUser
            /\ x.last # NoUser \/ \E c \in Conns : On(later, c, u)
GoesOn(p, y) ==
    /\ h[p].pc \in Editing
    /\ h' = [h EXCEPT ![p] = y]
    /\ y.pc = "idle" => ~y.exit
    /\ \A w \in Visits : Leaves(y, w) => Leaves(h[p], w)
    /\ y.pc \in Editing => Keeps(h[p], y)
    /\ Serves(h[p], y, biostar, biostar')
    /\ \/ row' = row /\ y.pc \in Editing
       \/ Save(p) /\ (y.pc \in Editing \/ h[p].then = "done")
    /\ UNCHANGED <<active, links, overlapped>> /\ faulted \subseteq faulted'

\* An idle handler is on the way of no exit.
IdleInv == \A p \in Procs : h[p].pc = "idle" => ~h[p].exit

LEMMA LoadStarts ==
    ASSUME TypeInv, NEW p \in Procs, NEW v \in Visits, NEW x \in Handlers, NEW e \in Rows, NEW t,
           h' = [h EXCEPT ![p] = ToSave(x, v, e, t)], Enter(p, v), h[p].pc \notin Editing,
           x.exit => h[p].exit /\ x.todo \cup {v} \subseteq h[p].todo \cup {h[p].visit},
           e.ref = row[v].ref,
           row[v].in => e.in,
           e.status \in Came => e.in \/ row[v].status \in Came \/ Leaves(h[p], v),
           t = "done" => \/ e = row[v]
                         \/ /\ e.in = row[v].in /\ e.sync = row[v].sync
                            /\ row[v].status # "CHECKED_IN" \/ row[v].ref = NoUser
    PROVE  \E y : Starts(p, v, y)
<1>1. PICK y : y = ToSave(x, v, e, t)
  OBVIOUS
<1>2. /\ y.pc = "save" /\ y.visit = v /\ y.copy = e /\ y.then = t
      /\ y.todo = x.todo /\ y.exit = x.exit
  BY <1>1 DEF ToSave, Handlers
<1>3. \A w \in Visits : Leaves(y, w) => Leaves(h[p], w)
  BY <1>2 DEF Leaves
<1>4. Starts(p, v, y)
  BY <1>1, <1>2, <1>3 DEF Starts
<1>. QED  BY <1>4

LEMMA LoadCheckoutKind ==
    ASSUME TypeInv, NEW p \in Procs, NEW v \in Visits, NEW x \in Handlers,
           h[p].pc \notin Editing, LoadCheckout(p, v, x),
           x.exit => h[p].exit /\ x.todo \cup {v} \subseteq h[p].todo \cup {h[p].visit}
    PROVE  \E y : MovesAside(p, y) \/ Starts(p, v, y)
<1>1. row[v] \in Rows /\ 0 \in 0..MaxTime
  BY ConstantsAssumption DEF TypeInv, TypeOK
<1>2. CASE row[v].status = "CHECKED_OUT"
  <2>1. PICK z \in Handlers : z = [x EXCEPT !.visit = v] /\ z.visit = v /\ z.todo = x.todo /\ z.exit = x.exit
    <3> DEFINE f == [x EXCEPT !.visit = v]
    <3>1. f \in Handlers /\ f.visit = v /\ f.todo = x.todo /\ f.exit = x.exit
      BY DEF Handlers
    <3>. QED  BY <3>1
  <2>2. PICK y : y = Done(z)
    OBVIOUS
  <2>3. h' = [h EXCEPT ![p] = y] /\ UNCHANGED <<db, ghosts>>
    BY <1>2, <2>1, <2>2 DEF LoadCheckout
  <2>4. /\ y.pc \notin Editing /\ (y.pc = "idle" => ~y.exit)
        /\ \A w \in Visits : Leaves(y, w) => Leaves(h[p], w)
    <3>1. CASE z.exit
      <4>1. y.pc = "mail" /\ y.visit = v /\ y.todo = x.todo /\ y.exit
        BY <2>1, <2>2, <3>1 DEF Done, Handlers
      <4>. QED  BY <2>1, <3>1, <4>1 DEF Leaves, Editing
    <3>2. CASE ~z.exit
      <4>1. y.pc \in {"sweep", "idle"} /\ ~y.exit
        BY <2>2, <3>2 DEF Done, Idle
      <4>. QED  BY <4>1 DEF Leaves, Editing
    <3>. QED  BY <3>1, <3>2
  <2>5. MovesAside(p, y)
    BY <2>3, <2>4 DEF MovesAside, db
  <2>. QED  BY <2>5
<1>3. CASE row[v].status # "CHECKED_OUT"
  <2>1. PICK e \in Rows : /\ e = [row[v] EXCEPT !.status = "CHECKED_OUT", !.out = TRUE, !.reenable = 0]
                          /\ e.status = "CHECKED_OUT" /\ e.in = row[v].in
                          /\ e.ref = row[v].ref /\ e.sync = row[v].sync
    <3> DEFINE f == [row[v] EXCEPT !.status = "CHECKED_OUT", !.out = TRUE, !.reenable = 0]
    <3>1. f \in Rows /\ f.status = "CHECKED_OUT" /\ f.in = row[v].in /\ f.ref = row[v].ref /\ f.sync = row[v].sync
      BY <1>1 DEF Rows, Statuses
    <3>. QED  BY <3>1
  <2>2. PICK t : t = IF row[v].ref # NoUser THEN "checkout" ELSE "done"
    OBVIOUS
  <2>3. h' = [h EXCEPT ![p] = ToSave(x, v, e, t)] /\ Enter(p, v)
    BY <1>3, <2>1, <2>2 DEF LoadCheckout
  <2>4. t = "done" => row[v].ref = NoUser
    BY <2>2
  <2>5. e.status \notin Came
    BY <2>1 DEF Came
  <2>. QED  BY <2>1, <2>3, <2>4, <2>5, LoadStarts
<1>. QED  BY <1>2, <1>3

\* An idle handler takes a request.
LEMMA RequestKind ==
    ASSUME TypeInv, IdleInv, NEW p \in Procs, Request(p)
    PROVE  \E x : MovesAside(p, x) \/ \E v \in Visits : Starts(p, v, x)
<1>0. h[p].pc = "idle" /\ h[p].pc \notin Editing /\ ~h[p].exit
  BY DEF Request, BulkCheckoutTenant, BulkCheckoutSelected, ScheduleVisit, InviteVisitors,
         CompletePreRegistration, MarkAsNoShow, CheckInVisit, ForceSyncVisit,
         TemporaryReenableVisit, CheckoutVisit, CheckoutOnExitDevice, SubmitExitSurvey,
         SpendFalseExitLink, DismissFalseExit, Editing, IdleInv
<1>1. \A v \in Visits : row[v] \in Rows
  BY DEF TypeInv, TypeOK
<1>2. h[p] \in Handlers
  BY DEF TypeInv, TypeOK
<1>3. 0 \in 0..MaxTime
  BY ConstantsAssumption
<1>a. CASE BulkCheckoutTenant(p) \/ \E S \in SUBSET Visits : BulkCheckoutSelected(p, S)
  <2>1. PICK S : h' = [h EXCEPT ![p] = [Idle EXCEPT !.pc = "sweep", !.todo = S]] /\ UNCHANGED <<db, ghosts>>
    BY <1>a DEF BulkCheckoutTenant, BulkCheckoutSelected
  <2>2. PICK x : x = [Idle EXCEPT !.pc = "sweep", !.todo = S]
    OBVIOUS
  <2>3. x.pc = "sweep" /\ ~x.exit
    BY <2>2 DEF Idle
  <2>4. MovesAside(p, x)
    BY <1>0, <2>1, <2>2, <2>3 DEF MovesAside, Leaves, Editing, db
  <2>. QED  BY <2>4
<1>b. ASSUME NEW v \in Visits, ScheduleVisit(p, v) \/ InviteVisitors(p, v)
      PROVE  \E x : MovesAside(p, x)
  <2>1. PICK x : x = [Idle EXCEPT !.pc = "insert", !.visit = v]
    OBVIOUS
  <2>2. x.pc = "insert" /\ ~x.exit
    BY <2>1 DEF Idle
  <2>3. h' = [h EXCEPT ![p] = x] /\ UNCHANGED <<db, ghosts>>
    BY <1>b, <2>1 DEF ScheduleVisit, InviteVisitors
  <2>4. MovesAside(p, x)
    BY <1>0, <2>2, <2>3 DEF MovesAside, Leaves, Editing, db
  <2>. QED  BY <2>4
<1>c. ASSUME NEW v \in Visits, SpendFalseExitLink(p, v) PROVE \E x : MovesAside(p, x)
  <2>1. PICK x : x = [Idle EXCEPT !.pc = "link", !.visit = v]
    OBVIOUS
  <2>2. x.pc = "link" /\ ~x.exit /\ x.visit = v
    BY <2>1 DEF Idle
  <2>3. /\ h' = [h EXCEPT ![p] = x] /\ links[v] > 0 /\ links' = [links EXCEPT ![v] = @ - 1]
        /\ UNCHANGED <<row, biostar, active, ghosts>>
    BY <1>c, <2>1 DEF SpendFalseExitLink
  <2>4. \A w \in Visits : links'[w] > 0 => links[w] > 0
    BY <2>3 DEF TypeInv, TypeOK
  <2>5. MovesAside(p, x)
    BY <1>0, <2>2, <2>3, <2>4 DEF MovesAside, Leaves, Editing
  <2>. QED  BY <2>5
<1>d. ASSUME NEW v \in Visits, CheckoutOnExitDevice(p, v) PROVE \E x : MovesAside(p, x)
  <2>1. PICK x : x = [Idle EXCEPT !.pc = "recheck", !.visit = v, !.exit = TRUE]
    OBVIOUS
  <2>2. x.pc = "recheck" /\ x.visit = v /\ x.todo = {}
    BY <2>1 DEF Idle
  <2>3. h' = [h EXCEPT ![p] = x] /\ row[v].status = "CHECKED_IN" /\ UNCHANGED <<db, ghosts>>
    BY <1>d, <2>1 DEF CheckoutOnExitDevice
  <2>4. MovesAside(p, x)
    BY <1>0, <2>2, <2>3 DEF MovesAside, Leaves, Editing, db
  <2>. QED  BY <2>4
<1>e. ASSUME NEW v \in Visits,
             CompletePreRegistration(p, v) \/ MarkAsNoShow(p, v) \/ DismissFalseExit(p, v)
      PROVE  \E x : Starts(p, v, x)
  <2>1. PICK s \in Statuses \ Came : Load(p, v, [row[v] EXCEPT !.status = s], "done")
    BY <1>e DEF CompletePreRegistration, MarkAsNoShow, DismissFalseExit, Statuses, Came
  <2>2. PICK e \in Rows : /\ e = [row[v] EXCEPT !.status = s]
                          /\ e.status = s /\ e.in = row[v].in /\ e.ref = row[v].ref /\ e.sync = row[v].sync
    <3> DEFINE f == [row[v] EXCEPT !.status = s]
    <3>1. f \in Rows /\ f.status = s /\ f.in = row[v].in /\ f.ref = row[v].ref /\ f.sync = row[v].sync
      BY <1>1 DEF Rows
    <3>. QED  BY <3>1
  <2>3. row[v].status # "CHECKED_IN"
    BY <1>e DEF CompletePreRegistration, MarkAsNoShow, DismissFalseExit
  <2>. QED  BY <1>0, <1>2, <2>1, <2>2, <2>3, LoadStarts DEF Load
<1>f. ASSUME NEW v \in Visits, SubmitExitSurvey(p, v) PROVE \E x : Starts(p, v, x)
  BY <1>0, <1>1, <1>2, <1>f, LoadStarts DEF SubmitExitSurvey, Load
<1>g. ASSUME NEW v \in Visits, CheckInVisit(p, v) PROVE \E x : Starts(p, v, x)
  <2>1. PICK e \in Rows :
            /\ e = [row[v] EXCEPT !.status = "CHECKED_IN", !.in = TRUE, !.out = FALSE, !.reenable = 0]
            /\ e.in /\ e.ref = row[v].ref
    <3> DEFINE f == [row[v] EXCEPT !.status = "CHECKED_IN", !.in = TRUE, !.out = FALSE, !.reenable = 0]
    <3>1. f \in Rows /\ f.in /\ f.ref = row[v].ref
      BY <1>1, <1>3 DEF Rows, Statuses
    <3>. QED  BY <3>1
  <2>. QED  BY <1>0, <1>2, <1>g, <2>1, LoadStarts DEF CheckInVisit, Load
<1>h. ASSUME NEW v \in Visits, NEW d \in 1..MaxTime, TemporaryReenableVisit(p, v, d)
      PROVE  \E x : Starts(p, v, x)
  <2>0. d \in 0..MaxTime
    BY ConstantsAssumption
  <2>1. PICK e \in Rows :
            /\ e = [row[v] EXCEPT !.status = "CHECKED_IN", !.out = FALSE, !.reenable = d]
            /\ e.in = row[v].in /\ e.ref = row[v].ref
    <3> DEFINE f == [row[v] EXCEPT !.status = "CHECKED_IN", !.out = FALSE, !.reenable = d]
    <3>1. f \in Rows /\ f.in = row[v].in /\ f.ref = row[v].ref
      BY <1>1, <2>0 DEF Rows, Statuses
    <3>. QED  BY <3>1
  <2>2. row[v].status \in Came
    BY <1>h DEF TemporaryReenableVisit, Came
  <2>. QED  BY <1>0, <1>2, <1>h, <2>1, <2>2, LoadStarts DEF TemporaryReenableVisit, Load
<1>i. ASSUME NEW v \in Visits, ForceSyncVisit(p, v) PROVE \E x : Starts(p, v, x)
  <2>0. row[v].status \in Came
    BY <1>i DEF ForceSyncVisit, Came
  <2>1. CASE row[v].ref # NoUser
    <3>1. PICK x : x = [Idle EXCEPT !.pc = "resolve", !.visit = v, !.copy = row[v], !.then = "force"]
      OBVIOUS
    <3>2. x.pc = "resolve" /\ x.visit = v /\ x.copy = row[v] /\ ~x.exit
      BY <3>1 DEF Idle
    <3>3. h' = [h EXCEPT ![p] = x] /\ Enter(p, v)
      BY <1>i, <2>1, <3>1 DEF ForceSyncVisit
    <3>4. Starts(p, v, x)
      BY <1>0, <2>0, <3>2, <3>3 DEF Starts, Leaves
    <3>. QED  BY <3>4
  <2>2. CASE row[v].ref = NoUser
    <3>1. PICK e \in Rows : e = [row[v] EXCEPT !.sync = "PENDING"] /\ e.in = row[v].in /\ e.ref = row[v].ref
      <4> DEFINE f == [row[v] EXCEPT !.sync = "PENDING"]
      <4>1. f \in Rows /\ f.in = row[v].in /\ f.ref = row[v].ref
        BY <1>1 DEF Rows, SyncStatuses
      <4>. QED  BY <4>1
    <3>2. Load(p, v, e, "sync")
      BY <1>i, <2>2, <3>1 DEF ForceSyncVisit
    <3>. QED  BY <1>0, <1>2, <2>0, <3>1, <3>2, LoadStarts DEF Load
  <2>. QED  BY <2>1, <2>2
<1>j. ASSUME NEW v \in Visits, CheckoutVisit(p, v) PROVE \E x : MovesAside(p, x) \/ Starts(p, v, x)
  BY <1>0, <1>2, <1>j, LoadCheckoutKind DEF CheckoutVisit
<1>. QED  BY <1>a, <1>b, <1>c, <1>d, <1>e, <1>f, <1>g, <1>h, <1>i, <1>j DEF Request

\* The steps of a handler that has no entity.
LEMMA WayKind ==
    ASSUME TypeInv, NEW p \in Procs,
           \/ RunCheckout(p) \/ SendExitSurveyEmail(p) \/ ReportFalseExit(p)
           \/ \E v \in Visits : SweepNext(p, v)
    PROVE  \E x : MovesAside(p, x) \/ \E v \in Visits : Starts(p, v, x)
<1>1. h[p] \in Handlers /\ HandlerOK(h[p])
  BY DEF TypeInv, TypeOK
<1>2. Idle.pc = "idle" /\ ~Idle.exit
  BY DEF Idle
<1>3. CASE RunCheckout(p)
  <2>1. h[p].pc = "recheck" /\ UNCHANGED <<db, ghosts>>
    BY <1>3 DEF RunCheckout
  <2>2. CASE h' = [h EXCEPT ![p] = Idle]
    <3>1. MovesAside(p, Idle)
      BY <1>2, <2>1, <2>2 DEF MovesAside, Leaves, Editing, db
    <3>. QED  BY <3>1
  <2>3. CASE h' = [h EXCEPT ![p] = [h[p] EXCEPT !.pc = "sweep", !.todo = {h[p].visit}]]
    <3>1. PICK x : x = [h[p] EXCEPT !.pc = "sweep", !.todo = {h[p].visit}]
      OBVIOUS
    <3>2. /\ x.pc = "sweep" /\ x.todo = {h[p].visit} /\ x.visit = h[p].visit
          /\ x.exit = h[p].exit
      BY <1>1, <3>1 DEF Handlers
    <3>3. MovesAside(p, x)
      BY <2>1, <2>3, <3>1, <3>2 DEF MovesAside, Leaves, Editing, db
    <3>. QED  BY <3>3
  <2>4. \/ h' = [h EXCEPT ![p] = Idle]
        \/ h' = [h EXCEPT ![p] = [h[p] EXCEPT !.pc = "sweep", !.todo = {h[p].visit}]]
    BY <1>3 DEF RunCheckout
  <2>. QED  BY <2>2, <2>3, <2>4
<1>4. CASE SendExitSurveyEmail(p)
  <2>1. /\ h[p].pc = "mail" /\ h' = [h EXCEPT ![p] = Idle]
        /\ UNCHANGED <<row, biostar, active, ghosts>>
    BY <1>4 DEF SendExitSurveyEmail
  <2>2. \A w \in Visits \ {h[p].visit} : links'[w] = links[w]
    BY <1>4 DEF SendExitSurveyEmail, TypeInv, TypeOK
  <2>3. MovesAside(p, Idle)
    BY <1>2, <2>1, <2>2 DEF MovesAside, Leaves, Editing
  <2>. QED  BY <2>3
<1>5. CASE ReportFalseExit(p)
  <2>1. PICK v \in Visits : v = h[p].visit /\ h[p].pc = "link" /\ row[v] \in Rows
    BY <1>1, <1>5 DEF ReportFalseExit, HandlerOK, TypeInv, TypeOK
  <2>2. CASE row[v].status = "CHECKED_OUT"
    <3>1. PICK e \in Rows : e = [row[v] EXCEPT !.status = "FALSE_EXIT_REPORTED"] /\ e.in = row[v].in /\ e.ref = row[v].ref /\ e.sync = row[v].sync
      <4> DEFINE f == [row[v] EXCEPT !.status = "FALSE_EXIT_REPORTED"]
      <4>1. f \in Rows /\ f.in = row[v].in /\ f.ref = row[v].ref /\ f.sync = row[v].sync
        BY <2>1 DEF Rows, Statuses
      <4>. QED  BY <4>1
    <3>2. h' = [h EXCEPT ![p] = ToSave(h[p], v, e, "done")] /\ Enter(p, v)
      BY <1>5, <2>1, <2>2, <3>1 DEF ReportFalseExit, Load
    <3>3. Leaves(h[p], v) /\ h[p].pc \notin Editing
      BY <2>1 DEF Leaves, Editing
    <3>. QED  BY <1>1, <2>1, <2>2, <3>1, <3>2, <3>3, LoadStarts
  <2>3. CASE row[v].status # "CHECKED_OUT"
    <3>1. h' = [h EXCEPT ![p] = Idle] /\ UNCHANGED <<db, ghosts>>
      BY <1>5, <2>1, <2>3 DEF ReportFalseExit
    <3>2. MovesAside(p, Idle)
      BY <1>2, <2>1, <3>1 DEF MovesAside, Leaves, Editing, db
    <3>. QED  BY <3>2
  <2>. QED  BY <2>2, <2>3
<1>6. ASSUME NEW v \in Visits, SweepNext(p, v)
      PROVE  \E x : MovesAside(p, x) \/ Starts(p, v, x)
  <2>1. PICK x \in Handlers : x = [h[p] EXCEPT !.todo = @ \ {v}] /\ x.todo = h[p].todo \ {v} /\ x.exit = h[p].exit
    <3> DEFINE f == [h[p] EXCEPT !.todo = @ \ {v}]
    <3>1. f \in Handlers /\ f.todo = h[p].todo \ {v} /\ f.exit = h[p].exit
      BY <1>1 DEF Handlers
    <3>. QED  BY <3>1
  <2>2. LoadCheckout(p, v, x) /\ h[p].pc \notin Editing /\ v \in h[p].todo
    BY <1>6, <2>1 DEF SweepNext, Editing
  <2>. QED  BY <2>1, <2>2, LoadCheckoutKind
<1>. QED  BY <1>3, <1>4, <1>5, <1>6

LEMMA CloserKind ==
    ASSUME CloseExpiredTemporaryReenablements PROVE \E x : MovesAside(Closer, x)
<1>1. PICK x : x = [Idle EXCEPT !.pc = "sweep", !.todo = {v \in Visits : Expired(v)}]
  OBVIOUS
<1>2. x.pc = "sweep" /\ ~x.exit
  BY <1>1 DEF Idle
<1>3. /\ h' = [h EXCEPT ![Closer] = x] /\ h[Closer].pc = "idle" /\ UNCHANGED <<db, ghosts>>
  BY <1>1 DEF CloseExpiredTemporaryReenablements
<1>4. MovesAside(Closer, x)
  BY <1>2, <1>3 DEF MovesAside, Leaves, Editing, db
<1>. QED  BY <1>4

\* The steps of a handler that has one.  What is saved after a loop:
LEMMA ToSaveGives ==
    ASSUME NEW x \in Handlers, NEW v, NEW e, NEW t
    PROVE  LET y == ToSave(x, v, e, t) IN
           /\ y.pc = "save" /\ y.visit = v /\ y.copy = e /\ y.then = t
           /\ y.todo = x.todo /\ y.exit = x.exit
  BY DEF ToSave, Handlers

LEMMA ToSaveLeaves ==
    ASSUME NEW x \in Handlers, NEW e, NEW t, NEW w, Leaves(ToSave(x, x.visit, e, t), w)
    PROVE  Leaves(x, w)
<1>1. PICK y : y = ToSave(x, x.visit, e, t)
  OBVIOUS
<1>2. y.pc = "save" /\ y.visit = x.visit /\ y.todo = x.todo /\ y.exit = x.exit
  BY <1>1, ToSaveGives
<1>. QED  BY <1>1, <1>2 DEF Leaves

LEMMA AfterSyncKind ==
    ASSUME NEW x \in Handlers
    PROVE  LET y == AfterSync(x) IN
           /\ y.pc = "save" /\ y.then = "done" /\ y.visit = x.visit
           /\ y.copy.in = x.copy.in /\ y.copy.status = x.copy.status
           /\ y.copy.ref = (IF x.last # NoUser THEN x.last ELSE x.copy.ref)
           /\ y.copy.sync = (IF x.last # NoUser THEN "SYNCED" ELSE "PENDING")
           /\ \A w \in Visits : Leaves(y, w) => Leaves(x, w)
<1>0. x.copy \in Rows
  BY DEF Handlers
<1>1. CASE x.last # NoUser
  <2> DEFINE e == [x.copy EXCEPT !.ref = x.last, !.sync = "SYNCED"]
  <2>1. /\ e.status = x.copy.status /\ e.in = x.copy.in
        /\ e.ref = x.last /\ e.sync = "SYNCED"
    BY <1>0 DEF Rows
  <2>2. AfterSync(x) = ToSave(x, x.visit, e, "done")
    BY <1>1 DEF AfterSync
  <2> HIDE DEF e
  <2>. QED  BY <1>1, <2>1, <2>2, ToSaveGives, ToSaveLeaves
<1>2. CASE x.last = NoUser
  <2> DEFINE e == [x.copy EXCEPT !.sync = "PENDING"]
  <2>1. /\ e.status = x.copy.status /\ e.in = x.copy.in
        /\ e.ref = x.copy.ref /\ e.sync = "PENDING"
    BY <1>0 DEF Rows
  <2>2. AfterSync(x) = ToSave(x, x.visit, e, "done")
    BY <1>2 DEF AfterSync
  <2> HIDE DEF e
  <2>. QED  BY <1>2, <2>1, <2>2, ToSaveGives, ToSaveLeaves
<1>. QED  BY <1>1, <1>2

LEMMA AfterDeleteKind ==
    ASSUME NEW x \in Handlers
    PROVE  LET y == AfterDelete(x) IN
           /\ y.pc = "save" /\ y.visit = x.visit
           /\ y.copy.in = x.copy.in /\ y.copy.status = x.copy.status /\ y.copy.ref = NoUser
           /\ y.then = "done" => y.copy.sync = "null"
           /\ \A w \in Visits : Leaves(y, w) => Leaves(x, w)
<1>0. x.copy \in Rows
  BY DEF Handlers
<1>1. CASE x.then = "force"
  <2> DEFINE e == [x.copy EXCEPT !.ref = NoUser]
  <2>1. /\ e.status = x.copy.status /\ e.in = x.copy.in
        /\ e.ref = NoUser /\ e.sync = x.copy.sync
    BY <1>0 DEF Rows
  <2>2. AfterDelete(x) = ToSave(x, x.visit, e, "pending")
    BY <1>1 DEF AfterDelete
  <2> HIDE DEF e
  <2>. QED  BY <2>1, <2>2, ToSaveGives, ToSaveLeaves
<1>2. CASE x.then # "force"
  <2> DEFINE e == [x.copy EXCEPT !.ref = NoUser, !.sync = "null"]
  <2>1. /\ e.status = x.copy.status /\ e.in = x.copy.in
        /\ e.ref = NoUser /\ e.sync = "null"
    BY <1>0 DEF Rows
  <2>2. AfterDelete(x) = ToSave(x, x.visit, e, "done")
    BY <1>2 DEF AfterDelete
  <2> HIDE DEF e
  <2>. QED  BY <2>1, <2>2, ToSaveGives, ToSaveLeaves
<1>. QED  BY <1>1, <1>2

LEMMA CompareKind == ASSUME TypeInv, NEW p \in Procs, Compare(p) PROVE \E y : GoesOn(p, y)
<1>1. PICK y : y = [h[p] EXCEPT !.seen = row[h[p].visit]]
  OBVIOUS
<1>2. PICK x \in Handlers : x = h[p] /\ x.pc = "save"
  BY DEF Compare, TypeInv, TypeOK
<1>3. /\ y.pc = "save" /\ y.visit = x.visit /\ y.copy = x.copy /\ y.then = x.then
      /\ y.todo = x.todo /\ y.exit = x.exit
  BY <1>1, <1>2 DEF Handlers
<1>4. h' = [h EXCEPT ![p] = y] /\ UNCHANGED <<db, ghosts>>
  BY <1>1 DEF Compare
<1>5. Keeps(x, y) /\ Serves(x, y, biostar, biostar)
  BY <1>2, <1>3 DEF Keeps, Serves
<1>6. GoesOn(p, y)
  BY <1>2, <1>3, <1>4, <1>5 DEF GoesOn, Leaves, Editing, db, ghosts
<1>. QED  BY <1>6

LEMMA SaveKind == ASSUME TypeInv, NEW p \in Procs, Save(p) PROVE \E y : GoesOn(p, y)
<1>1. PICK y : y = AfterSave(h[p])
  OBVIOUS
<1>2. PICK x \in Handlers : x = h[p] /\ x.pc = "save" /\ x.copy \in Rows
  BY DEF Save, TypeInv, TypeOK, Handlers
<1>3. h' = [h EXCEPT ![p] = y] /\ UNCHANGED <<biostar, active, links, ghosts>>
  BY <1>1 DEF Save
<1>4. CASE x.then = "done"
  <2>1. /\ y.pc \in {"mail", "sweep", "idle"} /\ (y.pc # "mail" => ~y.exit)
        /\ y.pc = "mail" => y.exit /\ x.exit /\ y.visit = x.visit /\ y.todo = x.todo
    BY <1>1, <1>2, <1>4 DEF AfterSave, Done, Idle, Handlers
  <2>2. GoesOn(p, y)
    BY <1>2, <1>3, <1>4, <2>1 DEF GoesOn, Serves, Leaves, Editing, ghosts
  <2>. QED  BY <2>2
<1>5. CASE x.then = "pending"
  <2>1. PICK e \in Rows : e = [x.copy EXCEPT !.sync = "PENDING"] /\ e.in = x.copy.in /\ e.status = x.copy.status /\ e.ref = x.copy.ref
    <3> DEFINE f == [x.copy EXCEPT !.sync = "PENDING"]
    <3>1. f \in Rows /\ f.in = x.copy.in /\ f.status = x.copy.status /\ f.ref = x.copy.ref
      BY <1>2 DEF Rows, SyncStatuses
    <3>. QED  BY <3>1
  <2>2. y = ToSave(x, x.visit, e, "sync")
    BY <1>1, <1>2, <1>5, <2>1 DEF AfterSave
  <2>3. /\ y.pc = "save" /\ y.visit = x.visit /\ y.copy = e /\ y.then = "sync"
        /\ \A w \in Visits : Leaves(y, w) => Leaves(x, w)
    BY <2>2, ToSaveGives, ToSaveLeaves
  <2>4. Keeps(x, y) /\ Serves(x, y, biostar, biostar)
    BY <2>1, <2>3 DEF Keeps, Serves
  <2>5. GoesOn(p, y)
    BY <1>2, <1>3, <2>3, <2>4 DEF GoesOn, Editing, ghosts
  <2>. QED  BY <2>5
<1>6. CASE x.then \notin {"done", "pending"}
  <2>1. y = [x EXCEPT !.pc = "resolve", !.seen = NoRow]
    BY <1>1, <1>2, <1>6 DEF AfterSave
  <2>2. /\ y.pc = "resolve" /\ y.visit = x.visit /\ y.copy = x.copy /\ y.todo = x.todo
        /\ y.exit = x.exit
    BY <2>1 DEF Handlers
  <2>3. Keeps(x, y) /\ Serves(x, y, biostar, biostar)
    BY <1>2, <2>2 DEF Keeps, Serves
  <2>4. GoesOn(p, y)
    BY <1>2, <1>3, <2>2, <2>3 DEF GoesOn, Leaves, Editing, ghosts
  <2>. QED  BY <2>4
<1>. QED  BY <1>4, <1>5, <1>6

LEMMA ResolveKind == ASSUME TypeInv, NEW p \in Procs, ResolveConnections(p) PROVE \E y : GoesOn(p, y)
<1>1. PICK x \in Handlers : x = h[p] /\ x.pc = "resolve" /\ x.copy \in Rows
  BY DEF ResolveConnections, TypeInv, TypeOK, Handlers
<1>2. \E y : /\ h' = [h EXCEPT ![p] = y] /\ UNCHANGED <<db, ghosts>>
             /\ \/ y = ToSave(x, x.visit, [x.copy EXCEPT !.sync = "NOT_CONFIGURED"], "done")
                \/ y = AfterDelete(x)
                \/ y = [x EXCEPT !.pc = "sync", !.conns = active, !.last = NoUser]
                \/ y = [x EXCEPT !.pc = "delete", !.conns = active]
  BY <1>1 DEF ResolveConnections
<1>3. PICK y : /\ h' = [h EXCEPT ![p] = y] /\ UNCHANGED <<db, ghosts>>
               /\ \/ y = ToSave(x, x.visit, [x.copy EXCEPT !.sync = "NOT_CONFIGURED"], "done")
                  \/ y = AfterDelete(x)
                  \/ y = [x EXCEPT !.pc = "sync", !.conns = active, !.last = NoUser]
                  \/ y = [x EXCEPT !.pc = "delete", !.conns = active]
  BY <1>2
<1>4. ASSUME y.pc \in Editing, Keeps(x, y), Serves(x, y, biostar, biostar),
             \A w \in Visits : Leaves(y, w) => Leaves(x, w)
      PROVE  \E z : GoesOn(p, z)
  <2>1. GoesOn(p, y)
    BY <1>1, <1>3, <1>4 DEF GoesOn, Editing, db, ghosts
  <2>. QED  BY <2>1
<1>5. CASE y = ToSave(x, x.visit, [x.copy EXCEPT !.sync = "NOT_CONFIGURED"], "done")
  <2>1. PICK e \in Rows : e = [x.copy EXCEPT !.sync = "NOT_CONFIGURED"] /\ e.in = x.copy.in /\ e.status = x.copy.status /\ e.ref = x.copy.ref /\ e.sync = "NOT_CONFIGURED"
    <3> DEFINE f == [x.copy EXCEPT !.sync = "NOT_CONFIGURED"]
    <3>1. f \in Rows /\ f.in = x.copy.in /\ f.status = x.copy.status /\ f.ref = x.copy.ref /\ f.sync = "NOT_CONFIGURED"
      BY <1>1 DEF Rows, SyncStatuses
    <3>. QED  BY <3>1
  <2>2. /\ y.pc = "save" /\ y.visit = x.visit /\ y.copy = e
        /\ \A w \in Visits : Leaves(y, w) => Leaves(x, w)
    BY <1>5, <2>1, ToSaveGives, ToSaveLeaves
  <2>3. Keeps(x, y) /\ Serves(x, y, biostar, biostar)
    BY <1>1, <2>1, <2>2 DEF Keeps, Serves
  <2>. QED  BY <1>4, <2>2, <2>3 DEF Editing
<1>6. CASE y = AfterDelete(x)
  <2>1. /\ y.pc = "save" /\ y.visit = x.visit
        /\ y.copy.in = x.copy.in /\ y.copy.status = x.copy.status /\ y.copy.ref = NoUser
        /\ y.then = "done" => y.copy.sync = "null"
        /\ \A w \in Visits : Leaves(y, w) => Leaves(x, w)
    BY <1>6, AfterDeleteKind
  <2>2. Keeps(x, y) /\ Serves(x, y, biostar, biostar)
    BY <1>1, <2>1 DEF Keeps, Serves
  <2>. QED  BY <1>4, <2>1, <2>2 DEF Editing
<1>7. CASE \/ y = [x EXCEPT !.pc = "sync", !.conns = active, !.last = NoUser]
           \/ y = [x EXCEPT !.pc = "delete", !.conns = active]
  <2>1. /\ y.pc \in {"sync", "delete"} /\ y.visit = x.visit /\ y.copy = x.copy /\ y.todo = x.todo
        /\ y.exit = x.exit /\ (y.pc = "sync" => y.last = NoUser)
    BY <1>7 DEF Handlers
  <2>2. Keeps(x, y) /\ Serves(x, y, biostar, biostar)
    BY <1>1, <2>1 DEF Keeps, Serves
  <2>. QED  BY <1>4, <2>1, <2>2 DEF Editing, Leaves
<1>. QED  BY <1>3, <1>5, <1>6, <1>7

LEMMA SyncKind == ASSUME TypeInv, NEW p \in Procs, SyncWithConnection(p) PROVE \E y : GoesOn(p, y)
<1>1. PICK x \in Handlers : x = h[p] /\ x.pc = "sync" /\ x.visit \in Visits /\ x.conns # {} /\ x.conns \subseteq Conns
  BY DEF SyncWithConnection, TypeInv, TypeOK, HandlerOK, Handlers, Editing
<1>2. PICK c \in Conns : c = First(x.conns)
  BY <1>1, FirstInSet
<1>3. PICK u : u = VisitorOf[x.visit]
  OBVIOUS
<1>4. PICK id \in Users : id = UserIdOn[c, u] /\ id # NoUser
  BY <1>1, <1>3, ConstantsAssumption
<1> DEFINE rest == x.conns \ {c}
           Go(z) == IF rest = {} THEN AfterSync([z EXCEPT !.conns = {}]) ELSE [z EXCEPT !.conns = rest]
<1>5. PICK outcome \in {"ok", "failed", "lost"} :
         /\ biostar' = IF outcome = "failed" THEN biostar ELSE createBioStarUser(c, u)
         /\ h' = [h EXCEPT ![p] = Go(IF outcome = "ok" THEN [x EXCEPT !.last = id] ELSE x)]
         /\ faulted' = IF outcome = "lost" THEN faulted \cup {u} ELSE faulted
  BY <1>1, <1>2, <1>3, <1>4 DEF SyncWithConnection
<1>6. /\ \A d \in Conns : biostar[d] \subseteq biostar'[d]
      /\ outcome = "ok" => On(biostar', c, u)
  BY <1>4, <1>5 DEF createBioStarUser, TypeInv, TypeOK, On
<1>7. PICK z \in Handlers : z = IF outcome = "ok" THEN [x EXCEPT !.last = id] ELSE x
  BY <1>4 DEF Handlers
<1>8. /\ z.pc = "sync" /\ z.visit = x.visit /\ z.copy = x.copy /\ z.then = x.then
      /\ z.todo = x.todo /\ z.exit = x.exit
      /\ z.last = IF outcome = "ok" THEN id ELSE x.last
  BY <1>1, <1>7 DEF Handlers
<1>9. z.last \in UsersOf(x) /\ (z.last # x.last => On(biostar', c, u))
  BY <1>3, <1>4, <1>6, <1>8 DEF UsersOf
<1>10. PICK y : y = Go(z)
  OBVIOUS
<1>11. /\ h' = [h EXCEPT ![p] = y] /\ faulted \subseteq faulted'
       /\ UNCHANGED <<row, active, links, overlapped>>
  BY <1>5, <1>7, <1>10 DEF SyncWithConnection
<1>12. ASSUME y.pc \in Editing, Keeps(x, y), Serves(x, y, biostar, biostar'),
              \A w \in Visits : Leaves(y, w) => Leaves(x, w)
       PROVE  \E q : GoesOn(p, q)
  <2>1. GoesOn(p, y)
    BY <1>1, <1>11, <1>12 DEF GoesOn, Editing
  <2>. QED  BY <2>1
<1>13. CASE rest = {}
  <2>1. PICK t \in Handlers : t = [z EXCEPT !.conns = {}] /\ t.visit = x.visit /\ t.copy = x.copy /\ t.last = z.last /\ t.todo = x.todo /\ t.exit = x.exit /\ t.pc = "sync"
    <3> DEFINE f == [z EXCEPT !.conns = {}]
    <3>1. f \in Handlers /\ f.visit = x.visit /\ f.copy = x.copy /\ f.last = z.last /\ f.todo = x.todo /\ f.exit = x.exit /\ f.pc = "sync"
      BY <1>8 DEF Handlers
    <3>. QED  BY <3>1
  <2>2. y = AfterSync(t)
    BY <1>10, <1>13, <2>1
  <2>3. /\ y.pc = "save" /\ y.then = "done" /\ y.visit = x.visit
        /\ y.copy.in = x.copy.in /\ y.copy.status = x.copy.status
        /\ y.copy.ref = (IF z.last # NoUser THEN z.last ELSE x.copy.ref)
        /\ y.copy.sync = (IF z.last # NoUser THEN "SYNCED" ELSE "PENDING")
        /\ \A w \in Visits : Leaves(y, w) => Leaves(t, w)
    BY <2>1, <2>2, AfterSyncKind
  <2>4. \A w \in Visits : Leaves(y, w) => Leaves(x, w)
    BY <1>1, <2>1, <2>3 DEF Leaves
  <2>5. Keeps(x, y)
    BY <1>1, <1>9, <2>3 DEF Keeps
  <2>6. Serves(x, y, biostar, biostar')
    BY <1>1, <1>3, <1>6, <1>9, <2>3 DEF Serves
  <2>. QED  BY <1>12, <2>3, <2>4, <2>5, <2>6 DEF Editing
<1>14. CASE rest # {}
  <2>1. y = [z EXCEPT !.conns = rest]
    BY <1>10, <1>14
  <2>2. /\ y.pc = "sync" /\ y.visit = x.visit /\ y.copy = x.copy /\ y.last = z.last
        /\ y.todo = x.todo /\ y.exit = x.exit
    BY <1>8, <2>1 DEF Handlers
  <2>3. Keeps(x, y)
    BY <1>1, <1>9, <2>2 DEF Keeps
  <2>4. Serves(x, y, biostar, biostar')
    BY <1>1, <1>3, <1>6, <1>9, <2>2 DEF Serves
  <2>. QED  BY <1>1, <1>12, <2>2, <2>3, <2>4 DEF Editing, Leaves
<1>. QED  BY <1>13, <1>14

LEMMA DeleteKind == ASSUME TypeInv, NEW p \in Procs, DeleteFromConnection(p) PROVE \E y : GoesOn(p, y)
<1>1. PICK x \in Handlers : x = h[p] /\ x.pc = "delete" /\ x.conns # {} /\ x.conns \subseteq Conns
  BY DEF DeleteFromConnection, TypeInv, TypeOK, HandlerOK, Handlers
<1>2. PICK c \in Conns : c = First(x.conns)
  BY <1>1, FirstInSet
<1>3. PICK rest : rest = x.conns \ {c}
  OBVIOUS
<1>4. PICK t \in Handlers : t = [x EXCEPT !.conns = {}] /\ t.visit = x.visit /\ t.copy = x.copy /\ t.todo = x.todo /\ t.exit = x.exit /\ t.pc = x.pc
  <2> DEFINE f == [x EXCEPT !.conns = {}]
  <2>1. f \in Handlers /\ f.visit = x.visit /\ f.copy = x.copy /\ f.todo = x.todo /\ f.exit = x.exit /\ f.pc = x.pc
    BY DEF Handlers
  <2>. QED  BY <2>1
<1>5. PICK y : /\ h' = [h EXCEPT ![p] = y]
               /\ y = IF rest = {} THEN AfterDelete(t) ELSE [x EXCEPT !.conns = rest]
  BY <1>1, <1>2, <1>3, <1>4 DEF DeleteFromConnection
<1>6. /\ faulted \subseteq faulted' /\ UNCHANGED <<row, active, links, overlapped>>
      /\ biostar' = [biostar EXCEPT ![c] = @ \ {x.copy.ref}] \/ biostar' = biostar
  BY <1>1, <1>2 DEF DeleteFromConnection
<1>7. \A d \in Conns : biostar[d] \ {x.copy.ref} \subseteq biostar'[d]
  BY <1>6 DEF TypeInv, TypeOK
<1>8. ASSUME y.pc \in Editing, Keeps(x, y), Serves(x, y, biostar, biostar'),
             \A w \in Visits : Leaves(y, w) => Leaves(x, w)
      PROVE  \E q : GoesOn(p, q)
  <2>1. GoesOn(p, y)
    BY <1>1, <1>5, <1>6, <1>8 DEF GoesOn, Editing
  <2>. QED  BY <2>1
<1>9. CASE rest = {}
  <2>1. /\ y.pc = "save" /\ y.visit = x.visit
        /\ y.copy.in = x.copy.in /\ y.copy.status = x.copy.status /\ y.copy.ref = NoUser
        /\ y.then = "done" => y.copy.sync = "null"
        /\ \A w \in Visits : Leaves(y, w) => Leaves(t, w)
    BY <1>4, <1>5, <1>9, AfterDeleteKind
  <2>2. \A w \in Visits : Leaves(y, w) => Leaves(x, w)
    BY <1>4, <2>1 DEF Leaves
  <2>3. Keeps(x, y) /\ Serves(x, y, biostar, biostar')
    BY <1>1, <1>7, <2>1 DEF Keeps, Serves
  <2>. QED  BY <1>8, <2>1, <2>2, <2>3 DEF Editing
<1>10. CASE rest # {}
  <2>1. y = [x EXCEPT !.conns = rest]
    BY <1>5, <1>10
  <2>2. y.pc = "delete" /\ y.visit = x.visit /\ y.copy = x.copy /\ y.todo = x.todo /\ y.exit = x.exit
    BY <1>1, <2>1 DEF Handlers
  <2>3. Keeps(x, y) /\ Serves(x, y, biostar, biostar')
    BY <1>1, <1>7, <2>2 DEF Keeps, Serves
  <2>. QED  BY <1>1, <1>8, <2>2, <2>3 DEF Editing, Leaves
<1>. QED  BY <1>9, <1>10

LEMMA StepKind ==
    ASSUME TypeInv, IdleInv, [SplitNext]_vars
    PROVE  \/ \E p \in Procs : \E x : MovesAside(p, x)
           \/ \E p \in Procs : \E v \in Visits : \E x : Starts(p, v, x)
           \/ \E p \in Procs : \E y : GoesOn(p, y)
           \/ \E p \in Procs : InsertVisit(p)
           \/ Environment
           \/ UNCHANGED vars
<1>1. ASSUME NEW p \in Requests, Request(p) PROVE \E x : MovesAside(p, x) \/ \E v \in Visits : Starts(p, v, x)
  BY <1>1, RequestKind DEF Procs
<1>2. ASSUME NEW p \in Procs, Step(p)
      PROVE  \/ \E x : MovesAside(p, x) \/ \E v \in Visits : Starts(p, v, x)
             \/ \E y : GoesOn(p, y)
             \/ InsertVisit(p)
  BY <1>2, WayKind, SaveKind, ResolveKind, SyncKind, DeleteKind DEF Step
<1>3. ASSUME NEW p \in Procs, Compare(p) PROVE \E y : GoesOn(p, y)
  BY <1>3, CompareKind
<1>. QED  BY <1>1, <1>2, <1>3, CloserKind DEF SplitNext, Next, Procs

LEMMA IdleStep == TypeInv /\ IdleInv /\ [SplitNext]_vars => IdleInv'
<1> SUFFICES ASSUME TypeInv, IdleInv, [SplitNext]_vars PROVE IdleInv'
  OBVIOUS
<1>0. h \in [Procs -> Handlers]
  BY DEF TypeInv, TypeOK
<1>1. ASSUME NEW p \in Procs, NEW x, h' = [h EXCEPT ![p] = x], x.pc = "idle" => ~x.exit
      PROVE  IdleInv'
  BY <1>0, <1>1 DEF IdleInv
<1>2. ~Idle.exit
  BY DEF Idle
<1>3. ASSUME NEW p \in Procs, NEW x, MovesAside(p, x) PROVE IdleInv'
  BY <1>1, <1>3 DEF MovesAside
<1>4. ASSUME NEW p \in Procs, NEW v \in Visits, NEW x, Starts(p, v, x) PROVE IdleInv'
  BY <1>1, <1>4 DEF Starts
<1>5. ASSUME NEW p \in Procs, NEW y, GoesOn(p, y) PROVE IdleInv'
  BY <1>1, <1>5 DEF GoesOn
<1>6. ASSUME NEW p \in Procs, InsertVisit(p) PROVE IdleInv'
  BY <1>1, <1>2, <1>6 DEF InsertVisit
<1>7. CASE Environment
  BY <1>2, <1>7 DEF Environment, Tick, Crash, SwitchConnection, DeleteOrphanedBioStarUser, IdleInv
<1>8. CASE UNCHANGED vars
  BY <1>8 DEF vars, IdleInv
<1>. QED  BY <1>3, <1>4, <1>5, <1>6, <1>7, <1>8, StepKind

\* A row and the entities of its handlers refer to no other visitor's user, even
\* when handlers overlap or calls fail.
OwnOK(x) ==
    x.pc \in Editing =>
      /\ RefOK(x.copy.ref, VisitorOf[x.visit])
      /\ x.pc = "sync" => RefOK(x.last, VisitorOf[x.visit])
OwnInv ==
    /\ \A v \in Visits : RefOK(row[v].ref, VisitorOf[v])
    /\ \A p \in Procs : OwnOK(h[p])

LEMMA OwnStep == OneIdEach /\ TypeInv /\ IdleInv /\ OwnInv /\ [SplitNext]_vars => OwnInv'
<1> SUFFICES ASSUME OneIdEach, TypeInv, IdleInv, OwnInv, [SplitNext]_vars PROVE OwnInv'
  OBVIOUS
<1>0. h \in [Procs -> Handlers] /\ row \in [Visits -> Rows]
  BY DEF TypeInv, TypeOK
<1>1. ASSUME NEW p \in Procs, NEW x, h' = [h EXCEPT ![p] = x], OwnOK(x),
             \A v \in Visits : RefOK(row'[v].ref, VisitorOf[v])
      PROVE  OwnInv'
  <2>1. ASSUME NEW q \in Procs PROVE OwnOK(h'[q])
    BY <1>0, <1>1 DEF OwnInv
  <2>2. (\A q \in Procs : OwnOK(h[q]))'
    BY <2>1
  <2>3. (\A v \in Visits : RefOK(row[v].ref, VisitorOf[v]))'
    BY <1>1
  <2>. QED  BY <2>2, <2>3 DEF OwnInv
<1>2. OwnOK(Idle)
  BY DEF Idle, OwnOK, Editing
<1>3. ASSUME row' = row PROVE \A v \in Visits : RefOK(row'[v].ref, VisitorOf[v])
  BY <1>3 DEF OwnInv
<1>4. ASSUME NEW p \in Procs, NEW x, MovesAside(p, x) PROVE OwnInv'
  BY <1>1, <1>3, <1>4 DEF MovesAside, OwnOK
<1>5. ASSUME NEW p \in Procs, NEW v \in Visits, NEW x, Starts(p, v, x) PROVE OwnInv'
  <2>1. OwnOK(x)
    BY <1>5 DEF Starts, OwnOK, OwnInv
  <2>2. row' = row
    BY <1>5 DEF Starts, Enter, db
  <2>. QED  BY <1>1, <1>3, <1>5, <2>1, <2>2 DEF Starts
<1>6. ASSUME NEW p \in Procs, NEW y, GoesOn(p, y) PROVE OwnInv'
  <2>1. PICK x \in Handlers : x = h[p] /\ x.pc \in Editing /\ x.visit \in Visits /\ OwnOK(x)
    BY <1>6 DEF GoesOn, TypeInv, TypeOK, HandlerOK, OwnInv
  <2>2. PICK u \in Visitors : u = VisitorOf[x.visit]
    BY <2>1, ConstantsAssumption
  <2>3. \A c \in Conns : RefOK(UserIdOn[c, u], u)
    BY DEF OneIdEach, RefOK
  <2>4. RefOK(x.copy.ref, u) /\ (x.pc = "sync" => \A r \in UsersOf(x) : RefOK(r, u))
    BY <2>1, <2>2, <2>3 DEF OwnOK, UsersOf
  <2>5. RefOK(NoUser, u)
    BY DEF RefOK
  <2>6. OwnOK(y)
    BY <1>6, <2>1, <2>2, <2>4, <2>5 DEF GoesOn, Keeps, OwnOK
  <2>7. \A v \in Visits : RefOK(row'[v].ref, VisitorOf[v])
    <3>1. CASE Save(p)
      <4>1. PICK base : row' = [row EXCEPT ![x.visit] = Merge(x.copy, base, row[x.visit])]
        BY <2>1, <3>1 DEF Save
      <4>2. row'[x.visit].ref \in {x.copy.ref, row[x.visit].ref}
        BY <1>0, <2>1, <4>1 DEF Merge, Pick
      <4>3. RefOK(row'[x.visit].ref, u)
        BY <2>1, <2>2, <2>4, <4>2 DEF OwnInv
      <4>4. \A v \in Visits \ {x.visit} : row'[v] = row[v]
        BY <1>0, <4>1
      <4>. QED  BY <2>2, <4>3, <4>4 DEF OwnInv
    <3>. QED  BY <1>3, <1>6, <3>1 DEF GoesOn
  <2>. QED  BY <1>1, <1>6, <2>6, <2>7 DEF GoesOn
<1>7. ASSUME NEW p \in Procs, InsertVisit(p) PROVE OwnInv'
  <2>1. /\ h[p].visit \in Visits /\ h' = [h EXCEPT ![p] = Idle]
        /\ row' = [row EXCEPT ![h[p].visit] = [NoRow EXCEPT !.status = "SCHEDULED"]]
    BY <1>7 DEF InsertVisit, TypeInv, HandlerOK
  <2>2. row'[h[p].visit].ref = NoUser /\ \A v \in Visits \ {h[p].visit} : row'[v] = row[v]
    BY <1>0, <2>1 DEF NoRow
  <2>3. \A v \in Visits : RefOK(row'[v].ref, VisitorOf[v])
    BY <2>2 DEF OwnInv, RefOK
  <2>. QED  BY <1>1, <1>2, <2>1, <2>3
<1>8. CASE row' = row /\ \A p \in Procs : h'[p] \in {h[p], Idle}
  <2>1. \A p \in Procs : OwnOK(h'[p])
    BY <1>2, <1>8 DEF OwnInv
  <2>2. (\A p \in Procs : OwnOK(h[p]))'
    BY <2>1
  <2>3. (\A v \in Visits : RefOK(row[v].ref, VisitorOf[v]))'
    BY <1>3, <1>8
  <2>. QED  BY <2>2, <2>3 DEF OwnInv
<1>9. Environment \/ UNCHANGED vars => row' = row /\ \A p \in Procs : h'[p] \in {h[p], Idle}
  BY DEF Environment, Tick, Crash, SwitchConnection, DeleteOrphanedBioStarUser, vars, db
<1>. QED  BY <1>4, <1>5, <1>6, <1>7, <1>8, <1>9, StepKind

\* A save of a visitor nothing has disturbed takes the entity as it is.
LEMMA SaveIsCopy ==
    ASSUME TypeInv, AccountInv, NEW p \in Procs, Save(p), Undisturbed(VisitorOf[h[p].visit])
    PROVE  row' = [row EXCEPT ![h[p].visit] = h[p].copy]
<1>1. PICK x \in Handlers : /\ x = h[p] /\ x.pc = "save" /\ x.pc \in Editing /\ x.visit \in Visits
                            /\ x.copy \in Rows
  BY DEF Save, TypeInv, TypeOK, HandlerOK, Handlers, Editing
<1>2. PICK u \in Visitors : u = VisitorOf[x.visit]
  BY <1>1, ConstantsAssumption
<1>3. WorkOK(x, u, row, biostar)
  BY <1>1, <1>2 DEF AccountInv, Account, Works
<1>4. (IF x.seen = NoRow THEN row[x.visit] ELSE x.seen) = row[x.visit]
  BY <1>1, <1>3 DEF WorkOK
<1>5. row' = [row EXCEPT ![x.visit] = Merge(x.copy, row[x.visit], row[x.visit])]
  BY <1>1, <1>4 DEF Save
<1>6. row[x.visit] \in Rows
  BY <1>1 DEF TypeInv, TypeOK
<1>. QED  BY <1>1, <1>5, <1>6, MergeIsCopy

\* What the admission of visit w leaves behind says when it was.
TrailOK(w) ==
    /\ Traced(row[w])
    /\ links[w] > 0 => row[w].in
    /\ \A p \in Procs : Leaves(h[p], w) => row[w].in
    /\ \A p \in Procs : h[p].pc \in Editing /\ h[p].visit = w => Traced(h[p].copy)
TrailInv == \A w \in Visits : Undisturbed(VisitorOf[w]) => TrailOK(w)

LEMMA TrailKept ==
    ASSUME NEW w \in Visits, TrailOK(w), NEW p \in Procs, NEW x, h \in [Procs -> Handlers],
           h' = [h EXCEPT ![p] = x],
           row[w].in => row'[w].in, Traced(row'[w]),
           links'[w] > 0 => row'[w].in,
           Leaves(x, w) => row'[w].in,
           x.pc \in Editing /\ x.visit = w => Traced(x.copy)
    PROVE  TrailOK(w)'
<1>1. h'[p] = x /\ \A q \in Procs \ {p} : h'[q] = h[q]
  OBVIOUS
<1>2. \A q \in Procs : Leaves(h'[q], w) => row'[w].in
  BY <1>1 DEF TrailOK
<1>3. \A q \in Procs : h'[q].pc \in Editing /\ h'[q].visit = w => Traced(h'[q].copy)
  BY <1>1 DEF TrailOK
<1>4. Traced(row[w])'
  BY DEF Traced
<1>5. (\A q \in Procs : Leaves(h[q], w) => row[w].in)'
  BY <1>2
<1>6. (\A q \in Procs : h[q].pc \in Editing /\ h[q].visit = w => Traced(h[q].copy))'
  BY <1>3
<1>. QED  BY <1>4, <1>5, <1>6 DEF TrailOK

LEMMA TrailStep ==
    ASSUME TypeInv, TypeInv', BegunInv, FollowInv, AccountInv, AbsentIsNew, IdleInv, TrailInv,
           [SplitNext]_vars
    PROVE  TrailInv'
<1>0. h \in [Procs -> Handlers] /\ row \in [Visits -> Rows] /\ links \in [Visits -> 0..MaxLinks]
  BY DEF TypeInv, TypeOK
<1>1. ASSUME NEW p \in Procs, NEW x, MovesAside(p, x), NEW w \in Visits, Undisturbed(VisitorOf[w])'
      PROVE  TrailOK(w)'
  <2>1. TrailOK(w)
    BY <1>1 DEF TrailInv, MovesAside, Undisturbed, ghosts
  <2>2. row[w].status = "CHECKED_IN" => row[w].in
    BY <2>1 DEF TrailOK, Traced, Came
  <2>3. Leaves(x, w) => row[w].in
    BY <1>1, <2>1, <2>2 DEF MovesAside, TrailOK
  <2>4. links'[w] > 0 => row[w].in
    BY <1>1, <2>1 DEF MovesAside, TrailOK
  <2>5. row' = row /\ h' = [h EXCEPT ![p] = x] /\ x.pc \notin Editing
    BY <1>1 DEF MovesAside
  <2>6. Traced(row[w])
    BY <2>1 DEF TrailOK
  <2>. QED  BY <1>0, <2>1, <2>3, <2>4, <2>5, <2>6, TrailKept
<1>2. ASSUME NEW p \in Procs, NEW v \in Visits, NEW x, Starts(p, v, x),
             NEW w \in Visits, Undisturbed(VisitorOf[w])'
      PROVE  TrailOK(w)'
  <2>1. row' = row /\ links' = links /\ h' = [h EXCEPT ![p] = x] /\ x.visit = v
    BY <1>2 DEF Starts, Enter, db
  <2>2. TrailOK(w)
    <3>1. overlapped \subseteq overlapped' /\ faulted' = faulted
      BY <1>2 DEF Starts, Enter
    <3>. QED  BY <1>2, <3>1 DEF TrailInv, Undisturbed
  <2>3. (Leaves(h[p], w) \/ Leaves(x, w) => row[w].in) /\ (links[w] > 0 => row[w].in) /\ Traced(row[w])
    BY <1>2, <2>2 DEF Starts, TrailOK
  <2>4. v = w => Traced(x.copy)
    BY <1>2, <2>3 DEF Starts, Traced
  <2>. QED  BY <1>0, <2>1, <2>2, <2>3, <2>4, TrailKept
<1>3. ASSUME NEW p \in Procs, NEW y, GoesOn(p, y), NEW w \in Visits, Undisturbed(VisitorOf[w])'
      PROVE  TrailOK(w)'
  <2>1. PICK x \in Handlers : x = h[p] /\ x.pc \in Editing /\ x.visit \in Visits
    BY <1>3 DEF GoesOn, TypeInv, TypeOK, HandlerOK
  <2>2. Undisturbed(VisitorOf[w]) /\ TrailOK(w)
    BY <1>3 DEF GoesOn, TrailInv, Undisturbed
  <2>3. /\ h' = [h EXCEPT ![p] = y] /\ links' = links
        /\ Leaves(y, w) => Leaves(h[p], w)
        /\ y.pc \in Editing => Keeps(x, y)
        /\ row' = row \/ Save(p)
    BY <1>3, <2>1 DEF GoesOn
  <2>4. /\ Leaves(h[p], w) => row[w].in
        /\ links[w] > 0 => row[w].in
        /\ Traced(row[w])
        /\ x.visit = w => Traced(x.copy)
    BY <2>1, <2>2 DEF TrailOK
  <2>5. (row[w].in => row'[w].in) /\ Traced(row'[w])
    <3>1. CASE Save(p) /\ x.visit = w
      <4>1. row' = [row EXCEPT ![w] = x.copy]
        BY <2>1, <2>2, <3>1, SaveIsCopy
      <4>2. row[w].in => x.copy.in
        BY <2>1, <2>2, <3>1 DEF FollowInv, Follows, Undisturbed
      <4>. QED  BY <1>0, <2>4, <3>1, <4>1, <4>2
    <3>2. CASE Save(p) /\ x.visit # w
      <4>1. row'[w] = row[w]
        BY <1>0, <2>1, <3>2 DEF Save
      <4>. QED  BY <2>4, <4>1
    <3>. QED  BY <2>3, <2>4, <3>1, <3>2
  <2>6. y.pc \in Editing /\ y.visit = w => Traced(y.copy)
    <3>1. SUFFICES ASSUME y.pc \in Editing, y.visit = w PROVE Traced(y.copy)
      OBVIOUS
    <3>2. Keeps(x, y) /\ x.visit = w /\ Traced(x.copy)
      BY <2>3, <2>4, <3>1 DEF Keeps
    <3>3. x.pc = "sync" => x.copy.status = "CHECKED_IN"
      <4>1. PICK u \in Visitors : u = VisitorOf[w]
        BY ConstantsAssumption
      <4>2. WorkOK(x, u, row, biostar)
        BY <2>1, <2>2, <3>2, <4>1 DEF AccountInv, Account, Works
      <4>. QED  BY <4>2 DEF WorkOK
    <3>. QED  BY <3>2, <3>3 DEF Keeps, Traced, Came
  <2>. QED  BY <1>0, <2>2, <2>3, <2>4, <2>5, <2>6, TrailKept
<1>4. ASSUME NEW p \in Procs, InsertVisit(p), NEW w \in Visits, Undisturbed(VisitorOf[w])'
      PROVE  TrailOK(w)'
  <2>1. PICK v \in Visits : v = h[p].visit /\ row[v].status = "ABSENT" /\ ~row[v].in
    BY <1>4 DEF InsertVisit, TypeInv, HandlerOK, BegunInv, Known, AbsentIsNew
  <2>2. /\ h' = [h EXCEPT ![p] = Idle] /\ links' = links
        /\ row' = [row EXCEPT ![v] = [NoRow EXCEPT !.status = "SCHEDULED"]]
    BY <1>4, <2>1 DEF InsertVisit
  <2>3. TrailOK(w)
    BY <1>4 DEF InsertVisit, TrailInv, Undisturbed, ghosts
  <2>4. (row[w].in => row'[w].in) /\ Traced(row'[w])
    <3>1. CASE w = v
      <4>1. row'[w].status = "SCHEDULED" /\ row'[w].ref = NoUser
        BY <1>0, <2>2, <3>1 DEF NoRow
      <4>. QED  BY <2>1, <3>1, <4>1 DEF Traced, Came
    <3>2. CASE w # v
      <4>1. row'[w] = row[w]
        BY <1>0, <2>2, <3>2
      <4>. QED  BY <2>3, <4>1 DEF TrailOK
    <3>. QED  BY <3>1, <3>2
  <2>5. links[w] > 0 => row[w].in
    BY <2>3 DEF TrailOK
  <2>6. ~Leaves(Idle, w) /\ Idle.pc \notin Editing
    BY DEF Leaves, Idle, Editing
  <2>. QED  BY <1>0, <2>2, <2>3, <2>4, <2>5, <2>6, TrailKept
<1>5. ASSUME Environment \/ UNCHANGED vars, NEW w \in Visits, Undisturbed(VisitorOf[w])'
      PROVE  TrailOK(w)'
  <2>1. /\ row' = row /\ links' = links /\ \A p \in Procs : h'[p] \in {h[p], Idle}
    BY <1>5 DEF Environment, Tick, Crash, SwitchConnection, DeleteOrphanedBioStarUser, vars, db
  <2>2. TrailOK(w)
    <3>1. overlapped \subseteq overlapped' /\ faulted \subseteq faulted'
      BY <1>5 DEF Environment, Tick, Crash, SwitchConnection, DeleteOrphanedBioStarUser, vars, ghosts,
                  TypeInv, TypeOK
    <3>. QED  BY <1>5, <3>1 DEF TrailInv, Undisturbed
  <2>3. ~Leaves(Idle, w) /\ Idle.pc \notin Editing
    BY DEF Leaves, Idle, Editing
  <2>4. \A p \in Procs : Leaves(h'[p], w) => row[w].in
    BY <2>1, <2>2, <2>3 DEF TrailOK
  <2>5. \A p \in Procs : h'[p].pc \in Editing /\ h'[p].visit = w => Traced(h'[p].copy)
    BY <2>1, <2>2, <2>3 DEF TrailOK
  <2>6. (\A p \in Procs : Leaves(h[p], w) => row[w].in)'
    BY <2>1, <2>4
  <2>7. (\A p \in Procs : h[p].pc \in Editing /\ h[p].visit = w => Traced(h[p].copy))'
    BY <2>5
  <2>8. Traced(row[w])'
    BY <2>1, <2>2 DEF TrailOK
  <2>9. (links[w] > 0 => row[w].in)'
    BY <2>1, <2>2 DEF TrailOK
  <2>. QED  BY <2>6, <2>7, <2>8, <2>9 DEF TrailOK
<1>6. ASSUME NEW w \in Visits, Undisturbed(VisitorOf[w])' PROVE TrailOK(w)'
  BY <1>1, <1>2, <1>3, <1>4, <1>5, <1>6, StepKind
<1>. QED  BY <1>6 DEF TrailInv

\* A row that is SYNCED is that of a checked-in visit with a user.
SyncedInside(r) == r.sync = "SYNCED" => r.status = "CHECKED_IN" /\ r.ref # NoUser

\* AccessGranted of visitor u, for given rows and servers.
Granted(table, bio, u) ==
    \A v \in VisitsOf(u) :
        /\ table[v].status = "CHECKED_IN" /\ table[v].sync = "SYNCED"
        /\ \A w \in VisitsOf(u) \ {v} : ~table[w].in
        => \E c \in Conns : On(bio, c, u)
Settled(table, bio, u) ==
    (\A w \in VisitsOf(u) : SyncedInside(table[w])) /\ Granted(table, bio, u)

\* While a handler works on a visitor the rows of his other visits are as they
\* should be, and with the entity that is to be saved for good everything is;
\* in the loop of a sync, an id that the handler keeps is on some server.
GrantOK(x, u, table, bio) ==
    /\ \A w \in VisitsOf(u) \ {x.visit} : SyncedInside(table[w])
    /\ x.pc = "save" /\ x.then = "done" => Settled([table EXCEPT ![x.visit] = x.copy], bio, u)
    /\ x.pc = "sync" /\ x.last # NoUser => \E c \in Conns : On(bio, c, u)

Grant(u) ==
    /\ \A p \in Procs : Works(h[p], u) => GrantOK(h[p], u, row, biostar)
    /\ (\A p \in Procs : ~Works(h[p], u)) => Settled(row, biostar, u)

GrantInv == \A u \in Visitors : Undisturbed(u) => Grant(u)

\* Rows without a claim of their own, and more users, keep what is settled.
LEMMA SettledKept ==
    ASSUME NEW u, NEW table, NEW later, NEW bio, NEW bio2, Settled(table, bio, u),
           \A w \in VisitsOf(u) :
               \/ later[w] = table[w]
               \/ /\ later[w].sync # "SYNCED"
                  /\ later[w].in \/ ~table[w].in,
           \A c \in Conns : On(bio, c, u) => On(bio2, c, u)
    PROVE  Settled(later, bio2, u)
<1>1. \A w \in VisitsOf(u) : SyncedInside(later[w])
  BY DEF Settled, SyncedInside
<1>2. ASSUME NEW v \in VisitsOf(u), later[v].status = "CHECKED_IN", later[v].sync = "SYNCED",
             \A w \in VisitsOf(u) \ {v} : ~later[w].in
      PROVE  \E c \in Conns : On(bio2, c, u)
  <2>1. later[v] = table[v]
    BY <1>2
  <2>2. \A w \in VisitsOf(u) \ {v} : ~table[w].in
    BY <1>2
  <2>3. \E c \in Conns : On(bio, c, u)
    BY <1>2, <2>1, <2>2 DEF Settled, Granted
  <2>. QED  BY <2>3
<1>. QED  BY <1>1, <1>2 DEF Settled, Granted

\* A visitor none of whose handlers takes the step.
LEMMA OthersGrant ==
    ASSUME TypeInv, TypeInv', NEW u \in Visitors, Grant(u),
           \A w \in VisitsOf(u) :
               \/ row'[w] = row[w]
               \/ /\ ~row[w].in /\ row'[w].sync # "SYNCED"
                  /\ \A p \in Procs : Works(h[p], u) => h[p].visit # w,
           \A c \in Conns : On(biostar, c, u) => On(biostar', c, u),
           \A p \in Procs : h'[p] = h[p] \/ (~Works(h[p], u) /\ ~Works(h'[p], u))
    PROVE  Grant(u)'
<1>1. /\ row \in [Visits -> Rows] /\ row' \in [Visits -> Rows] /\ VisitsOf(u) \subseteq Visits
  BY DEF TypeInv, TypeOK, VisitsOf
<1>2. Settled(row, biostar, u) => Settled(row', biostar', u)
  BY SettledKept
<1>3. ASSUME NEW p \in Procs, Works(h'[p], u) PROVE GrantOK(h'[p], u, row', biostar')
  <2>1. h'[p] = h[p] /\ Works(h[p], u) /\ GrantOK(h[p], u, row, biostar)
    BY <1>3 DEF Grant
  <2>2. PICK x : x = h[p]
    OBVIOUS
  <2>3. x.visit \in VisitsOf(u) /\ row'[x.visit] = row[x.visit]
    BY <2>1, <2>2 DEF Works, VisitsOf, TypeInv, HandlerOK
  <2>4. \A w \in VisitsOf(u) \ {x.visit} : SyncedInside(row'[w])
    BY <2>1, <2>2 DEF GrantOK, SyncedInside
  <2>5. Settled([row EXCEPT ![x.visit] = x.copy], biostar, u) =>
          Settled([row' EXCEPT ![x.visit] = x.copy], biostar', u)
    <3>1. PICK t, l : t = [row EXCEPT ![x.visit] = x.copy] /\ l = [row' EXCEPT ![x.visit] = x.copy]
      OBVIOUS
    <3>2. /\ t[x.visit] = l[x.visit]
          /\ \A w \in VisitsOf(u) \ {x.visit} : t[w] = row[w] /\ l[w] = row'[w]
      BY <1>1, <2>3, <3>1
    <3>3. \A w \in VisitsOf(u) :
               \/ l[w] = t[w]
               \/ /\ l[w].sync # "SYNCED"
                  /\ l[w].in \/ ~t[w].in
      BY <3>2
    <3>4. Settled(t, biostar, u) => Settled(l, biostar', u)
      BY <3>3, SettledKept
    <3>. QED  BY <3>1, <3>4
  <2>6. GrantOK(x, u, row', biostar')
    BY <2>1, <2>2, <2>4, <2>5 DEF GrantOK
  <2>. QED  BY <2>1, <2>2, <2>6
<1>4. (\A p \in Procs : ~Works(h'[p], u)) => \A p \in Procs : ~Works(h[p], u)
  OBVIOUS
<1>5. (\A p \in Procs : ~Works(h'[p], u)) => Settled(row', biostar', u)
  BY <1>2, <1>4 DEF Grant
<1>6. (\A p \in Procs : Works(h[p], u) => GrantOK(h[p], u, row, biostar))'
  BY <1>3
<1>7. ((\A p \in Procs : ~Works(h[p], u)) => Settled(row, biostar, u))'
  BY <1>5
<1>. QED  BY <1>6, <1>7 DEF Grant

\* A visitor on whom p, and nobody else, works in the step.
LEMMA OwnGrant ==
    ASSUME NEW u \in Visitors, NEW p \in Procs,
           \A q \in Procs \ {p} : h'[q] = h[q] /\ ~Works(h[q], u),
           Works(h'[p], u) => GrantOK(h'[p], u, row', biostar'),
           ~Works(h'[p], u) => Settled(row', biostar', u)
    PROVE  Grant(u)'
<1>1. \A q \in Procs : Works(h'[q], u) => GrantOK(h'[q], u, row', biostar')
  OBVIOUS
<1>2. (\A q \in Procs : Works(h[q], u) => GrantOK(h[q], u, row, biostar))'
  BY <1>1
<1>3. ((\A q \in Procs : ~Works(h[q], u)) => Settled(row, biostar, u))'
  OBVIOUS
<1>. QED  BY <1>2, <1>3 DEF Grant

\* A handler starts to edit visit v of visitor u, alone.
LEMMA StartGrants ==
    ASSUME NEW v \in Visits, NEW x, NEW u, v \in VisitsOf(u), x.pc \in {"save", "resolve"},
           x.visit = v, row \in [Visits -> Rows], Settled(row, biostar, u),
           x.pc = "save" /\ x.then = "done" =>
             \/ x.copy = row[v]
             \/ /\ x.copy.in = row[v].in /\ x.copy.sync = row[v].sync
                /\ row[v].status # "CHECKED_IN" \/ row[v].ref = NoUser
    PROVE  GrantOK(x, u, row, biostar)
<1>1. \A w \in VisitsOf(u) : SyncedInside(row[w])
  BY DEF Settled
<1>2. ASSUME x.pc = "save", x.then = "done"
      PROVE  Settled([row EXCEPT ![v] = x.copy], biostar, u)
  <2>1. PICK l : l = [row EXCEPT ![v] = x.copy]
    OBVIOUS
  <2>2. l[v] = x.copy /\ \A w \in VisitsOf(u) \ {v} : l[w] = row[w]
    BY <2>1 DEF VisitsOf
  <2>3. l[v] = row[v] \/ (l[v].sync # "SYNCED" /\ l[v].in = row[v].in)
    BY <1>1, <1>2, <2>2 DEF SyncedInside
  <2>4. row[v].in \in BOOLEAN
    BY DEF Rows
  <2>5. \A w \in VisitsOf(u) :
            \/ l[w] = row[w]
            \/ /\ l[w].sync # "SYNCED"
               /\ l[w].in \/ ~row[w].in
    BY <2>2, <2>3, <2>4
  <2>6. Settled(l, biostar, u)
    BY <2>5, SettledKept
  <2>. QED  BY <2>1, <2>6
<1>. QED  BY <1>1, <1>2 DEF GrantOK

\* A handler of visitor u that goes on with visit v, and stays at it.
LEMMA GoingGrants ==
    ASSUME NEW x \in Handlers, NEW y, NEW v \in Visits, x.visit = v, NEW u, u = VisitorOf[v],
           row \in [Visits -> Rows], NEW later, Keeps(x, y), Serves(x, y, biostar, later),
           WorkOK(x, u, row, biostar), GrantOK(x, u, row, biostar), Traced(x.copy),
           y.pc \in Editing
    PROVE  GrantOK(y, u, row, later)
<1>0. v \in VisitsOf(u) /\ y.visit = v
  BY DEF VisitsOf, Keeps
<1>1. \A w \in VisitsOf(u) \ {v} : SyncedInside(row[w])
  BY DEF GrantOK
<1>2. x.pc # "delete" => \A c \in Conns : On(biostar, c, u) => On(later, c, u)
  BY DEF Serves, On
<1>3. x.pc = "sync" => x.copy.status = "CHECKED_IN"
  BY DEF WorkOK
<1>4. x.pc = "sync" /\ x.last # NoUser => \E c \in Conns : On(later, c, u)
  BY <1>2 DEF GrantOK
<1>5. y.pc = "sync" /\ y.last # NoUser => \E c \in Conns : On(later, c, u)
  BY <1>4 DEF Serves
<1>6. ASSUME y.pc = "save", y.then = "done"
      PROVE  Settled([row EXCEPT ![v] = y.copy], later, u)
  <2>1. PICK l : l = [row EXCEPT ![v] = y.copy]
    OBVIOUS
  <2>2. l[v] = y.copy /\ \A w \in VisitsOf(u) \ {v} : l[w] = row[w]
    BY <2>1 DEF VisitsOf
  <2>3. CASE x.pc = "save" /\ x.then = "done" /\ y.copy = x.copy
    <3>1. Settled(l, biostar, u)
      BY <2>1, <2>3 DEF GrantOK
    <3>2. Settled(l, later, u)
      BY <1>2, <2>3, <3>1, SettledKept
    <3>. QED  BY <2>1, <3>2
  <2>4. CASE x.pc # "save" /\ y.copy.sync # "SYNCED"
    <3>1. y.copy.in
      <4>1. x.copy.status = "CHECKED_IN" \/ x.copy.ref # NoUser
        BY <2>4 DEF WorkOK, Deletes
      <4>. QED  BY <4>1 DEF Traced, Came, Keeps
    <3>2. \A w \in VisitsOf(u) : SyncedInside(l[w])
      BY <1>1, <2>2, <2>4 DEF SyncedInside
    <3>3. Granted(l, later, u)
      BY <1>0, <2>2, <2>4, <3>1 DEF Granted
    <3>. QED  BY <2>1, <3>2, <3>3 DEF Settled
  <2>5. CASE /\ x.pc = "sync" /\ y.copy.sync = "SYNCED" /\ y.copy.ref # NoUser
             /\ x.last # NoUser \/ \E c \in Conns : On(later, c, u)
    <3>1. y.copy.status = "CHECKED_IN"
      BY <1>3, <2>5 DEF Keeps
    <3>2. \A w \in VisitsOf(u) : SyncedInside(l[w])
      BY <1>1, <2>2, <2>5, <3>1 DEF SyncedInside
    <3>3. Granted(l, later, u)
      BY <1>4, <2>5 DEF Granted
    <3>. QED  BY <2>1, <3>2, <3>3 DEF Settled
  <2>. QED  BY <1>6, <2>3, <2>4, <2>5 DEF Serves
<1>. QED  BY <1>0, <1>1, <1>5, <1>6 DEF GrantOK

\* Its steps take no user away from anybody else.
LEMMA OthersServed ==
    ASSUME OneIdEach, OwnInv, NEW p \in Procs, h[p].pc \in Editing, NEW w \in Visitors,
           VisitorOf[h[p].visit] \in Visitors, w # VisitorOf[h[p].visit], NEW y,
           Serves(h[p], y, biostar, biostar')
    PROVE  \A c \in Conns : On(biostar, c, w) => On(biostar', c, w)
<1>1. PICK x : x = h[p]
  OBVIOUS
<1>2. PICK u \in Visitors : u = VisitorOf[x.visit]
  BY <1>1
<1>3. RefOK(x.copy.ref, u)
  BY <1>1, <1>2 DEF OwnInv, OwnOK
<1>4. ASSUME NEW c \in Conns, On(biostar, c, w) PROVE On(biostar', c, w)
  <2>1. UserIdOn[c, w] # UserIdOn[c, u] /\ UserIdOn[c, w] \in Users
    BY <1>1, <1>2, ConstantsAssumption DEF OneIdEach
  <2>2. UserIdOn[c, w] # x.copy.ref
    BY <1>3, <2>1, ConstantsAssumption DEF RefOK
  <2>. QED  BY <1>1, <1>4, <2>2 DEF Serves, On
<1>. QED  BY <1>4

LEMMA GrantStep ==
    ASSUME OneIdEach, TypeInv, TypeInv', BegunInv, FollowInv, AccountInv, AbsentIsNew, IdleInv,
           OwnInv, TrailInv, GrantInv, [SplitNext]_vars
    PROVE  GrantInv'
<1>0. h \in [Procs -> Handlers] /\ row \in [Visits -> Rows]
  BY DEF TypeInv, TypeOK
<1>1. ASSUME NEW p \in Procs, NEW x, MovesAside(p, x), NEW u \in Visitors, Undisturbed(u)'
      PROVE  Grant(u)'
  <2>1. Grant(u)
    BY <1>1 DEF GrantInv, MovesAside, Undisturbed, ghosts
  <2>2. \A q \in Procs : h'[q] = h[q] \/ (~Works(h[q], u) /\ ~Works(h'[q], u))
    BY <1>0, <1>1 DEF MovesAside, Works
  <2>3. row' = row /\ biostar' = biostar
    BY <1>1 DEF MovesAside
  <2>. QED  BY <2>1, <2>2, <2>3, OthersGrant
<1>2. ASSUME NEW p \in Procs, NEW v \in Visits, NEW x, Starts(p, v, x),
             NEW u \in Visitors, Undisturbed(u)'
      PROVE  Grant(u)'
  <2>1. /\ row' = row /\ biostar' = biostar /\ h' = [h EXCEPT ![p] = x] /\ x.visit = v
        /\ faulted' = faulted /\ overlapped \subseteq overlapped'
        /\ (\E q \in Procs \ {p} : Works(h[q], VisitorOf[v])) => VisitorOf[v] \in overlapped'
    BY <1>2, BusyWorks DEF Starts, Enter, db
  <2>2. h'[p] = x /\ \A q \in Procs \ {p} : h'[q] = h[q]
    BY <1>0, <2>1
  <2>3. Grant(u)
    BY <1>2, <2>1 DEF GrantInv, Undisturbed
  <2>4. ~Works(h[p], u)
    BY <1>2 DEF Starts, Works
  <2>5. CASE u # VisitorOf[v]
    <3>1. \A q \in Procs : h'[q] = h[q] \/ (~Works(h[q], u) /\ ~Works(h'[q], u))
      BY <2>1, <2>2, <2>4, <2>5 DEF Works
    <3>. QED  BY <2>1, <2>3, <3>1, OthersGrant
  <2>6. CASE u = VisitorOf[v]
    <3>1. \A q \in Procs \ {p} : h'[q] = h[q] /\ ~Works(h[q], u)
      BY <1>2, <2>1, <2>2, <2>6 DEF Undisturbed
    <3>2. Settled(row, biostar, u) /\ v \in VisitsOf(u)
      BY <2>3, <2>4, <2>6, <3>1 DEF Grant, VisitsOf
    <3>3. GrantOK(x, u, row, biostar)
      BY <1>0, <1>2, <3>2, StartGrants DEF Starts
    <3>4. Works(h'[p], u)
      BY <1>2, <2>1, <2>2, <2>6 DEF Starts, Works, Editing
    <3>. QED  BY <2>1, <2>2, <3>1, <3>3, <3>4, OwnGrant
  <2>. QED  BY <2>5, <2>6
<1>3. ASSUME NEW p \in Procs, NEW y, GoesOn(p, y), NEW u \in Visitors, Undisturbed(u)'
      PROVE  Grant(u)'
  <2>1. PICK x \in Handlers : x = h[p] /\ x.pc \in Editing /\ x.visit \in Visits
    BY <1>3 DEF GoesOn, TypeInv, TypeOK, HandlerOK
  <2>2. PICK v \in Visits : v = x.visit /\ VisitorOf[v] \in Visitors
    BY <2>1, ConstantsAssumption
  <2>3. /\ h' = [h EXCEPT ![p] = y]
        /\ y.pc \in Editing => Keeps(x, y)
        /\ Serves(x, y, biostar, biostar')
        /\ \/ row' = row /\ y.pc \in Editing
           \/ Save(p) /\ (y.pc \in Editing \/ x.then = "done")
    BY <1>3, <2>1 DEF GoesOn
  <2>4. Undisturbed(u) /\ Grant(u)
    BY <1>3 DEF GoesOn, GrantInv, Undisturbed
  <2>5. h'[p] = y /\ \A q \in Procs \ {p} : h'[q] = h[q]
    BY <1>0, <2>3
  <2>6. y.pc \in Editing => y.visit = v
    BY <2>2, <2>3 DEF Keeps
  <2>7. CASE u # VisitorOf[v]
    <3>1. \A q \in Procs : h'[q] = h[q] \/ (~Works(h[q], u) /\ ~Works(h'[q], u))
      BY <2>1, <2>2, <2>5, <2>6, <2>7 DEF Works
    <3>2. \A w \in VisitsOf(u) : row'[w] = row[w]
      BY <1>0, <2>1, <2>2, <2>3, <2>7 DEF Save, VisitsOf
    <3>3. \A c \in Conns : On(biostar, c, u) => On(biostar', c, u)
      BY <2>1, <2>2, <2>3, <2>7, OthersServed
    <3>. QED  BY <2>4, <3>1, <3>2, <3>3, OthersGrant
  <2>8. CASE u = VisitorOf[v]
    <3>1. Works(h[p], u) /\ WorkOK(x, u, row, biostar) /\ GrantOK(x, u, row, biostar)
      BY <2>1, <2>2, <2>4, <2>8 DEF Works, AccountInv, Account, Grant
    <3>2. \A q \in Procs \ {p} : h'[q] = h[q] /\ ~Works(h[q], u)
      BY <2>1, <2>2, <2>4, <2>5, <2>8 DEF FollowInv, Undisturbed
    <3>3. Traced(x.copy)
      BY <2>1, <2>2, <2>4, <2>8 DEF TrailInv, TrailOK
    <3>4. y.pc \in Editing => GrantOK(y, u, row, biostar')
      BY <1>0, <2>1, <2>2, <2>3, <2>8, <3>1, <3>3, GoingGrants
    <3>5. Works(h'[p], u) <=> y.pc \in Editing
      BY <2>5, <2>6, <2>8 DEF Works
    <3>6. CASE row' = row /\ y.pc \in Editing
      BY <2>5, <3>2, <3>4, <3>5, <3>6, OwnGrant
    <3>7. CASE Save(p) /\ (y.pc \in Editing \/ x.then = "done")
      <4>1. row' = [row EXCEPT ![v] = x.copy] /\ biostar' = biostar /\ x.pc = "save"
        BY <2>1, <2>2, <2>4, <2>8, <3>7, SaveIsCopy DEF Save
      <4>2. x.then = "done" => Settled(row', biostar', u)
        BY <2>2, <3>1, <4>1 DEF GrantOK
      <4>3. ASSUME y.pc \in Editing PROVE GrantOK(y, u, row', biostar')
        <5>1. GrantOK(y, u, row, biostar') /\ y.visit = v
          BY <2>6, <3>4, <4>3
        <5>2. \A w \in VisitsOf(u) \ {v} : row'[w] = row[w]
          BY <1>0, <4>1 DEF VisitsOf
        <5>3. \A z : [row' EXCEPT ![v] = z] = [row EXCEPT ![v] = z]
          BY <1>0, <4>1
        <5>. QED  BY <5>1, <5>2, <5>3 DEF GrantOK
      <4>. QED  BY <2>5, <3>2, <3>5, <3>7, <4>2, <4>3, OwnGrant
    <3>. QED  BY <2>3, <3>6, <3>7
  <2>. QED  BY <2>7, <2>8
<1>4. ASSUME NEW p \in Procs, InsertVisit(p), NEW u \in Visitors, Undisturbed(u)'
      PROVE  Grant(u)'
  <2>1. PICK v \in Visits : v = h[p].visit /\ row[v].status = "ABSENT" /\ ~row[v].in
    BY <1>4 DEF InsertVisit, TypeInv, HandlerOK, BegunInv, Known, AbsentIsNew
  <2>2. /\ h' = [h EXCEPT ![p] = Idle] /\ biostar' = biostar /\ h[p].pc \notin Editing
        /\ row' = [row EXCEPT ![v] = [NoRow EXCEPT !.status = "SCHEDULED"]]
    BY <1>4, <2>1 DEF InsertVisit, Editing
  <2>3. Grant(u)
    BY <1>4 DEF InsertVisit, GrantInv, Undisturbed, ghosts
  <2>4. row'[v].sync # "SYNCED" /\ \A w \in Visits \ {v} : row'[w] = row[w]
    BY <1>0, <2>2 DEF NoRow
  <2>5. \A q \in Procs : Works(h[q], u) => h[q].visit # v
    BY <2>1 DEF Works, BegunInv, Known
  <2>6. \A q \in Procs : h'[q] = h[q] \/ (~Works(h[q], u) /\ ~Works(h'[q], u))
    BY <1>0, <2>2 DEF Works, Idle, Editing
  <2>7. \A w \in VisitsOf(u) : row'[w] = row[w] \/ w = v
    BY <2>4 DEF VisitsOf
  <2>. QED  BY <2>1, <2>2, <2>3, <2>4, <2>5, <2>6, <2>7, OthersGrant
<1>5. ASSUME Environment \/ UNCHANGED vars, NEW u \in Visitors, Undisturbed(u)'
      PROVE  Grant(u)'
  <2>1. /\ row' = row /\ overlapped' = overlapped /\ faulted \subseteq faulted'
    BY <1>5 DEF Environment, Tick, Crash, SwitchConnection, DeleteOrphanedBioStarUser, vars, db, ghosts,
                TypeInv, TypeOK
  <2>2. Grant(u)
    BY <1>5, <2>1 DEF GrantInv, Undisturbed
  <2>3. \A q \in Procs : h'[q] = h[q] \/ (~Works(h[q], u) /\ ~Works(h'[q], u))
    <3>1. CASE Crash
      <4>1. \A q \in Procs : ~Works(h[q], u)
        BY <1>5, <3>1, BusyWorks DEF Crash, Undisturbed
      <4>. QED  BY <3>1, <4>1 DEF Crash, Works, Idle, Editing
    <3>2. CASE h' = h
      BY <3>2
    <3>3. Crash \/ h' = h
      BY <1>5 DEF Environment, Tick, SwitchConnection, DeleteOrphanedBioStarUser, vars
    <3>. QED  BY <3>1, <3>2, <3>3
  <2>4. \A c \in Conns : On(biostar, c, u) => On(biostar', c, u)
    <3>1. ASSUME NEW c \in Conns, NEW w \in Visitors, DeleteOrphanedBioStarUser(c, w)
          PROVE  \A d \in Conns : On(biostar, d, u) => On(biostar', d, u)
      <4>1. w # u
        BY <1>5, <3>1 DEF DeleteOrphanedBioStarUser, Undisturbed
      <4>2. UserIdOn[c, u] # UserIdOn[c, w]
        BY <4>1 DEF OneIdEach
      <4>. QED  BY <3>1, <4>2 DEF DeleteOrphanedBioStarUser, On, TypeInv, TypeOK
    <3>2. biostar' = biostar \/ \E c \in Conns, w \in Visitors : DeleteOrphanedBioStarUser(c, w)
      BY <1>5 DEF Environment, Tick, Crash, SwitchConnection, vars, db
    <3>. QED  BY <3>1, <3>2
  <2>. QED  BY <2>1, <2>2, <2>3, <2>4, OthersGrant
<1>6. ASSUME NEW u \in Visitors, Undisturbed(u)' PROVE Grant(u)'
  BY <1>1, <1>2, <1>3, <1>4, <1>5, <1>6, StepKind
<1>. QED  BY <1>6 DEF GrantInv

LEMMA GrantInit == OneIdEach /\ Init => AbsentIsNew /\ IdleInv /\ OwnInv /\ TrailInv /\ GrantInv
<1> SUFFICES ASSUME Init PROVE AbsentIsNew /\ IdleInv /\ OwnInv /\ TrailInv /\ GrantInv
  OBVIOUS
<1>1. /\ \A v \in Visits : row[v] = NoRow /\ links[v] = 0
      /\ \A p \in Procs : h[p] = Idle
  BY DEF Init
<1>2. /\ ~NoRow.in /\ NoRow.ref = NoUser /\ NoRow.sync = "null" /\ NoRow.status = "ABSENT"
      /\ Idle.pc = "idle" /\ ~Idle.exit
  BY DEF NoRow, Idle
<1>3. AbsentIsNew /\ IdleInv
  BY <1>1, <1>2 DEF AbsentIsNew, IdleInv
<1>4. OwnInv
  BY <1>1, <1>2 DEF OwnInv, OwnOK, RefOK, Editing
<1>5. TrailInv
  BY <1>1, <1>2 DEF TrailInv, TrailOK, Traced, Came, Leaves, Editing
<1>6. GrantInv
  BY <1>1, <1>2 DEF GrantInv, Grant, Works, Editing, Settled, Granted, SyncedInside, VisitsOf
<1>. QED  BY <1>3, <1>4, <1>5, <1>6

\* Access is granted: a visitor whose one admitted visit is checked in and
\* SYNCED has a user on a server when nobody works on his visits, whatever was
\* checked out, synced again or reported before, as long as handlers did not
\* overlap and no call failed after it was made.
THEOREM AccessIsGranted == OneIdEach => (SplitSpec => []AccessGranted)
<1>1. GrantInv => AccessGranted
  <2> SUFFICES ASSUME GrantInv, NEW v \in Visits,
                      VisitorOf[v] \notin overlapped \cup faulted, AtRest(VisitorOf[v]),
                      row[v].status = "CHECKED_IN", row[v].sync = "SYNCED",
                      \A w \in VisitsOf(VisitorOf[v]) \ {v} : ~row[w].in
               PROVE  \E c \in Conns : UserIdOn[c, VisitorOf[v]] \in biostar[c]
    BY DEF AccessGranted
  <2>1. PICK u \in Visitors : u = VisitorOf[v] /\ v \in VisitsOf(u)
    BY ConstantsAssumption DEF VisitsOf
  <2>2. Grant(u) /\ \A p \in Procs : ~Works(h[p], u)
    BY <2>1, BusyWorks DEF GrantInv, Undisturbed, AtRest
  <2>. QED  BY <2>1, <2>2 DEF Grant, Settled, Granted, On
<1>2. OneIdEach /\ TypeInv /\ TypeInv' /\ BegunInv /\ FollowInv /\ AccountInv /\ AbsentIsNew /\ IdleInv
        /\ OwnInv /\ TrailInv /\ GrantInv /\ [SplitNext]_vars => TrailInv' /\ GrantInv'
  BY TrailStep, GrantStep
<1>3. TypeInv /\ BegunInv /\ FollowInv /\ AbsentIsNew /\ [SplitNext]_vars => AbsentIsNew'
  BY StepKeepsAdmission DEF AbsentIsNew
<1>4. OneIdEach /\ TypeInv /\ BegunInv /\ FollowInv /\ AccountInv /\ [SplitNext]_vars => AccountInv'
  BY AccountStep
<1>5. OneIdEach => OneIdEach'
  BY DEF OneIdEach
<1>. QED
  BY <1>1, <1>2, <1>3, <1>4, <1>5, IdleStep, OwnStep, GrantInit, AccountInit, TypeInit, TypeStep,
     BegunInit, BegunStep, FollowInit, FollowStep, PTL
     DEF SplitSpec
=============================================================================
