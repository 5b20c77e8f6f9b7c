------------------------- MODULE ExitDevice_proofs -------------------------
(***************************************************************************)
(* Safety of the exit device listener, for any events, visits, windows and *)
(* lifetimes: exitCheckoutScheduled is owned by one handler, the poller    *)
(* takes no event twice, and an admission gets one survey mail.            *)
(***************************************************************************)
EXTENDS ExitDevice, TLAPS

----------------------------------------------------------------------------
(* Types *)

\* TypeOK without the bound on polls, which follows from KeyOutlives below.
Types ==
    /\ visit \in [Visits -> [in : BOOLEAN, admission : Admissions]]
    /\ age \in [Events -> 0..NotYet]
    /\ seen \in [Events -> 0..SeenTTL]
    /\ h \in [Handlers -> [pc : PCs, admission : Admissions]]
    /\ scheduled \subseteq Visits
    /\ inFlight \in BOOLEAN
    /\ page \subseteq Events
    /\ current \in Events \cup {NoEvent}
    /\ owed \subseteq Events
    /\ polls \in [Events -> Nat]
    /\ surveys \in [Visits -> 0..2]
    /\ spoiled \subseteq Visits
    /\ outlived \subseteq Events

HandlerTypes == [pc : PCs, admission : Admissions]

LEMMA IdleType == Idle \in HandlerTypes
BY ExitAssumption DEF Idle, HandlerTypes, PCs, Admissions

LEMMA VisitOfEvent == \A x \in Handlers : x[2] \in Events /\ VisitOf[x[2]] \in Visits
BY ExitAssumption DEF Handlers

\* What the poller does when it goes on.
LEMMA GoOnTypes ==
    ASSUME Types, NEW e \in Events, GoOn(e)
    PROVE  inFlight' \in BOOLEAN /\ page' \subseteq page /\ current' = NoEvent
BY DEF GoOn, EndPoll, Types

LEMMA ReturnTypes ==
    ASSUME Types, NEW x \in Handlers, Return(x)
    PROVE  /\ inFlight' \in BOOLEAN /\ page' \subseteq page
           /\ current' \in Events \cup {NoEvent}
           /\ \A d \in page' : d = current => d = current'
<1>1. x[2] \in Events
  BY VisitOfEvent
<1>2. CASE GoOn(x[2]) /\ current = x[2]
  <2>1. x[2] \notin page'
    BY <1>2 DEF GoOn, EndPoll
  <2>. QED  BY <1>1, <1>2, <2>1, GoOnTypes
<1>3. CASE UNCHANGED poller
  BY <1>3 DEF poller, Types
<1>. QED  BY <1>2, <1>3 DEF Return

LEMMA TypeInit == Init => Types
<1> SUFFICES ASSUME Init PROVE Types
  OBVIOUS
<1>1. 0 \in Admissions /\ 0 \in 0..SeenTTL /\ NotYet \in 0..NotYet
  BY ExitAssumption DEF Admissions, NotYet
<1>2. visit \in [Visits -> [in : BOOLEAN, admission : Admissions]]
  BY <1>1 DEF Init
<1>3. h \in [Handlers -> [pc : PCs, admission : Admissions]]
  BY IdleType DEF Init, HandlerTypes
<1>4. /\ age \in [Events -> 0..NotYet] /\ seen \in [Events -> 0..SeenTTL]
      /\ polls \in [Events -> Nat] /\ surveys \in [Visits -> 0..2]
  BY <1>1 DEF Init
<1>5. inFlight \in BOOLEAN /\ current \in Events \cup {NoEvent}
  BY <1>1 DEF Init
<1>6. scheduled \subseteq Visits /\ page \subseteq Events /\ owed \subseteq Events /\ spoiled \subseteq Visits
      /\ outlived \subseteq Events
  BY DEF Init
<1>. QED  BY <1>2, <1>3, <1>4, <1>5, <1>6 DEF Types

LEMMA EnvironmentTypes == Types /\ Environment => Types'
<1> SUFFICES ASSUME Types, Environment PROVE Types'
  OBVIOUS
<1>0. /\ Window \in Nat /\ SeenTTL \in Nat /\ MaxAdmissions \in Nat
      /\ VisitOf \in [Events -> Visits]
  BY ExitAssumption
<1>1. CASE Tick
  <2>1. outlived' \subseteq Events
    BY <1>1 DEF Tick, Types
  <2>2. age' \in [Events -> 0..NotYet]
    BY <1>0, <1>1 DEF Tick, Types, NotYet
  <2>3. seen' \in [Events -> 0..SeenTTL]
    BY <1>0, <1>1 DEF Tick, Types
  <2>4. spoiled' \subseteq Visits
    BY <1>0, <1>1 DEF Tick, Types
  <2>. QED  BY <1>1, <2>1, <2>2, <2>3, <2>4 DEF Tick, Types, NotYet, poller
<1>2. CASE Crash
  <2>1. h' \in [Handlers -> HandlerTypes]
    BY <1>2, IdleType DEF Crash
  <2>2. spoiled' \subseteq Visits
    BY <1>2, VisitOfEvent DEF Crash, Types
  <2>. QED  BY <1>2, <2>1, <2>2 DEF Crash, EndPoll, Types, server, HandlerTypes, NotYet
<1>3. ASSUME NEW v \in Visits, Admit(v) PROVE Types'
  <2>1. visit' \in [Visits -> [in : BOOLEAN, admission : Admissions]]
    BY <1>0, <1>3 DEF Admit, Types, Admissions
  <2>2. surveys' \in [Visits -> 0..2] /\ spoiled' \subseteq Visits
    BY <1>3 DEF Admit, Types
  <2>. QED  BY <1>3, <2>1, <2>2 DEF Admit, Types, poller
<1>4. ASSUME NEW v \in Visits, CheckoutVisit(v) PROVE Types'
  BY <1>4 DEF CheckoutVisit, CheckedOut, Types, poller, ghosts, NotYet, Admissions
<1>5. ASSUME NEW e \in Events, ExitEvent(e) PROVE Types'
  <2>1. age' \in [Events -> 0..NotYet]
    BY <1>0, <1>5 DEF ExitEvent, Types, NotYet
  <2>2. h' \in [Handlers -> [pc : PCs, admission : Admissions]]
    <3>1. "find" \in PCs
      BY DEF PCs
    <3>2. h' = h \/ h' = [h EXCEPT ![<<"ws", e>>].pc = "find"]
      BY <1>5 DEF ExitEvent
    <3>. QED  BY <3>1, <3>2 DEF Types
  <2>. QED  BY <1>5, <2>1, <2>2 DEF ExitEvent, Types, poller, ghosts, NotYet
<1>. QED  BY <1>1, <1>2, <1>3, <1>4, <1>5 DEF Environment

LEMMA PollTypes == Types /\ Poll => Types'
<1> SUFFICES ASSUME Types, Poll PROVE Types'
  OBVIOUS
<1>0. SeenTTL \in Nat /\ VisitOf \in [Events -> Visits]
  BY ExitAssumption
<1>1. ASSUME NEW rows \in SUBSET Recent, ReadRows(rows) PROVE Types'
  <2>1. rows \subseteq Events
    BY DEF Recent
  <2>. QED  BY <1>0, <1>1, <2>1 DEF ReadRows, Types, server, ghosts, NotYet
<1>2. ASSUME NEW e \in Events, TakeEvent(e) PROVE Types'
  <2>1. seen' \in [Events -> 0..SeenTTL] /\ polls' \in [Events -> Nat]
    BY <1>0, <1>2 DEF TakeEvent, Takes, Types
  <2>2. h' \in [Handlers -> [pc : PCs, admission : Admissions]]
    <3>1. "find" \in PCs
      BY DEF PCs
    <3>2. PICK k : h' = [h EXCEPT ![k].pc = "find"]
      BY <1>2 DEF TakeEvent, Takes
    <3>. QED  BY <3>1, <3>2 DEF Types
  <2>. QED  BY <1>2, <2>1, <2>2 DEF TakeEvent, Takes, Types, server, NotYet
<1>3. ASSUME NEW e \in Events, SkipEvent(e) PROVE Types'
  <2>1. inFlight' \in BOOLEAN /\ page' \subseteq page /\ current' = NoEvent
    BY <1>3, GoOnTypes DEF SkipEvent
  <2>. QED  BY <1>3, <2>1 DEF SkipEvent, Types, server, ghosts, NotYet
<1>4. ASSUME NEW e \in Events, SeenFails(e) PROVE Types'
  <2>1. inFlight' \in BOOLEAN /\ page' \subseteq page /\ current' = NoEvent
    BY <1>4, GoOnTypes DEF SeenFails
  <2>2. seen' \in [Events -> 0..SeenTTL]
    BY <1>0, <1>4 DEF SeenFails, Types
  <2>3. spoiled' \subseteq Visits
    BY <1>0, <1>4 DEF SeenFails, Types
  <2>. QED  BY <1>4, <2>1, <2>2, <2>3 DEF SeenFails, Types, server, NotYet
<1>5. Recent \in SUBSET Recent
  OBVIOUS
<1>. QED  BY <1>1, <1>2, <1>3, <1>4, <1>5 DEF Poll, PollNext, ReadAll, ReadSome

LEMMA AdvanceTypes == ASSUME Types, NEW x \in Handlers, Advance(x) PROVE Types'
<1>0. VisitOf[x[2]] \in Visits /\ x[2] \in Events
  BY VisitOfEvent
<1>1. /\ inFlight' \in BOOLEAN /\ page' \subseteq page
      /\ current' \in Events \cup {NoEvent}
  <2>1. Return(x) \/ UNCHANGED poller
    BY DEF Advance, FindVisit, Recheck, Checkout, SendSurvey, Fail, Schedule, Finish, Stop
  <2>. QED  BY <2>1, ReturnTypes DEF poller, Types
<1>2. h' \in [Handlers -> [pc : PCs, admission : Admissions]]
  <2>1. visit[VisitOf[x[2]]].admission \in Admissions
    BY <1>0 DEF Types
  <2>2. CASE h' = [h EXCEPT ![x] = Idle]
    BY <2>2, IdleType DEF Types, HandlerTypes
  <2>3. CASE \E pc \in PCs : h' = [h EXCEPT ![x].pc = pc]
    BY <2>3 DEF Types
  <2>4. CASE h' = [h EXCEPT ![x] = [pc |-> "mail", admission |-> visit[VisitOf[x[2]]].admission]]
    BY <2>1, <2>4 DEF Types, PCs
  <2>5. "recheck" \in PCs /\ "checkout" \in PCs
    BY DEF PCs
  <2>6. CASE Checkout(x)
    BY <2>4, <2>6 DEF Checkout
  <2>7. CASE FindVisit(x) \/ Recheck(x) \/ SendSurvey(x) \/ Fail(x)
    BY <2>2, <2>3, <2>5, <2>7 DEF FindVisit, Recheck, SendSurvey, Fail, Schedule, Finish, Stop, GoTo
  <2>. QED  BY <2>6, <2>7 DEF Advance
<1>3. scheduled' \subseteq Visits
  BY <1>0 DEF Advance, FindVisit, Recheck, Checkout, SendSurvey, Fail, Schedule, Finish, Types
<1>4. visit' \in [Visits -> [in : BOOLEAN, admission : Admissions]] /\ owed' \subseteq Events
  <2>1. CASE Checkout(x)
    BY <1>0, <2>1 DEF Checkout, CheckedOut, Types
  <2>2. CASE ~Checkout(x)
    BY <2>2 DEF Advance, FindVisit, Recheck, SendSurvey, Fail, server, Types
  <2>. QED  BY <2>1, <2>2
<1>5. surveys' \in [Visits -> 0..2] /\ spoiled' \subseteq Visits
  <2>1. CASE SendSurvey(x)
    BY <1>0, <2>1 DEF SendSurvey, Types
  <2>2. CASE ~SendSurvey(x)
    BY <1>0, <2>2 DEF Advance, FindVisit, Recheck, Checkout, Fail, ghosts, Types
  <2>. QED  BY <2>1, <2>2
<1>6. UNCHANGED <<age, seen, polls, outlived>>
  BY DEF Advance, FindVisit, Recheck, Checkout, SendSurvey, Fail, server, ghosts
<1>. QED  BY <1>1, <1>2, <1>3, <1>4, <1>5, <1>6 DEF Types, NotYet

LEMMA TypeStep == Types /\ [Next]_vars => Types'
<1>1. Types /\ UNCHANGED vars => Types'
  BY DEF vars, server, poller, ghosts, Types, NotYet
<1>. QED  BY <1>1, EnvironmentTypes, PollTypes, AdvanceTypes DEF Next

----------------------------------------------------------------------------
(* The poller takes no event twice *)

\* An event the poller has taken keeps its key while the search finds it (a key
\* made at age a lives until age a + SeenTTL), and while a round has its row
\* still to look at, unless the round outlives the key.  One taken again is too
\* old to be found, and its row has been looked at.
KeyOutlives ==
    \A e \in Events :
        /\ e \in page \/ polls[e] >= 1 => age[e] # NotYet
        /\ polls[e] >= 1 =>
             /\ age[e] <= Window => seen[e] + age[e] >= SeenTTL
             /\ e \in page /\ e # current => seen[e] > 0 \/ e \in outlived
        /\ polls[e] >= 2 =>
             /\ e \in outlived /\ age[e] > Window
             /\ e \in page => e = current
        /\ polls[e] <= 2

\* A handler runs only for an event that has reached it.
HandlersAwaitEvents ==
    \A e \in Events : /\ age[e] = NotYet => h[<<"ws", e>>].pc = "idle"
                      /\ polls[e] = 0 => h[<<"poll", e>>].pc = "idle"
                      /\ polls[e] # 2 => h[<<"again", e>>].pc = "idle"

PollInv == Types /\ KeyOutlives /\ HandlersAwaitEvents

\* The poller takes an event that is new, or one whose key a round has outlived.
LEMMA TakesOnce ==
    ASSUME Types, KeyOutlives, NEW e \in Events, TakeEvent(e)
    PROVE  polls[e] = 0 \/ (polls[e] = 1 /\ e \in outlived /\ age[e] > Window)
<1>1. e # current /\ e \in page /\ seen[e] = 0
  BY ExitAssumption DEF TakeEvent, AtRow
<1>2. polls[e] \in Nat /\ age[e] \in Nat /\ Window < SeenTTL /\ Window \in Nat /\ SeenTTL \in Nat
  BY ExitAssumption DEF Types, NotYet
<1>3. polls[e] <= 1
  BY <1>1, <1>2 DEF KeyOutlives
<1>4. polls[e] >= 1 => e \in outlived /\ age[e] > Window
  BY <1>1, <1>2 DEF KeyOutlives
<1>. QED  BY <1>2, <1>3, <1>4

LEMMA AdvanceFrame ==
    ASSUME Types, NEW x \in Handlers, Advance(x)
    PROVE  /\ UNCHANGED <<age, seen, polls, outlived>> /\ page' \subseteq page
           /\ \A d \in page' : d = current => d = current'
           /\ h[x].pc # "idle" /\ \A y \in Handlers \ {x} : h'[y] = h[y]
<1>1. UNCHANGED <<age, seen, polls, outlived>> /\ h[x].pc # "idle"
  BY DEF Advance, FindVisit, Recheck, Checkout, SendSurvey, Fail, server, ghosts
<1>2. Return(x) \/ UNCHANGED poller
  BY DEF Advance, FindVisit, Recheck, Checkout, SendSurvey, Fail, Schedule, Finish, Stop
<1>3. page' \subseteq page /\ \A d \in page' : d = current => d = current'
  BY <1>2, ReturnTypes DEF poller
<1>4. \E r : h' = [h EXCEPT ![x] = r] \/ h' = [h EXCEPT ![x].pc = r]
  BY DEF Advance, FindVisit, Recheck, Checkout, SendSurvey, Fail, Schedule, Finish, Stop, GoTo
<1>. QED  BY <1>1, <1>3, <1>4 DEF Types

LEMMA OthersStay ==
    ASSUME Types, NEW k, h' = [h EXCEPT ![k].pc = "find"]
    PROVE  \A y \in Handlers : y # k => h'[y] = h[y]
BY DEF Types

LEMMA PollFrame ==
    ASSUME Types, NEW e \in Events, SkipEvent(e) \/ SeenFails(e)
    PROVE  /\ UNCHANGED <<age, polls, h, outlived>> /\ page' \subseteq page
           /\ current = NoEvent /\ current' = NoEvent
           /\ \A d \in Events : seen'[d] >= seen[d]
<1>1. /\ UNCHANGED <<age, polls, h, outlived>> /\ page' \subseteq page
      /\ current = NoEvent /\ current' = NoEvent
  BY GoOnTypes DEF SkipEvent, SeenFails, AtRow, server, ghosts
<1>2. \A d \in Events : seen'[d] >= seen[d]
  BY ExitAssumption DEF SkipEvent, SeenFails, Types
<1>. QED  BY <1>1, <1>2

LEMMA PollInit == Init => PollInv
<1> SUFFICES ASSUME Init PROVE KeyOutlives /\ HandlersAwaitEvents
  BY TypeInit DEF PollInv
<1>1. \A e \in Events : \A k \in {"ws", "poll", "again"} : <<k, e>> \in Handlers
  BY DEF Handlers
<1>2. HandlersAwaitEvents
  BY <1>1 DEF Init, HandlersAwaitEvents, Idle
<1>. QED  BY <1>2 DEF Init, KeyOutlives

\* What KeyOutlives says of one event.
KeyOf(e) ==
    /\ e \in page \/ polls[e] >= 1 => age[e] # NotYet
    /\ polls[e] >= 1 =>
         /\ age[e] <= Window => seen[e] + age[e] >= SeenTTL
         /\ e \in page /\ e # current => seen[e] > 0 \/ e \in outlived
    /\ polls[e] >= 2 =>
         /\ e \in outlived /\ age[e] > Window
         /\ e \in page => e = current
    /\ polls[e] <= 2

\* A step that ages no event and takes none keeps the key of an event when its
\* row stays where it is or has been looked at.
LEMMA KeyKept ==
    ASSUME Types, NEW e \in Events, KeyOf(e),
           UNCHANGED <<age, polls>>, outlived \subseteq outlived',
           seen'[e] \in Nat, seen'[e] >= seen[e],
           e \in page' => e \in page /\ (e = current => e = current')
    PROVE  KeyOf(e)'
<1>1. age[e] \in Nat /\ seen[e] \in Nat /\ Window \in Nat /\ SeenTTL \in Nat /\ polls[e] \in Nat
  BY ExitAssumption DEF Types, NotYet
<1>. QED  BY <1>1 DEF KeyOf, NotYet

LEMMA KeyStep == PollInv /\ [Next]_vars => KeyOutlives'
<1> SUFFICES ASSUME PollInv, [Next]_vars, NEW e \in Events PROVE KeyOf(e)'
  BY DEF KeyOutlives, KeyOf, NotYet
<1>0. /\ Window \in Nat /\ SeenTTL \in Nat /\ Window < SeenTTL /\ Types /\ KeyOutlives
      /\ KeyOf(e)
  BY ExitAssumption DEF PollInv, KeyOutlives, KeyOf
<1>a. age[e] \in Nat /\ seen[e] \in Nat /\ polls[e] \in Nat
  BY <1>0 DEF Types, NotYet
<1>1. CASE Tick
  <2>1. /\ page' = page /\ polls' = polls /\ current' = current
        /\ age'[e] = IF age[e] <= Window THEN age[e] + 1 ELSE age[e]
        /\ seen'[e] = IF seen[e] > 0 THEN seen[e] - 1 ELSE 0
        /\ outlived \subseteq outlived'
        /\ e \in page /\ e # current /\ seen[e] = 1 => e \in outlived'
    BY <1>0, <1>1 DEF Tick, Types, NotYet, poller
  <2>. QED  BY <1>0, <1>a, <2>1 DEF KeyOf, NotYet
<1>2. CASE Crash
  <2>1. page' = {} /\ UNCHANGED <<age, seen, polls, outlived>>
    BY <1>2 DEF Crash, EndPoll, server
  <2>. QED  BY <1>0, <1>a, <2>1, KeyKept
<1>3. ASSUME NEW v \in Visits, Admit(v) \/ CheckoutVisit(v) PROVE KeyOf(e)'
  <2>1. UNCHANGED <<age, seen, polls, page, current, outlived>>
    BY <1>3 DEF Admit, CheckoutVisit, poller, ghosts
  <2>. QED  BY <1>0, <1>a, <2>1, KeyKept
<1>4. ASSUME NEW d \in Events, ExitEvent(d) PROVE KeyOf(e)'
  <2>1. UNCHANGED <<seen, polls, page, current, outlived>>
    BY <1>4 DEF ExitEvent, poller, ghosts
  <2>2. CASE e = d
    <3>1. age[e] = NotYet
      BY <1>4, <2>2 DEF ExitEvent
    <3>2. ~(polls[e] >= 1) /\ e \notin page
      BY <1>0, <3>1 DEF KeyOf
    <3>. QED  BY <1>a, <2>1, <3>2 DEF KeyOf
  <2>3. CASE e # d
    <3>1. age'[e] = age[e]
      BY <1>0, <1>4, <2>3 DEF ExitEvent, Types
    <3>. QED  BY <1>0, <2>1, <3>1 DEF KeyOf, NotYet
  <2>. QED  BY <2>2, <2>3
<1>5. ASSUME NEW rows \in SUBSET Recent, ReadRows(rows) PROVE KeyOf(e)'
  <2>1. UNCHANGED <<age, seen, polls, outlived>> /\ page' = rows
    BY <1>5 DEF ReadRows, server, ghosts
  <2>2. e \in rows => age[e] <= Window
    BY DEF Recent
  <2>. QED  BY <1>0, <1>a, <2>1, <2>2 DEF KeyOf, NotYet
<1>6. ASSUME NEW d \in Events, TakeEvent(d) PROVE KeyOf(e)'
  <2>1. /\ UNCHANGED <<age, page, outlived>> /\ current = NoEvent /\ current' = d /\ d \in page
        /\ e # NoEvent
    BY <1>6, ExitAssumption DEF TakeEvent, Takes, AtRow, server
  <2>2. CASE e = d
    <3>1. seen'[e] = SeenTTL /\ polls'[e] = polls[e] + 1
      BY <1>0, <1>6, <2>2 DEF TakeEvent, Takes, Types
    <3>2. polls[e] = 0 \/ (polls[e] = 1 /\ e \in outlived /\ age[e] > Window)
      BY <1>0, <1>6, <2>2, TakesOnce
    <3>3. age[e] # NotYet
      BY <1>0, <2>1, <2>2 DEF KeyOf
    <3>. QED  BY <1>0, <1>a, <2>1, <2>2, <3>1, <3>2, <3>3 DEF KeyOf, NotYet
  <2>3. CASE e # d
    <3>1. seen'[e] = seen[e] /\ polls'[e] = polls[e]
      BY <1>0, <1>6, <2>3 DEF TakeEvent, Takes, Types
    <3>. QED  BY <1>0, <1>a, <2>1, <2>3, <3>1 DEF KeyOf, NotYet
  <2>. QED  BY <2>2, <2>3
<1>7. ASSUME NEW d \in Events, SkipEvent(d) \/ SeenFails(d) PROVE KeyOf(e)'
  <2>1. /\ UNCHANGED <<age, polls, outlived>> /\ page' \subseteq page /\ current = NoEvent
        /\ seen'[e] >= seen[e]
    BY <1>0, <1>7, PollFrame
  <2>2. seen'[e] \in Nat
    BY <1>0, <1>7 DEF SkipEvent, SeenFails, Types
  <2>3. e # NoEvent
    BY ExitAssumption
  <2>. QED  BY <1>0, <2>1, <2>2, <2>3, KeyKept
<1>8. ASSUME NEW x \in Handlers, Advance(x) PROVE KeyOf(e)'
  <2>1. /\ UNCHANGED <<age, seen, polls, outlived>> /\ page' \subseteq page
        /\ \A d \in page' : d = current => d = current'
    BY <1>0, <1>8, AdvanceFrame
  <2>. QED  BY <1>0, <1>a, <2>1, KeyKept
<1>9. CASE UNCHANGED vars
  BY <1>0, <1>9 DEF KeyOf, vars, server, poller, ghosts, NotYet
<1>b. Recent \in SUBSET Recent
  OBVIOUS
<1>. QED  BY <1>1, <1>2, <1>3, <1>4, <1>5, <1>6, <1>7, <1>8, <1>9, <1>b
          DEF Next, Environment, Poll, PollNext, ReadAll, ReadSome

LEMMA AwaitStep == PollInv /\ [Next]_vars => HandlersAwaitEvents'
<1> SUFFICES ASSUME PollInv, [Next]_vars PROVE HandlersAwaitEvents'
  OBVIOUS
<1>0. Window \in Nat /\ Types /\ KeyOutlives /\ HandlersAwaitEvents
  BY ExitAssumption DEF PollInv
<1>a. \A e \in Events : \A k \in {"ws", "poll", "again"} : <<k, e>> \in Handlers
  BY DEF Handlers
<1>1. CASE Tick
  <2>1. \A e \in Events : age'[e] = NotYet => age[e] = NotYet
    BY <1>0, <1>1 DEF Tick, Types, NotYet
  <2>. QED  BY <1>0, <1>1, <2>1 DEF Tick, HandlersAwaitEvents, NotYet
<1>2. CASE Crash
  BY <1>2, <1>a DEF Crash, HandlersAwaitEvents, Idle, NotYet
<1>3. ASSUME NEW v \in Visits, Admit(v) \/ CheckoutVisit(v) PROVE HandlersAwaitEvents'
  BY <1>0, <1>3 DEF Admit, CheckoutVisit, HandlersAwaitEvents, poller, ghosts, NotYet
<1>4. ASSUME NEW e \in Events, ExitEvent(e) PROVE HandlersAwaitEvents'
  <2>1. age'[e] = 0 /\ \A d \in Events \ {e} : age'[d] = age[d]
    BY <1>0, <1>4 DEF ExitEvent, Types
  <2>2. \A y \in Handlers : y # <<"ws", e>> => h'[y] = h[y]
    <3>1. h' = h \/ h' = [h EXCEPT ![<<"ws", e>>].pc = "find"]
      BY <1>4 DEF ExitEvent
    <3>. QED  BY <1>0, <3>1, OthersStay
  <2>3. polls' = polls
    BY <1>4 DEF ExitEvent, ghosts
  <2>4. \A d \in Events : /\ h'[<<"poll", d>>] = h[<<"poll", d>>]
                          /\ h'[<<"again", d>>] = h[<<"again", d>>]
                          /\ d # e => h'[<<"ws", d>>] = h[<<"ws", d>>]
    BY <1>a, <2>2
  <2>5. 0 # NotYet
    BY <1>0 DEF NotYet
  <2>. QED  BY <1>0, <2>1, <2>3, <2>4, <2>5 DEF HandlersAwaitEvents, NotYet
<1>5. ASSUME NEW rows, ReadRows(rows) PROVE HandlersAwaitEvents'
  BY <1>0, <1>5 DEF ReadRows, HandlersAwaitEvents, server, ghosts, NotYet
<1>6. ASSUME NEW e \in Events, TakeEvent(e) PROVE HandlersAwaitEvents'
  <2>0. polls[e] \in {0, 1}
    BY <1>0, <1>6, TakesOnce
  <2>1. polls'[e] = polls[e] + 1 /\ \A d \in Events \ {e} : polls'[d] = polls[d]
    BY <1>0, <1>6 DEF TakeEvent, Takes, Types
  <2>2. /\ polls[e] = 0 => h' = [h EXCEPT ![<<"poll", e>>].pc = "find"]
        /\ polls[e] = 1 => h' = [h EXCEPT ![<<"again", e>>].pc = "find"]
    <3>. PICK k : /\ k = IF polls[e] = 0 THEN "poll" ELSE "again"
                  /\ h' = [h EXCEPT ![<<k, e>>].pc = "find"]
      BY <1>6 DEF TakeEvent, Takes
    <3>1. (polls[e] = 0 => k = "poll") /\ (polls[e] = 1 => k = "again")
      OBVIOUS
    <3>. QED  BY <3>1, Zenon
  <2>3. age' = age
    BY <1>6 DEF TakeEvent, Takes, server
  <2>4. \A d \in Events : /\ h'[<<"ws", d>>] = h[<<"ws", d>>]
                          /\ d # e => /\ h'[<<"poll", d>>] = h[<<"poll", d>>]
                                      /\ h'[<<"again", d>>] = h[<<"again", d>>]
                          /\ polls[e] = 0 => h'[<<"again", d>>] = h[<<"again", d>>]
    <3>1. CASE polls[e] = 0
      <4>1. \A y \in Handlers : y # <<"poll", e>> => h'[y] = h[y]
        BY <1>0, <2>2, <3>1, OthersStay
      <4>. QED  BY <1>a, <4>1
    <3>2. CASE polls[e] = 1
      <4>1. \A y \in Handlers : y # <<"again", e>> => h'[y] = h[y]
        BY <1>0, <2>2, <3>2, OthersStay
      <4>2. polls[e] # 0
        BY <3>2
      <4>. QED  BY <1>a, <4>1, <4>2
    <3>. QED  BY <2>0, <3>1, <3>2
  <2>5. HandlersAwaitEvents
    BY <1>0
  <2>6. \A d \in Events : age'[d] = NotYet => h'[<<"ws", d>>].pc = "idle"
    BY <2>3, <2>4, <2>5 DEF HandlersAwaitEvents
  <2>7. \A d \in Events : d # e => /\ polls'[d] = 0 => h'[<<"poll", d>>].pc = "idle"
                                   /\ polls'[d] # 2 => h'[<<"again", d>>].pc = "idle"
    BY <2>1, <2>4, <2>5 DEF HandlersAwaitEvents
  <2>8. polls'[e] # 0 /\ (polls'[e] # 2 => polls[e] = 0)
    BY <2>0, <2>1
  <2>9. ASSUME polls'[e] # 2 PROVE h'[<<"again", e>>].pc = "idle"
    <3>1. polls[e] = 0
      BY <2>8, <2>9
    <3>2. h' = [h EXCEPT ![<<"poll", e>>].pc = "find"] /\ <<"again", e>> \in Handlers
      BY <1>a, <2>2, <3>1
    <3>3. <<"again", e>> # <<"poll", e>>
      OBVIOUS
    <3>4. h'[<<"again", e>>] = h[<<"again", e>>]
      BY <1>0, <3>2, <3>3, OthersStay
    <3>5. polls[e] # 2
      BY <3>1
    <3>. QED  BY <2>5, <3>5, <3>4 DEF HandlersAwaitEvents
  <2>. QED  BY <2>6, <2>7, <2>8, <2>9 DEF HandlersAwaitEvents, NotYet
<1>7. ASSUME NEW e \in Events, SkipEvent(e) \/ SeenFails(e) PROVE HandlersAwaitEvents'
  BY <1>0, <1>7, PollFrame DEF HandlersAwaitEvents, NotYet
<1>8. ASSUME NEW x \in Handlers, Advance(x) PROVE HandlersAwaitEvents'
  BY <1>0, <1>8, <1>a, AdvanceFrame DEF HandlersAwaitEvents, NotYet
<1>9. CASE UNCHANGED vars
  BY <1>0, <1>9 DEF HandlersAwaitEvents, vars, server, poller, ghosts, NotYet
<1>. QED  BY <1>1, <1>2, <1>3, <1>4, <1>5, <1>6, <1>7, <1>8, <1>9
          DEF Next, Environment, Poll, PollNext, ReadAll, ReadSome

LEMMA PollStep == PollInv /\ [Next]_vars => PollInv'
BY TypeStep, KeyStep, AwaitStep DEF PollInv

LEMMA AtMostTwo ==
    ASSUME NEW f \in [Events -> Nat], \A e \in Events : f[e] <= 2
    PROVE  f \in [Events -> 0..2]
OBVIOUS

\* Every variable of the listener keeps its type, for any events and visits; in
\* particular no event is ever taken for a third time.
THEOREM TypesOfListener == Spec => []TypeOK
<1>1. PollInv => TypeOK
  <2> SUFFICES ASSUME PollInv PROVE TypeOK
    OBVIOUS
  <2>1. Types /\ \A e \in Events : polls[e] <= 2
    BY DEF PollInv, KeyOutlives
  <2>2. polls \in [Events -> 0..2]
    BY <2>1, AtMostTwo DEF Types
  <2>. QED  BY <2>1, <2>2 DEF Types, TypeOK
<1>. QED  BY <1>1, PollInit, PollStep, PTL DEF Spec

\* In whatever rounds the poller reads an event, however long they last and
\* wherever the process stops, it takes the event for a new one twice only when a
\* round was so slow that the seen key expired before its row's turn came; that
\* the key outlives the window of events/search is all it takes.
THEOREM EventsTakenOnce == Spec => []PolledOnce
<1>1. PollInv => PolledOnce
  <2> SUFFICES ASSUME PollInv, NEW e \in Events, e \notin outlived PROVE polls[e] <= 1
    BY DEF PolledOnce
  <2>1. polls[e] \in Nat /\ (polls[e] >= 2 => e \in outlived)
    BY DEF PollInv, KeyOutlives, Types
  <2>. QED  BY <2>1
<1>. QED  BY <1>1, PollInit, PollStep, PTL DEF Spec

----------------------------------------------------------------------------
(* One handler owns the entry of a visit *)

Owns(x) == h[x].pc \in Owning
Visit(x) == VisitOf[x[2]]

\* ScheduledIsOwned, handler by handler.
EntriesOwned ==
    /\ \A v \in Visits : v \in scheduled <=> \E x \in Handlers : Visit(x) = v /\ Owns(x)
    /\ \A x, y \in Handlers : Owns(x) /\ Owns(y) /\ Visit(x) = Visit(y) => x = y

LEMMA OwnedByHandlers == EntriesOwned <=> ScheduledIsOwned
<1>1. \A v : \A x : x \in Owners(v) <=> x \in Handlers /\ Visit(x) = v /\ Owns(x)
  BY DEF Owners, Owns, Visit
<1>2. \A v : Owners(v) # {} <=> \E x : x \in Owners(v)
  OBVIOUS
<1>3. \A x \in Handlers : Visit(x) \in Visits
  BY VisitOfEvent DEF Visit
<1>4. \A v : Owners(v) # {} <=> \E x \in Handlers : Visit(x) = v /\ Owns(x)
  BY <1>1, <1>2
<1>5. ASSUME ScheduledIsOwned, NEW x \in Handlers, NEW y \in Handlers,
             Owns(x), Owns(y), Visit(x) = Visit(y)
      PROVE  x = y
  <2>1. x \in Owners(Visit(x)) /\ y \in Owners(Visit(x)) /\ Visit(x) \in Visits
    BY <1>1, <1>3, <1>5
  <2>. QED  BY <1>5, <2>1 DEF ScheduledIsOwned
<1>6. ASSUME EntriesOwned, NEW v \in Visits, NEW x \in Owners(v), NEW y \in Owners(v)
      PROVE  x = y
  BY <1>1, <1>6 DEF EntriesOwned
<1>. QED  BY <1>4, <1>5, <1>6 DEF EntriesOwned, ScheduledIsOwned

\* What a handler's step does to its own program counter, the entry of its
\* visit and, when it is the checkout or the mail, to the visit.
LEMMA AdvanceShape ==
    ASSUME Types, NEW x \in Handlers, Advance(x)
    PROVE  /\ \A y \in Handlers \ {x} : h'[y] = h[y]
           /\ \/ ~Owns(x) /\ h'[x] = Idle /\ scheduled' = scheduled /\ UNCHANGED <<visit, surveys>>
              \/ /\ ~Owns(x) /\ h'[x].pc = "recheck"
                 /\ Visit(x) \notin scheduled /\ scheduled' = scheduled \cup {Visit(x)}
                 /\ visit[Visit(x)].in /\ UNCHANGED <<visit, surveys>>
              \/ /\ Owns(x) /\ h'[x].pc = "checkout"
                 /\ scheduled' = scheduled /\ UNCHANGED <<visit, surveys>>
              \/ /\ Owns(x) /\ h'[x] = Idle
                 /\ scheduled' = scheduled \ {Visit(x)} /\ UNCHANGED <<visit, surveys>>
              \/ /\ Owns(x) /\ Checkout(x) /\ scheduled' = scheduled /\ UNCHANGED surveys
                 /\ h'[x] = [pc |-> "mail", admission |-> visit[Visit(x)].admission]
              \/ /\ Owns(x) /\ SendSurvey(x) /\ h'[x] = Idle
                 /\ scheduled' = scheduled \ {Visit(x)} /\ UNCHANGED visit
<1>0. h \in [Handlers -> HandlerTypes]
  BY DEF Types, HandlerTypes
<1>1. \A y \in Handlers \ {x} : h'[y] = h[y]
  BY AdvanceFrame
<1>2. \A r : h' = [h EXCEPT ![x] = r] => h'[x] = r
  BY <1>0
<1>3. \A p : h' = [h EXCEPT ![x].pc = p] => h'[x].pc = p
  BY <1>0 DEF HandlerTypes
<1>4. ~Owns(x) <=> h[x].pc \in {"idle", "find"}
  BY <1>0 DEF Owns, Owning, HandlerTypes, PCs
<1>5. CASE FindVisit(x)
  BY <1>1, <1>2, <1>3, <1>4, <1>5 DEF FindVisit, Visit, Schedule, Stop, GoTo, server
<1>6. CASE Recheck(x)
  BY <1>1, <1>2, <1>3, <1>4, <1>6 DEF Recheck, Visit, Finish, Stop, GoTo, server, ghosts
<1>7. CASE Checkout(x)
  BY <1>1, <1>2, <1>4, <1>7 DEF Checkout, Visit
<1>8. CASE SendSurvey(x)
  BY <1>1, <1>2, <1>4, <1>8 DEF SendSurvey, Visit, Finish, Stop, server
<1>9. CASE Fail(x)
  BY <1>1, <1>2, <1>4, <1>9 DEF Fail, Visit, Finish, Stop, server
<1>. QED  BY <1>5, <1>6, <1>7, <1>8, <1>9 DEF Advance

\* Every other step leaves the owners alone, or stops all handlers.
LEMMA OthersOwn ==
    ASSUME PollInv, Environment \/ Poll
    PROVE  \/ scheduled' = {} /\ \A x \in Handlers : h'[x] = Idle
           \/ /\ scheduled' = scheduled
              /\ \A x \in Handlers : /\ Owns(x)' <=> Owns(x)
                                     /\ Owns(x) => h'[x] = h[x]
<1>0. Types /\ KeyOutlives /\ HandlersAwaitEvents
  BY DEF PollInv
<1>1. h' = h => \A x \in Handlers : /\ Owns(x)' <=> Owns(x)
                                    /\ Owns(x) => h'[x] = h[x]
  BY DEF Owns
<1>2. CASE Crash
  BY <1>2 DEF Crash
<1>3. ASSUME NEW k \in Handlers, h[k].pc = "idle", h' = [h EXCEPT ![k].pc = "find"],
             scheduled' = scheduled
      PROVE  \A x \in Handlers : /\ Owns(x)' <=> Owns(x)
                                 /\ Owns(x) => h'[x] = h[x]
  <2>1. h'[k].pc = "find"
    BY <1>0, <1>3 DEF Types
  <2>2. \A x \in Handlers : x # k => h'[x] = h[x]
    BY <1>0, <1>3, OthersStay
  <2>3. ~Owns(k) /\ ~Owns(k)'
    BY <1>3, <2>1 DEF Owns, Owning
  <2>. QED  BY <2>2, <2>3 DEF Owns
<1>a. \A e \in Events : \A k \in {"ws", "poll", "again"} : <<k, e>> \in Handlers
  BY DEF Handlers
<1>4. ASSUME NEW e \in Events, ExitEvent(e)
      PROVE  \/ h' = h /\ scheduled' = scheduled
             \/ /\ h[<<"ws", e>>].pc = "idle" /\ scheduled' = scheduled
                /\ h' = [h EXCEPT ![<<"ws", e>>].pc = "find"]
  <2>1. age[e] = NotYet /\ scheduled' = scheduled
    BY <1>4 DEF ExitEvent
  <2>2. h[<<"ws", e>>].pc = "idle"
    BY <1>0, <2>1 DEF HandlersAwaitEvents
  <2>3. h' = h \/ h' = [h EXCEPT ![<<"ws", e>>].pc = "find"]
    BY <1>4 DEF ExitEvent
  <2>. QED  BY <2>1, <2>2, <2>3
<1>5. ASSUME NEW e \in Events, TakeEvent(e)
      PROVE  \E k \in Handlers : /\ h[k].pc = "idle" /\ scheduled' = scheduled
                                 /\ h' = [h EXCEPT ![k].pc = "find"]
  <2>0. scheduled' = scheduled
    BY <1>5 DEF TakeEvent, Takes
  <2>1. CASE polls[e] = 0
    <3>1. /\ h[<<"poll", e>>].pc = "idle" /\ <<"poll", e>> \in Handlers
          /\ h' = [h EXCEPT ![<<"poll", e>>].pc = "find"]
      BY <1>0, <1>5, <1>a, <2>1 DEF HandlersAwaitEvents, TakeEvent, Takes
    <3>. QED  BY <2>0, <3>1
  <2>2. CASE polls[e] = 1
    <3>. PICK k : /\ k = IF polls[e] = 0 THEN "poll" ELSE "again"
                  /\ h' = [h EXCEPT ![<<k, e>>].pc = "find"]
      BY <1>5 DEF TakeEvent, Takes
    <3>0. k = "again" /\ polls[e] # 2
      BY <2>2
    <3>1. /\ h[<<"again", e>>].pc = "idle" /\ <<"again", e>> \in Handlers
          /\ h' = [h EXCEPT ![<<"again", e>>].pc = "find"]
      BY <1>0, <1>a, <3>0 DEF HandlersAwaitEvents
    <3>. QED  BY <2>0, <3>1
  <2>. QED  BY <1>0, <1>5, <2>1, <2>2, TakesOnce
<1>6. \/ Crash
      \/ h' = h /\ scheduled' = scheduled
      \/ \E e \in Events : ExitEvent(e) \/ TakeEvent(e)
  <2>1. Tick => h' = h /\ scheduled' = scheduled
    BY DEF Tick
  <2>2. \A v \in Visits : Admit(v) \/ CheckoutVisit(v) => h' = h /\ scheduled' = scheduled
    BY DEF Admit, CheckoutVisit
  <2>3. \A rows : ReadRows(rows) => h' = h /\ scheduled' = scheduled
    BY DEF ReadRows
  <2>4. \A e \in Events : SkipEvent(e) \/ SeenFails(e) => h' = h /\ scheduled' = scheduled
    BY DEF SkipEvent, SeenFails
  <2>5. CASE Environment
    BY <2>1, <2>2, <2>5 DEF Environment
  <2>6. CASE Poll
    BY <2>3, <2>4, <2>6 DEF Poll, PollNext, ReadAll, ReadSome
  <2>. QED  BY <2>5, <2>6
<1>7. ASSUME NEW e \in Events, ExitEvent(e)
      PROVE  /\ scheduled' = scheduled
             /\ \A x \in Handlers : /\ Owns(x)' <=> Owns(x)
                                    /\ Owns(x) => h'[x] = h[x]
  <2>1. scheduled' = scheduled
    BY <1>4, <1>7
  <2>2. CASE h' = h
    BY <1>1, <2>1, <2>2
  <2>3. CASE h[<<"ws", e>>].pc = "idle" /\ h' = [h EXCEPT ![<<"ws", e>>].pc = "find"]
    BY <1>3, <1>a, <2>1, <2>3
  <2>. QED  BY <1>4, <1>7, <2>2, <2>3
<1>8. ASSUME NEW e \in Events, TakeEvent(e)
      PROVE  /\ scheduled' = scheduled
             /\ \A x \in Handlers : /\ Owns(x)' <=> Owns(x)
                                    /\ Owns(x) => h'[x] = h[x]
  BY <1>3, <1>5, <1>8, <1>a
<1>. QED  BY <1>1, <1>2, <1>6, <1>7, <1>8

OwnInv == PollInv /\ EntriesOwned

LEMMA OwnStep == OwnInv /\ [Next]_vars => EntriesOwned'
<1> SUFFICES ASSUME OwnInv, [Next]_vars PROVE EntriesOwned'
  OBVIOUS
<1>0. Types /\ PollInv /\ EntriesOwned
  BY DEF OwnInv, PollInv
<1>a. \A r : Idle.pc \notin Owning /\ "recheck" \in Owning /\ "checkout" \in Owning
             /\ [pc |-> "mail", admission |-> r].pc \in Owning
  BY DEF Idle, Owning
<1>1. CASE Environment \/ Poll
  <2>1. CASE scheduled' = {} /\ \A x \in Handlers : h'[x] = Idle
    BY <1>a, <2>1 DEF EntriesOwned, Owns
  <2>2. CASE scheduled' = scheduled /\ \A x \in Handlers : Owns(x)' <=> Owns(x)
    BY <1>0, <2>2 DEF EntriesOwned, Visit
  <2>. QED  BY <1>0, <1>1, <2>1, <2>2, OthersOwn
<1>2. ASSUME NEW x \in Handlers, Advance(x)
      PROVE  EntriesOwned'
  <2>1. \A y \in Handlers \ {x} : Owns(y)' <=> Owns(y)
    BY <1>0, <1>2, AdvanceShape DEF Owns
  <2>2. \/ (Owns(x)' <=> Owns(x)) /\ scheduled' = scheduled
        \/ ~Owns(x) /\ Owns(x)' /\ Visit(x) \notin scheduled /\ scheduled' = scheduled \cup {Visit(x)}
        \/ Owns(x) /\ ~Owns(x)' /\ scheduled' = scheduled \ {Visit(x)}
    <3>1. Owns(x)' <=> h'[x].pc \in Owning
      BY DEF Owns
    <3>2. \A r : h'[x] = [pc |-> "mail", admission |-> r] => h'[x].pc \in Owning
      BY <1>a
    <3>. QED  BY <1>0, <1>2, <1>a, <3>1, <3>2, AdvanceShape
  <2>3. Visit(x) \in Visits
    BY VisitOfEvent DEF Visit
  <2>4. CASE (Owns(x)' <=> Owns(x)) /\ scheduled' = scheduled
    BY <1>0, <2>1, <2>4 DEF EntriesOwned, Visit
  <2>5. CASE ~Owns(x) /\ Owns(x)' /\ Visit(x) \notin scheduled /\ scheduled' = scheduled \cup {Visit(x)}
    BY <1>0, <2>1, <2>3, <2>5 DEF EntriesOwned, Visit
  <2>6. CASE Owns(x) /\ ~Owns(x)' /\ scheduled' = scheduled \ {Visit(x)}
    BY <1>0, <2>1, <2>3, <2>6 DEF EntriesOwned, Visit
  <2>. QED  BY <2>2, <2>4, <2>5, <2>6
<1>3. CASE UNCHANGED vars
  BY <1>0, <1>3 DEF EntriesOwned, Visit, vars, Owns
<1>. QED  BY <1>1, <1>2, <1>3 DEF Next

LEMMA OwnInit == Init => OwnInv
<1>1. Init => EntriesOwned
  BY DEF Init, EntriesOwned, Owns, Idle, Owning
<1>. QED  BY <1>1, PollInit DEF OwnInv

\* exitCheckoutScheduled holds a visit exactly as long as one handler works on
\* its checkout, for any number of events, through crashes and failed calls.
THEOREM EntriesHaveOneOwner == Spec => []ScheduledIsOwned
<1>1. OwnInv /\ [Next]_vars => OwnInv'
  BY OwnStep, PollStep DEF OwnInv
<1>2. OwnInv => ScheduledIsOwned
  BY OwnedByHandlers DEF OwnInv
<1>. QED  BY <1>1, <1>2, OwnInit, PTL DEF Spec

----------------------------------------------------------------------------
(* One survey mail for an admission *)

\* A mail is about an admission that is over, and a visit about which one has
\* been sent is checked out and has no checkout under way.
MailsFollowCheckout ==
    /\ \A x \in Handlers :
         h[x].pc = "mail" =>
            /\ h[x].admission <= visit[Visit(x)].admission
            /\ h[x].admission = visit[Visit(x)].admission => ~visit[Visit(x)].in
    /\ \A v \in Visits : /\ surveys[v] <= 1
                         /\ surveys[v] >= 1 => ~visit[v].in /\ v \notin scheduled

SurveyInv == OwnInv /\ MailsFollowCheckout

LEMMA SurveyStep == SurveyInv /\ [Next]_vars => MailsFollowCheckout'
<1> SUFFICES ASSUME SurveyInv, [Next]_vars PROVE MailsFollowCheckout'
  OBVIOUS
<1>0. Types /\ PollInv /\ EntriesOwned /\ MailsFollowCheckout
  BY DEF SurveyInv, OwnInv, PollInv
<1>a. \A x \in Handlers : Visit(x) \in Visits
  BY VisitOfEvent DEF Visit
<1>b. \A v \in Visits : visit[v].admission \in Nat /\ surveys[v] \in 0..2
  BY <1>0, ExitAssumption DEF Types, Admissions
<1>c. \A x \in Handlers : h[x].admission \in Nat
  BY <1>0, ExitAssumption DEF Types, Admissions
<1>1. ASSUME NEW v \in Visits, Admit(v) PROVE MailsFollowCheckout'
  <2>1. /\ visit'[v].in /\ visit'[v].admission = visit[v].admission + 1 /\ surveys'[v] = 0
        /\ \A w \in Visits \ {v} : visit'[w] = visit[w] /\ surveys'[w] = surveys[w]
    BY <1>0, <1>1 DEF Admit, Types
  <2>2. h' = h /\ scheduled' = scheduled
    BY <1>1 DEF Admit
  <2>. QED  BY <1>0, <1>a, <1>b, <1>c, <2>1, <2>2 DEF MailsFollowCheckout, Visit
<1>2. ASSUME NEW v \in Visits, CheckedOut(v)
      PROVE  /\ ~visit'[v].in /\ visit'[v].admission = visit[v].admission
             /\ \A w \in Visits \ {v} : visit'[w] = visit[w]
  BY <1>0, <1>2 DEF CheckedOut, Types
<1>3. ASSUME NEW v \in Visits, CheckoutVisit(v) PROVE MailsFollowCheckout'
  <2>1. h' = h /\ scheduled' = scheduled /\ surveys' = surveys /\ CheckedOut(v)
    BY <1>3 DEF CheckoutVisit, ghosts
  <2>. QED  BY <1>0, <1>2, <1>a, <1>b, <1>c, <2>1 DEF MailsFollowCheckout, Visit
<1>4. ASSUME Environment \/ Poll, visit' = visit, surveys' = surveys PROVE MailsFollowCheckout'
  <2>1. scheduled' \subseteq scheduled
    BY <1>0, <1>4, OthersOwn
  <2>2. \A x \in Handlers : h'[x].pc = "mail" => h'[x] = h[x]
    <3>1. \A x \in Handlers : h'[x].pc = "mail" => Owns(x)' /\ h'[x] # Idle
      BY DEF Owns, Owning, Idle
    <3>. QED  BY <1>0, <1>4, <3>1, OthersOwn
  <2>. QED  BY <1>0, <1>4, <2>1, <2>2 DEF MailsFollowCheckout, Visit
<1>5. ASSUME NEW x \in Handlers, Advance(x) PROVE MailsFollowCheckout'
  <2>0. \A y \in Handlers \ {x} : h'[y] = h[y]
    BY <1>0, <1>5, AdvanceShape
  <2>1. Owns(x) => Visit(x) \in scheduled
    BY <1>0, <1>a DEF EntriesOwned
  <2>2. CASE /\ UNCHANGED <<visit, surveys>> /\ h'[x].pc # "mail"
             /\ \/ scheduled' \subseteq scheduled
                \/ visit[Visit(x)].in /\ scheduled' = scheduled \cup {Visit(x)}
    BY <1>0, <1>a, <2>0, <2>2 DEF MailsFollowCheckout, Visit
  <2>3. CASE /\ Owns(x) /\ Checkout(x) /\ scheduled' = scheduled /\ UNCHANGED surveys
             /\ h'[x] = [pc |-> "mail", admission |-> visit[Visit(x)].admission]
    <3>1. CheckedOut(Visit(x))
      BY <2>3 DEF Checkout, Visit
    <3>2. /\ ~visit'[Visit(x)].in /\ visit'[Visit(x)].admission = visit[Visit(x)].admission
          /\ \A w \in Visits \ {Visit(x)} : visit'[w] = visit[w]
      BY <1>2, <1>a, <3>1
    <3>. QED  BY <1>0, <1>a, <1>b, <1>c, <2>0, <2>3, <3>2 DEF MailsFollowCheckout, Visit
  <2>4. CASE /\ Owns(x) /\ SendSurvey(x) /\ h'[x] = Idle
             /\ scheduled' = scheduled \ {Visit(x)} /\ UNCHANGED visit
    <3>1. surveys[Visit(x)] = 0
      BY <1>0, <1>a, <1>b, <2>1, <2>4 DEF MailsFollowCheckout
    <3>2. h[x].pc = "mail"
      BY <2>4 DEF SendSurvey
    <3>3. \/ surveys' = surveys
          \/ h[x].admission = visit[Visit(x)].admission /\ surveys' = [surveys EXCEPT ![Visit(x)] = @ + 1]
      BY <2>4 DEF SendSurvey, Visit
    <3>4. Idle.pc # "mail"
      BY DEF Idle
    <3>5. /\ surveys'[Visit(x)] <= 1
          /\ surveys'[Visit(x)] >= 1 => ~visit[Visit(x)].in
          /\ \A w \in Visits \ {Visit(x)} : surveys'[w] = surveys[w]
      BY <1>0, <1>a, <3>1, <3>2, <3>3 DEF MailsFollowCheckout, Types
    <3>. QED  BY <1>0, <1>a, <2>0, <2>4, <3>4, <3>5 DEF MailsFollowCheckout, Visit
  <2>5. Idle.pc # "mail"
    BY DEF Idle
  <2>. QED  BY <1>0, <1>5, <2>2, <2>3, <2>4, <2>5, AdvanceShape
<1>6. CASE UNCHANGED vars
  BY <1>0, <1>6 DEF MailsFollowCheckout, Visit, vars, server, ghosts
<1>7. Tick \/ Crash => visit' = visit /\ surveys' = surveys
  BY DEF Tick, Crash, server
<1>8. \A e \in Events : ExitEvent(e) => visit' = visit /\ surveys' = surveys
  BY DEF ExitEvent, ghosts
<1>9. Poll => visit' = visit /\ surveys' = surveys
  BY DEF Poll, PollNext, ReadAll, ReadSome, ReadRows, TakeEvent, Takes, SkipEvent, SeenFails, server, ghosts
<1>. QED  BY <1>1, <1>3, <1>4, <1>5, <1>6, <1>7, <1>8, <1>9 DEF Next, Environment

\* A visitor gets at most one survey mail for an admission, however many events,
\* operators, failed calls and crashes there are.
THEOREM OneSurvey == Spec => []SurveyOnce
<1>1. Init => SurveyInv
  <2>1. Init => MailsFollowCheckout
    BY DEF Init, MailsFollowCheckout, Idle
  <2>. QED  BY <2>1, OwnInit DEF SurveyInv
<1>2. SurveyInv /\ [Next]_vars => SurveyInv'
  BY SurveyStep, OwnStep, PollStep DEF SurveyInv, OwnInv
<1>3. SurveyInv => SurveyOnce
  BY DEF SurveyInv, MailsFollowCheckout, SurveyOnce
<1>. QED  BY <1>1, <1>2, <1>3, PTL DEF Spec

=============================================================================
