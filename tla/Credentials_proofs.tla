------------------------- MODULE Credentials_proofs -------------------------
(***************************************************************************)
(* Proofs about Credentials, for any handlers, connections, cards and      *)
(* bounds: types; that two QR codes are never active at once unless two    *)
(* replacements overlap; that a revocation lasts unless it overlaps work   *)
(* on the cards; and, as long as handlers take turns and calls succeed,    *)
(* that the QR card on a server is the one to be deleted next, where all   *)
(* servers name a visitor alike, and that every card shown as SYNCED opens *)
(* doors, wherever they do not.                                            *)
(***************************************************************************)
EXTENDS Credentials, WellFoundedInduction, TLAPS

(***************************************************************************)
(* Types.  What a handler has at each program counter: on a server, a      *)
(* connection and a job; with a QR code to enrol, that code; with cards    *)
(* to synchronise, cards and not QR codes.                                 *)
(***************************************************************************)
Jobs     == {"sync", "rotate", "push", "delete"}
OnServer == {"create", "findCards", "postCard", "getCards", "putCard", "verify", "saveCard",
             "deleteUser", "readKey", "dropQr", "postQr", "getQr", "putQr", "setKey"}
OnQr     == {"exists", "flag", "readKey", "dropQr", "postQr", "getQr", "putQr", "setKey"}
OnCards  == {"postCard", "getCards", "putCard", "verify", "saveCard"}
OffServer == {"reset", "save", "forceReset", "forceFind", "synced", "deleted", "findQr",
              "revokeQr", "issueQr", "portal", "burn"}
OnCard   == {"getCards", "putCard", "verify", "saveCard", "insertCard"}

\* The job that x does on a connection is under way.
AtWork(x) == /\ x.conns # {} /\ x.job # "none" /\ (x.job = "rotate" => x.qr # 0)
             /\ x.job # "sync" => x.user # NoUser

\* It names a user: all but a sync that has not created one yet.
Names == (OnServer \ {"create"}) \cup {"exists", "flag"}

HandlerOK(x) ==
    /\ x \in Handlers
    /\ x.pc \in OnServer => AtWork(x)
    /\ x.pc \in OnQr => x.qr # 0
    /\ x.pc \in Names => x.user # NoUser
    /\ x.pc \in OnCards => x.todo \subseteq Cards
    /\ x.pc \in OnCard => x.card \in Cards

\* TypeOK but for the handlers.
RestOK ==
    /\ visit \in VisitRows
    /\ qr \in [Qrs -> {"none", "active", "revoked"}]
    /\ card \in [Cards -> CardRows]
    /\ server \in [Conns -> Servers]
    /\ key \in [Conns -> 0..MaxQrs]
    /\ flag \in BOOLEAN
    /\ raced \in BOOLEAN /\ overlapped \in BOOLEAN
    /\ faults \in 0..MaxFaults /\ renewed \in BOOLEAN

TypeInv == RestOK /\ h \in [Requests -> Handlers] /\ \A p \in Requests : HandlerOK(h[p])

\* A set of numbers that is not empty has a least one, ...
LEMMA Least == ASSUME NEW S \in SUBSET Nat, S # {} PROVE \E c \in S : \A d \in S : c <= d
<1> DEFINE Less == {ss \in Nat \X Nat : ss[1] < ss[2]}
<1>1. IsWellFoundedOn(Less, Nat)
  BY NatLessThanWellFounded DEF OpToRel
<1>2. PICK c \in S : \A d \in S : <<d, c>> \notin Less
  <2> HIDE DEF Less
  <2>. QED  BY <1>1, WFMin, Zenon
<1>3. ASSUME NEW d \in S PROVE c <= d
  <2>1. c \in Nat /\ d \in Nat
    OBVIOUS
  <2>2. ~(d < c)
    BY <1>2, <2>1
  <2>. QED  BY <2>1, <2>2
<1>. QED  BY <1>3

\* ... so that a connection is there to be called first as long as one is left.
LEMMA FirstInSet == ASSUME NEW S \in SUBSET Conns, S # {} PROVE First(S) \in S
<1>1. S \in SUBSET Nat
  BY CredentialsAssumption DEF Conns
<1>. QED  BY <1>1, Least DEF First

\* The code found as the latest is an active one, or there is none.
LEMMA LatestQrOK == LatestQr \in 0..MaxQrs /\ (LatestQr = 0 <=> Active = {})
                    /\ (Active # {} => LatestQr \in Active)
<1>1. CASE Active = {}
  BY <1>1, CredentialsAssumption DEF LatestQr
<1>2. CASE Active # {}
  <2> DEFINE M == {n \in 0..MaxQrs : MaxQrs - n \in Active}
  <2>1. Active \subseteq 1..MaxQrs /\ MaxQrs \in Nat
    BY CredentialsAssumption DEF Active, Qrs
  <2>2. \A i \in Active : MaxQrs - i \in M
    BY <2>1
  <2>3. M # {} /\ M \in SUBSET Nat
    <3>1. M # {}
      BY <1>2, <2>2
    <3>2. M \subseteq Nat
      BY <2>1
    <3>. QED  BY <3>1, <3>2
  <2>4. PICK m \in M : \A n \in M : m <= n
    <3> HIDE DEF M
    <3>. QED  BY <2>3, Least
  <2>5. ASSUME NEW j \in Active PROVE j <= MaxQrs - m
    <3>1. m <= MaxQrs - j
      BY <2>2, <2>4
    <3>. QED  BY <2>1, <2>4, <3>1
  <2>6. LatestQr \in Active
    BY <1>2, <2>4, <2>5 DEF LatestQr
  <2>. QED  BY <1>2, <2>1, <2>6
<1>. QED  BY <1>1, <1>2

LEMMA HereOK ==
    ASSUME TypeInv, NEW p \in Requests, h[p].pc \in OnServer
    PROVE  Here(p) \in Conns
<1>1. h[p].conns \in SUBSET Conns /\ h[p].conns # {}
  BY DEF TypeInv, HandlerOK, Handlers, AtWork
<1>. QED  BY <1>1, FirstInSet DEF Here

\* A handler at a program counter that asks for nothing.
LEMMA OffServerOK == ASSUME NEW y \in Handlers, y.pc \in OffServer PROVE HandlerOK(y)
BY DEF HandlerOK, OffServer, OnServer, OnQr, OnCards, OnCard, Names

\* ... and one that has come there by a change of its program counter only.
LEMMA PcOK ==
    ASSUME NEW x \in Handlers, NEW c \in OffServer PROVE HandlerOK([x EXCEPT !.pc = c])
<1> DEFINE y == [x EXCEPT !.pc = c]
<1>1. y \in Handlers /\ y.pc = c
  BY DEF Handlers, OffServer
<1> HIDE DEF y
<1>2. HandlerOK(y)
  BY <1>1, OffServerOK
<1>. QED  BY <1>2 DEF y

LEMMA IdleOK == HandlerOK(Idle)
BY CredentialsAssumption DEF HandlerOK, Handlers, Idle, NoVisit, VisitRows,
                             OnServer, OnQr, OnCards, OnCard, Names

LEMMA StartOK ==
    ASSUME NEW x \in Handlers, NEW j \in Jobs, NEW u \in UserIds \cup {NoUser},
           j = "rotate" => x.qr # 0, j # "sync" => u # NoUser
    PROVE  HandlerOK(Start(x, j, u))
<1>1. Conns # {}
  BY CredentialsAssumption DEF Conns
<1>2. FirstStep(j) \in {"create", "readKey", "findCards", "deleteUser"}
      /\ (FirstStep(j) = "readKey" => j = "rotate") /\ (j = "sync" => FirstStep(j) = "create")
  BY DEF FirstStep, Jobs
<1>3. Start(x, j, u) \in Handlers
  <2> DEFINE f == FirstStep(j)
             a == [x EXCEPT !.job = j, !.pc = f]
  <2>1. f \in {"create", "readKey", "findCards", "deleteUser"}
    BY <1>2
  <2>2. j \in {"none", "sync", "rotate", "push", "delete"}
    BY DEF Jobs
  <2> HIDE DEF f
  <2>3. a \in Handlers
    BY <2>1, <2>2 DEF Handlers
  <2>4. Conns \in SUBSET Conns
    OBVIOUS
  <2>5. [a EXCEPT !.conns = Conns, !.user = u] \in Handlers
    <3> HIDE DEF a
    <3>. QED  BY <2>3, <2>4 DEF Handlers
  <2>6. Start(x, j, u) = [a EXCEPT !.conns = Conns, !.user = u]
    BY <2>3 DEF f, Start, Handlers
  <2>. QED  BY <2>5, <2>6
<1>4. /\ Start(x, j, u).pc = FirstStep(j) /\ Start(x, j, u).job = j
      /\ Start(x, j, u).conns = Conns /\ Start(x, j, u).qr = x.qr
      /\ Start(x, j, u).user = u
  BY DEF Start, Handlers
<1>. QED  BY <1>1, <1>2, <1>3, <1>4 DEF HandlerOK, AtWork, Jobs, OnServer, OnQr, OnCards, OnCard,
                                       Names

LEMMA NextConnOK ==
    ASSUME NEW x \in Handlers, AtWork(x)
    PROVE  HandlerOK(NextConn(x))
<1> DEFINE rest == x.conns \ {First(x.conns)}
           next == [x EXCEPT !.conns = rest, !.old = 0, !.list = {}, !.todo = {},
                             !.stale = {}, !.card = NoCard, !.linked = FALSE]
<1>1. /\ next \in Handlers /\ next.conns = rest /\ next.job = x.job /\ next.qr = x.qr
      /\ next.todo = {} /\ next.user = x.user
  <2> HIDE DEF rest
  <2>1. rest \in SUBSET Conns
    BY DEF rest, Handlers
  <2>2. 0 \in 0..MaxQrs
    BY CredentialsAssumption
  <2>3. {} \in SUBSET Badges /\ {} \in SUBSET Cards /\ NoCard \in Cards \cup {NoCard}
    OBVIOUS
  <2>. QED  BY <2>1, <2>2, <2>3 DEF Handlers
<1>2. x.job \in Jobs
  BY DEF AtWork, Handlers, Jobs
<1> HIDE DEF next
<1>3. CASE rest # {}
  <2>1. FirstStep(x.job) \in {"create", "readKey", "findCards", "deleteUser"}
        /\ (FirstStep(x.job) = "readKey" => x.job = "rotate")
        /\ (x.job = "sync" => FirstStep(x.job) = "create")
    BY <1>2 DEF FirstStep, Jobs
  <2> DEFINE y == [next EXCEPT !.pc = FirstStep(x.job)]
  <2>2. /\ y \in Handlers /\ y.pc = FirstStep(x.job) /\ y.conns = rest /\ y.job = x.job
        /\ y.qr = x.qr /\ y.user = x.user
    BY <1>1, <2>1 DEF Handlers
  <2>3. NextConn(x) = y
    BY <1>3 DEF NextConn, next
  <2> HIDE DEF y
  <2>. QED  BY <1>3, <2>1, <2>2, <2>3 DEF HandlerOK, AtWork, OnServer, OnQr, OnCards, OnCard,
                                           Names
<1>4. CASE rest = {}
  <2>1. HandlerOK([next EXCEPT !.pc = "synced"]) /\ HandlerOK([next EXCEPT !.pc = "deleted"])
    BY <1>1, PcOK DEF OffServer
  <2>2. NextConn(x) \in {[next EXCEPT !.pc = "synced"], [next EXCEPT !.pc = "deleted"], Idle}
    BY <1>2, <1>4 DEF NextConn, next, Jobs
  <2>. QED  BY <2>1, <2>2, IdleOK
<1>. QED  BY <1>3, <1>4

LEMMA AfterQrOK ==
    ASSUME NEW x \in Handlers, AtWork(x), x.user # NoUser
    PROVE  HandlerOK(AfterQr(x))
<1> DEFINE y == [x EXCEPT !.pc = "findCards", !.old = 0, !.list = {}]
<1>1. 0 \in 0..MaxQrs
  BY CredentialsAssumption
<1>2. {} \in SUBSET Badges
  OBVIOUS
<1>3. /\ y \in Handlers /\ y.pc = "findCards" /\ y.conns = x.conns /\ y.job = x.job
      /\ y.qr = x.qr /\ y.user = x.user
  BY <1>1, <1>2 DEF Handlers
<1>4. AfterQr(x) \in {y, NextConn(x)}
  BY DEF AfterQr
<1> HIDE DEF y
<1>5. HandlerOK(y)
  BY <1>3 DEF HandlerOK, AtWork, OnQr, OnCards, OnCard
<1>. QED  BY <1>4, <1>5, NextConnOK

LEMMA NextCardOK ==
    ASSUME NEW x \in Handlers, AtWork(x), x.todo \subseteq Cards, x.user # NoUser
    PROVE  HandlerOK(NextCard(x))
<1> DEFINE next == [x EXCEPT !.card = NoCard, !.list = {}, !.linked = FALSE]
<1>1. next \in Handlers /\ AtWork(next) /\ next.todo = x.todo /\ next.user = x.user
  <2>1. {} \in SUBSET Badges /\ NoCard \in Cards \cup {NoCard}
    OBVIOUS
  <2>2. /\ next \in Handlers /\ next.conns = x.conns /\ next.job = x.job /\ next.qr = x.qr
        /\ next.todo = x.todo /\ next.user = x.user
    BY <2>1 DEF Handlers
  <2> HIDE DEF next
  <2>. QED  BY <2>2 DEF AtWork
<1> HIDE DEF next
<1>2. HandlerOK([next EXCEPT !.pc = "postCard"])
  <2> DEFINE y == [next EXCEPT !.pc = "postCard"]
  <2>1. /\ y \in Handlers /\ y.pc = "postCard" /\ y.conns = next.conns
        /\ y.job = next.job /\ y.qr = next.qr /\ y.todo = next.todo /\ y.user = next.user
    BY <1>1 DEF Handlers
  <2> HIDE DEF y
  <2>2. y.pc = "postCard" /\ AtWork(y) /\ y.todo \subseteq Cards /\ y.user # NoUser
    BY <1>1, <2>1 DEF AtWork
  <2>3. HandlerOK(y)
    BY <2>1, <2>2 DEF HandlerOK, OnQr, OnCard
  <2>. QED  BY <2>3 DEF y
<1>3. HandlerOK(NextConn(next))
  BY <1>1, NextConnOK
<1>. QED  BY <1>2, <1>3 DEF NextCard, next

\* One handler changes, and what else changes keeps its type.
LEMMA StepOK ==
    ASSUME TypeInv, NEW p \in Requests, NEW x, HandlerOK(x), h' = [h EXCEPT ![p] = x], RestOK'
    PROVE  TypeInv'
<1>1. x \in Handlers
  BY DEF HandlerOK
<1>. QED  BY <1>1 DEF TypeInv

LEMMA EnterOK == ASSUME NEW p \in Requests, RestOK, Enter(p) PROVE raced' \in BOOLEAN /\ overlapped' \in BOOLEAN
BY DEF RestOK, Enter

LEMMA CallOK == ASSUME RestOK, NEW o, Call(o) PROVE faults' \in 0..MaxFaults
BY CredentialsAssumption DEF RestOK, Call

LEMMA EffectOK ==
    ASSUME RestOK, NEW c \in Conns, NEW o, NEW s, s \in Servers, Effect(c, o, s)
    PROVE  server' \in [Conns -> Servers]
BY DEF RestOK, Effect

\* The operations on the visit.
LEMMA VisitStepOK == ASSUME TypeInv, NEW p \in Requests, VisitStep(p) PROVE TypeInv'
<1> DEFINE x == h[p]
<1>0. /\ RestOK /\ x \in Handlers /\ HandlerOK(x) /\ h \in [Requests -> Handlers]
      /\ visit \in VisitRows /\ x.copy \in VisitRows
  BY DEF TypeInv, RestOK, Handlers
<1>1. CASE CheckInVisit(p)
  <2> DEFINE y == [x EXCEPT !.pc = "reset", !.then = "sync",
                            !.copy = [visit EXCEPT !.status = "CHECKED_IN"]]
  <2>1. h' = [h EXCEPT ![p] = y]
    BY <1>0, <1>1 DEF CheckInVisit
  <2>2. HandlerOK(y)
    <3>1. y \in Handlers /\ y.pc = "reset"
      BY <1>0 DEF Handlers, VisitRows
    <3> HIDE DEF y
    <3>. QED  BY <3>1, OffServerOK DEF OffServer
  <2>3. RestOK'
    BY <1>0, <1>1, EnterOK DEF CheckInVisit, RestOK, rows
  <2>. QED  BY <2>1, <2>2, <2>3, StepOK
<1>2. CASE ResetCards(p)
  <2> DEFINE y == [x EXCEPT !.pc = "save"]
  <2>1. h' = [h EXCEPT ![p] = y] /\ HandlerOK(y)
    BY <1>0, <1>2, PcOK DEF ResetCards, OffServer
  <2>2. card' \in [Cards -> CardRows]
    BY <1>0, <1>2 DEF ResetCards, RestOK, CardRows
  <2>3. RestOK'
    BY <1>0, <1>2, <2>2 DEF ResetCards, RestOK, met
  <2>. QED  BY <2>1, <2>3, StepOK
<1>3. CASE TemporaryReenableVisit(p)
  <2> DEFINE y == [x EXCEPT !.pc = "save", !.then = "sync",
                            !.copy = [visit EXCEPT !.status = "CHECKED_IN"]]
  <2>1. h' = [h EXCEPT ![p] = y]
    BY <1>0, <1>3 DEF TemporaryReenableVisit
  <2>2. HandlerOK(y)
    <3>1. y \in Handlers /\ y.pc = "save"
      BY <1>0 DEF Handlers, VisitRows
    <3> HIDE DEF y
    <3>. QED  BY <3>1, OffServerOK DEF OffServer
  <2>3. RestOK'
    BY <1>0, <1>3, EnterOK DEF TemporaryReenableVisit, RestOK, rows
  <2>. QED  BY <2>1, <2>2, <2>3, StepOK
<1>4. CASE CheckoutVisit(p)
  <2> DEFINE y == [x EXCEPT !.pc = "save", !.then = "checkout",
                            !.copy = [visit EXCEPT !.status = "CHECKED_OUT"]]
  <2>1. h' = [h EXCEPT ![p] = y]
    BY <1>0, <1>4 DEF CheckoutVisit
  <2>2. HandlerOK(y)
    <3>1. y \in Handlers /\ y.pc = "save"
      BY <1>0 DEF Handlers, VisitRows
    <3> HIDE DEF y
    <3>. QED  BY <3>1, OffServerOK DEF OffServer
  <2>3. RestOK'
    BY <1>0, <1>4, EnterOK DEF CheckoutVisit, RestOK, rows
  <2>. QED  BY <2>1, <2>2, <2>3, StepOK
<1>5. CASE ReportFalseExit(p)
  <2> DEFINE y == [x EXCEPT !.pc = "save",
                            !.copy = [visit EXCEPT !.status = "FALSE_EXIT_REPORTED"]]
  <2>1. h' = [h EXCEPT ![p] = y]
    BY <1>0, <1>5 DEF ReportFalseExit
  <2>2. HandlerOK(y)
    <3>1. y \in Handlers /\ y.pc = "save"
      BY <1>0 DEF Handlers, VisitRows
    <3> HIDE DEF y
    <3>. QED  BY <3>1, OffServerOK DEF OffServer
  <2>3. RestOK'
    BY <1>0, <1>5, EnterOK DEF ReportFalseExit, RestOK, rows
  <2>. QED  BY <2>1, <2>2, <2>3, StepOK
<1>6. CASE ForceSyncVisit(p)
  <2> DEFINE hp == [x EXCEPT !.copy = visit, !.then = "force"]
             y == IF visit.ref # NoUser THEN Start(hp, "delete", visit.ref)
                  ELSE [hp EXCEPT !.pc = "forceFind"]
  <2>1. h' = [h EXCEPT ![p] = y]
    BY <1>0, <1>6 DEF ForceSyncVisit
  <2>2. hp \in Handlers
    BY <1>0 DEF Handlers
  <2>3. HandlerOK(y)
    <3> HIDE DEF hp
    <3>1. visit.ref \in UserIds \cup {NoUser}
      BY <1>0 DEF VisitRows
    <3>2. visit.ref # NoUser => HandlerOK(Start(hp, "delete", visit.ref))
      BY <2>2, <3>1, StartOK DEF Jobs
    <3>. QED  BY <2>2, <3>2, PcOK DEF OffServer
  <2>4. RestOK'
    BY <1>0, <1>6, EnterOK DEF ForceSyncVisit, RestOK, rows
  <2>. QED  BY <2>1, <2>3, <2>4, StepOK
<1>7. CASE ForceReset(p)
  <2>1. h' = [h EXCEPT ![p] = [x EXCEPT !.pc = "forceFind"]]
    BY <1>0, <1>7 DEF ForceReset
  <2>2. HandlerOK([x EXCEPT !.pc = "forceFind"])
    BY <1>0, PcOK DEF OffServer
  <2>3. card' \in [Cards -> CardRows]
    BY <1>0, <1>7 DEF ForceReset, RestOK, CardRows
  <2>4. RestOK'
    BY <1>0, <1>7, <2>3 DEF ForceReset, RestOK, met
  <2>. QED  BY <2>1, <2>2, <2>4, StepOK
<1>8. CASE ForceFind(p)
  <2> DEFINE y == [x EXCEPT !.pc = "save", !.qr = LatestQr, !.then = "sync"]
  <2>1. h' = [h EXCEPT ![p] = y]
    BY <1>0, <1>8 DEF ForceFind
  <2>2. HandlerOK(y)
    <3>1. y \in Handlers /\ y.pc = "save"
      BY <1>0, LatestQrOK DEF Handlers
    <3> HIDE DEF y
    <3>. QED  BY <3>1, OffServerOK DEF OffServer
  <2>3. RestOK'
    BY <1>0, <1>8 DEF ForceFind, RestOK, rows, met
  <2>. QED  BY <2>1, <2>2, <2>3, StepOK
<1>9. CASE Save(p)
  <2> DEFINE hp == [x EXCEPT !.then = "done"]
             y == CASE x.then = "sync"  -> Start(hp, "sync", NoUser)
                    [] x.then = "force" -> [hp EXCEPT !.pc = "forceReset"]
                    [] x.then = "checkout" /\ x.copy.ref # NoUser ->
                                           Start(hp, "delete", x.copy.ref)
                    [] OTHER -> Idle
  <2>1. h' = [h EXCEPT ![p] = y]
    BY <1>0, <1>9 DEF Save
  <2>2. hp \in Handlers /\ HandlerOK([hp EXCEPT !.pc = "forceReset"])
    <3>1. hp \in Handlers
      BY <1>0 DEF Handlers
    <3> HIDE DEF hp
    <3>. QED  BY <3>1, PcOK DEF OffServer
  <2>3. HandlerOK(y)
    <3> HIDE DEF hp
    <3>1. x.copy.ref \in UserIds \cup {NoUser}
      BY <1>0 DEF VisitRows
    <3>2. /\ HandlerOK(Start(hp, "sync", NoUser))
          /\ x.copy.ref # NoUser => HandlerOK(Start(hp, "delete", x.copy.ref))
      BY <2>2, <3>1, StartOK DEF Jobs
    <3>. QED  BY <2>2, <3>2, IdleOK
  <2>4. RestOK'
    BY <1>0, <1>9 DEF Save, RestOK, met
  <2>. QED  BY <2>1, <2>3, <2>4, StepOK
<1>10. CASE AfterSync(p)
  <2>1. h' = [h EXCEPT ![p] = Idle]
    BY <1>10 DEF AfterSync
  <2>2. visit' \in VisitRows
    BY <1>0, <1>10 DEF AfterSync, VisitRows, Handlers
  <2>3. RestOK'
    BY <1>0, <1>10, <2>2 DEF AfterSync, RestOK, met
  <2>. QED  BY <2>1, <2>3, IdleOK, StepOK
<1>11. CASE DeleteFromConnection(p)
  <2> DEFINE c == Here(p)
  <2>1. c \in Conns /\ AtWork(x)
    BY <1>0, <1>11, HereOK DEF DeleteFromConnection, HandlerOK, OnServer
  <2>2. PICK o \in Outcomes, login \in BOOLEAN,
             kept \in {server[c].cards, server[c].cards \ server[c].list} :
            /\ key' = IF login /\ Named(p) THEN [key EXCEPT ![c] = 0] ELSE key
            /\ Effect(c, IF Named(p) THEN o ELSE "failed",
                      [user |-> FALSE, cards |-> kept, list |-> {}])
            /\ Call(o)
    BY <1>11 DEF DeleteFromConnection
  <2>3. server' \in [Conns -> Servers]
    <3>1. [user |-> FALSE, cards |-> kept, list |-> {}] \in Servers
      BY <1>0, <2>1 DEF RestOK, Servers
    <3>. QED  BY <1>0, <2>1, <2>2, <3>1, EffectOK
  <2>4. key' \in [Conns -> 0..MaxQrs]
    <3>1. 0 \in 0..MaxQrs
      BY CredentialsAssumption
    <3>2. key \in [Conns -> 0..MaxQrs]
      BY <1>0 DEF RestOK
    <3>. QED  BY <2>2, <3>1, <3>2
  <2>5. RestOK'
    <3>1. faults' \in 0..MaxFaults
      BY <1>0, <2>2, CallOK
    <3>. QED  BY <1>0, <1>11, <2>3, <2>4, <3>1 DEF DeleteFromConnection, RestOK, rows, met
  <2>6. h' = [h EXCEPT ![p] = NextConn(x)]
    BY <1>11 DEF DeleteFromConnection
  <2>. QED  BY <1>0, <2>1, <2>5, <2>6, NextConnOK, StepOK
<1>12. CASE AfterDelete(p)
  <2> DEFINE y == [x EXCEPT !.pc = "save", !.copy = [x.copy EXCEPT !.ref = NoUser],
                            !.job = "none"]
  <2>1. h' = [h EXCEPT ![p] = y]
    BY <1>0, <1>12 DEF AfterDelete
  <2>2. HandlerOK(y)
    <3> DEFINE v == [x.copy EXCEPT !.ref = NoUser]
    <3>1. v \in VisitRows
      BY <1>0 DEF VisitRows
    <3> HIDE DEF v
    <3> DEFINE z == [x EXCEPT !.pc = "save", !.copy = v, !.job = "none"]
    <3>2. z \in Handlers /\ z.pc = "save"
      BY <1>0, <3>1 DEF Handlers
    <3> HIDE DEF z
    <3>3. HandlerOK(z)
      BY <3>2, OffServerOK DEF OffServer
    <3>. QED  BY <3>3 DEF z, v
  <2>3. RestOK'
    BY <1>0, <1>12 DEF AfterDelete, RestOK, rows, met
  <2>. QED  BY <2>1, <2>2, <2>3, StepOK
<1>. QED  BY <1>1, <1>2, <1>3, <1>4, <1>5, <1>6, <1>7, <1>8, <1>9, <1>10, <1>11, <1>12
          DEF VisitStep

\* A handler goes on with its job on the same connection.
LEMMA GoOnOK ==
    ASSUME NEW x \in Handlers, AtWork(x), NEW y \in Handlers,
           y.conns = x.conns, y.job = x.job, y.qr = x.qr, y.user # NoUser,
           y.pc \in OnQr => y.qr # 0, y.pc \in OnCards => y.todo \subseteq Cards,
           y.pc \in OnCard => y.card \in Cards
    PROVE  HandlerOK(y)
BY DEF HandlerOK, AtWork

LEMMA PutOK ==
    ASSUME RestOK, NEW c \in Conns, NEW list PROVE Put(c, list) \in Servers
BY DEF RestOK, Put, Servers

\* The calls to the servers.
LEMMA ServerStepOK == ASSUME TypeInv, NEW p \in Requests, ServerStep(p) PROVE TypeInv'
<1> DEFINE x == h[p]
           c == Here(p)
<1>0. /\ RestOK /\ x \in Handlers /\ HandlerOK(x) /\ h \in [Requests -> Handlers]
      /\ 0 \in 0..MaxQrs /\ {} \in SUBSET Badges /\ NoCard \in Cards \cup {NoCard}
  BY CredentialsAssumption DEF TypeInv
<1>1. x.pc \in OnServer
  BY DEF ServerStep, CreateUser, ReadCardKey, DropOldQr, PostQr, GetQr, PutQr, SetCardKey,
         FindCards, PostCard, GetCards, PutCard, VerifyCard, SaveCard, OnServer
<1>2. AtWork(x) /\ c \in Conns /\ server[c] \in Servers
  BY <1>0, <1>1, HereOK DEF HandlerOK, RestOK
<1>3. HandlerOK(NextConn(x)) /\ (x.pc # "create" => x.user # NoUser /\ HandlerOK(AfterQr(x)))
  BY <1>0, <1>1, <1>2, NextConnOK, AfterQrOK DEF HandlerOK, Names
<1>4. x.pc \in OnQr => x.qr \in Badges
  BY <1>0 DEF HandlerOK, Handlers, Badges, Qrs
<1> HIDE DEF c
<1>5. CASE CreateUser(p)
  <2> DEFINE s == [server[c] EXCEPT !.user = TRUE]
             y == [x EXCEPT !.user = UserIdOn(c),
                            !.pc = IF x.qr = 0 THEN "findCards" ELSE "postQr"]
  <2>1. PICK o \in Outcomes :
            Effect(c, o, s) /\ Call(o) /\ h' = [h EXCEPT ![p] = IF o # "ok" THEN NextConn(x) ELSE y]
    BY <1>0, <1>5 DEF CreateUser, c
  <2>2. server' \in [Conns -> Servers] /\ faults' \in 0..MaxFaults
    <3>1. s \in Servers
      BY <1>2 DEF Servers
    <3>. QED  BY <1>0, <1>2, <2>1, <3>1, EffectOK, CallOK
  <2>3. HandlerOK(y)
    <3>0. UserIdOn(c) \in UserIds /\ UserIdOn(c) # NoUser
      BY <1>2 DEF UserIdOn, UserIds, NoUser
    <3>1. y \in Handlers /\ y.conns = x.conns /\ y.job = x.job /\ y.qr = x.qr
          /\ y.pc = (IF x.qr = 0 THEN "findCards" ELSE "postQr") /\ y.user = UserIdOn(c)
      BY <1>0, <3>0 DEF Handlers
    <3> HIDE DEF y
    <3>. QED  BY <1>0, <1>2, <3>0, <3>1, GoOnOK DEF OnQr, OnCards, OnCard
  <2>4. RestOK'
    BY <1>0, <1>5, <2>2 DEF CreateUser, RestOK, rows, met
  <2>. QED  BY <1>3, <2>1, <2>3, <2>4, StepOK
<1>6. CASE ReadCardKey(p)
  <2> DEFINE known == IF Named(p) THEN key[c] ELSE 0
             y == [x EXCEPT !.old = known, !.pc = IF known = 0 THEN "postQr" ELSE "dropQr"]
  <2>1. PICK login \in BOOLEAN : /\ Call(IF login THEN "ok" ELSE "failed")
                                 /\ h' = [h EXCEPT ![p] = IF ~login THEN NextConn(x) ELSE y]
    BY <1>0, <1>6 DEF ReadCardKey, c
  <2>2. HandlerOK(y)
    <3>1. known \in 0..MaxQrs
      BY <1>0, <1>2 DEF RestOK
    <3> HIDE DEF known
    <3>2. y \in Handlers /\ y.conns = x.conns /\ y.job = x.job /\ y.qr = x.qr
          /\ y.pc = (IF known = 0 THEN "postQr" ELSE "dropQr") /\ y.user = x.user
      BY <1>0, <3>1 DEF Handlers
    <3>3. x.qr # 0 /\ x.user # NoUser
      BY <1>0, <1>3, <1>6 DEF ReadCardKey, HandlerOK, OnQr
    <3> HIDE DEF y
    <3>. QED  BY <1>0, <1>2, <3>2, <3>3, GoOnOK DEF OnCards, OnCard
  <2>3. RestOK'
    BY <1>0, <1>6, <2>1, CallOK DEF ReadCardKey, RestOK, rows, met
  <2>. QED  BY <1>3, <2>1, <2>2, <2>3, StepOK
<1>7. CASE DropOldQr(p)
  <2> DEFINE s == [server[c] EXCEPT !.cards = @ \ {x.old}, !.list = @ \ {x.old}]
             y == [x EXCEPT !.pc = "postQr"]
  <2>1. PICK o \in Outcomes : Effect(c, o, s) /\ Call(o) /\ key' = [key EXCEPT ![c] = 0]
    BY <1>7 DEF DropOldQr, c
  <2>2. server' \in [Conns -> Servers] /\ faults' \in 0..MaxFaults
    <3>1. s \in Servers
      BY <1>2 DEF Servers
    <3>. QED  BY <1>0, <1>2, <2>1, <3>1, EffectOK, CallOK
  <2>3. key' \in [Conns -> 0..MaxQrs]
    BY <1>0, <2>1 DEF RestOK
  <2>4. HandlerOK(y)
    <3>1. y \in Handlers /\ y.conns = x.conns /\ y.job = x.job /\ y.qr = x.qr /\ y.pc = "postQr"
          /\ y.user = x.user
      BY <1>0 DEF Handlers
    <3>2. x.qr # 0 /\ x.user # NoUser
      BY <1>0, <1>3, <1>7 DEF DropOldQr, HandlerOK, OnQr
    <3> HIDE DEF y
    <3>. QED  BY <1>0, <1>2, <3>1, <3>2, GoOnOK DEF OnCards, OnCard
  <2>5. RestOK'
    BY <1>0, <1>7, <2>2, <2>3 DEF DropOldQr, RestOK, rows, met
  <2>6. h' = [h EXCEPT ![p] = y]
    BY <1>0, <1>7 DEF DropOldQr
  <2>. QED  BY <2>4, <2>5, <2>6, StepOK
<1>8. CASE PostQr(p)
  <2> DEFINE s == [server[c] EXCEPT !.cards = @ \cup {x.qr}]
             y == [x EXCEPT !.pc = "getQr"]
  <2>1. PICK o \in Outcomes : /\ Effect(c, o, s) /\ Call(o)
                              /\ h' \in {[h EXCEPT ![p] = y], [h EXCEPT ![p] = AfterQr(x)]}
    BY <1>0, <1>8 DEF PostQr, c
  <2>2. server' \in [Conns -> Servers] /\ faults' \in 0..MaxFaults
    <3>1. s \in Servers
      BY <1>2, <1>4, <1>8 DEF PostQr, OnQr, Servers
    <3>. QED  BY <1>0, <1>2, <2>1, <3>1, EffectOK, CallOK
  <2>3. HandlerOK(y)
    <3>1. y \in Handlers /\ y.conns = x.conns /\ y.job = x.job /\ y.qr = x.qr /\ y.pc = "getQr"
          /\ y.user = x.user
      BY <1>0 DEF Handlers
    <3>2. x.qr # 0 /\ x.user # NoUser
      BY <1>0, <1>3, <1>8 DEF PostQr, HandlerOK, OnQr
    <3> HIDE DEF y
    <3>. QED  BY <1>0, <1>2, <3>1, <3>2, GoOnOK DEF OnCards, OnCard
  <2>4. RestOK'
    BY <1>0, <1>8, <2>2 DEF PostQr, RestOK, rows, met
  <2>. QED  BY <1>3, <1>8, <2>1, <2>3, <2>4, StepOK DEF PostQr
<1>9. CASE GetQr(p)
  <2> DEFINE y == [x EXCEPT !.pc = "putQr", !.list = CardsOf(p)]
             z == [x EXCEPT !.pc = "putQr"]
  <2>1. PICK o \in {"ok", "error", "failed"} :
            /\ Call(o)
            /\ \/ h' = [h EXCEPT ![p] = y]
               \/ h' = [h EXCEPT ![p] = z]
               \/ h' = [h EXCEPT ![p] = AfterQr(x)]
    BY <1>0, <1>9 DEF GetQr, c
  <2>2. HandlerOK(y) /\ HandlerOK(z)
    <3>1. CardsOf(p) \in SUBSET Badges
      BY <1>2 DEF Servers, CardsOf, c
    <3>2. /\ y \in Handlers /\ y.conns = x.conns /\ y.job = x.job /\ y.qr = x.qr
          /\ y.pc = "putQr" /\ y.user = x.user
      BY <1>0, <3>1 DEF Handlers
    <3>3. /\ z \in Handlers /\ z.conns = x.conns /\ z.job = x.job /\ z.qr = x.qr
          /\ z.pc = "putQr" /\ z.user = x.user
      BY <1>0 DEF Handlers
    <3>4. x.qr # 0 /\ x.user # NoUser
      BY <1>0, <1>3, <1>9 DEF GetQr, HandlerOK, OnQr
    <3> HIDE DEF y, z
    <3>. QED  BY <1>0, <1>2, <3>2, <3>3, <3>4, GoOnOK DEF OnCards, OnCard
  <2>3. RestOK'
    BY <1>0, <1>9, <2>1, CallOK DEF GetQr, RestOK, rows, met
  <2>. QED  BY <1>3, <1>9, <2>1, <2>2, <2>3, StepOK DEF GetQr
<1>10. CASE PutQr(p)
  <2> DEFINE s == Put(c, (x.list \ {x.old}) \cup {x.qr})
             y == [x EXCEPT !.pc = "setKey"]
  <2>1. PICK o \in Outcomes : /\ Effect(c, IF Found(p) THEN o ELSE "failed", s) /\ Call(o)
                              /\ h' \in {[h EXCEPT ![p] = y], [h EXCEPT ![p] = AfterQr(x)]}
    BY <1>0, <1>10 DEF PutQr, c
  <2>2. server' \in [Conns -> Servers] /\ faults' \in 0..MaxFaults
    <3>1. s \in Servers
      BY <1>0, <1>2, PutOK
    <3>. QED  BY <1>0, <1>2, <2>1, <3>1, EffectOK, CallOK
  <2>3. HandlerOK(y)
    <3>1. y \in Handlers /\ y.conns = x.conns /\ y.job = x.job /\ y.qr = x.qr /\ y.pc = "setKey"
          /\ y.user = x.user
      BY <1>0 DEF Handlers
    <3>2. x.qr # 0 /\ x.user # NoUser
      BY <1>0, <1>3, <1>10 DEF PutQr, HandlerOK, OnQr
    <3> HIDE DEF y
    <3>. QED  BY <1>0, <1>2, <3>1, <3>2, GoOnOK DEF OnCards, OnCard
  <2>4. RestOK'
    BY <1>0, <1>10, <2>2 DEF PutQr, RestOK, rows, met
  <2>. QED  BY <1>3, <1>10, <2>1, <2>3, <2>4, StepOK DEF PutQr
<1>11. CASE SetCardKey(p)
  <2>1. key' \in [Conns -> 0..MaxQrs]
    <3>1. x.qr \in 0..MaxQrs /\ key' = [key EXCEPT ![c] = x.qr]
      BY <1>0, <1>11 DEF SetCardKey, Handlers, c
    <3>. QED  BY <1>0, <3>1 DEF RestOK
  <2>2. RestOK'
    BY <1>0, <1>11, <2>1 DEF SetCardKey, RestOK, rows, met
  <2>3. h' = [h EXCEPT ![p] = AfterQr(x)]
    BY <1>11 DEF SetCardKey
  <2>. QED  BY <1>3, <1>11, <2>2, <2>3, StepOK DEF SetCardKey
<1>12. CASE FindCards(p)
  <2> DEFINE found == {k \in Cards : card[k].sync = "PENDING"}
             y == [x EXCEPT !.todo = found, !.stale = {k \in found : card[k].revoked}]
  <2>1. PICK login \in BOOLEAN :
            /\ Call(IF login THEN "ok" ELSE "failed")
            /\ h' = [h EXCEPT ![p] = IF ~login THEN NextConn(x) ELSE NextCard(y)]
    BY <1>0, <1>12 DEF FindCards
  <2>2. HandlerOK(NextCard(y))
    <3>1. found \in SUBSET Badges /\ {k \in found : card[k].revoked} \in SUBSET Cards
      BY DEF Badges
    <3>2. y \in Handlers /\ y.conns = x.conns /\ y.job = x.job /\ y.qr = x.qr /\ y.todo = found
          /\ y.user = x.user
      BY <1>0, <3>1 DEF Handlers
    <3>4. x.user # NoUser
      BY <1>3, <1>12 DEF FindCards
    <3>3. found \subseteq Cards
      OBVIOUS
    <3> HIDE DEF y, found
    <3>. QED  BY <1>2, <3>2, <3>3, <3>4, NextCardOK DEF AtWork
  <2>3. RestOK'
    <3>1. faults' \in 0..MaxFaults
      BY <1>0, <2>1, CallOK
    <3>. QED  BY <1>0, <1>12, <3>1 DEF FindCards, RestOK, rows, met
  <2>. QED  BY <1>3, <2>1, <2>2, <2>3, StepOK
<1>13. CASE PostCard(p)
  <2>1. PICK k \in x.todo, o \in Outcomes :
            LET accepted == c \in BioStarX \/ (Found(p) /\ k \notin server[c].cards) IN
            /\ Effect(c, IF accepted THEN o ELSE "failed",
                      [server[c] EXCEPT !.cards = @ \cup {k},
                                        !.list = IF c \in BioStarX THEN @ ELSE @ \cup {k}])
            /\ Call(o)
            /\ h' = [h EXCEPT ![p].todo = @ \ {k}, ![p].card = k,
                              ![p].linked = (o = "ok" /\ accepted /\ c \notin BioStarX),
                              ![p].pc = IF c \in BioStarX /\ o = "ok" THEN "getCards" ELSE "saveCard"]
    BY <1>13 DEF PostCard, c
  <2> DEFINE accepted == c \in BioStarX \/ (Found(p) /\ k \notin server[c].cards)
             linked == o = "ok" /\ accepted /\ c \notin BioStarX
             to == IF c \in BioStarX /\ o = "ok" THEN "getCards" ELSE "saveCard"
             s == [server[c] EXCEPT !.cards = @ \cup {k},
                                    !.list = IF c \in BioStarX THEN @ ELSE @ \cup {k}]
             y == [x EXCEPT !.todo = @ \ {k}, !.card = k, !.linked = linked, !.pc = to]
  <2>2. x.todo \subseteq Cards /\ k \in Badges
    BY <1>0, <1>13 DEF PostCard, HandlerOK, OnCards, Badges
  <2>3. server' \in [Conns -> Servers] /\ faults' \in 0..MaxFaults
    <3>1. s \in Servers
      BY <1>2, <2>2 DEF Servers
    <3>. QED  BY <1>0, <1>2, <2>1, <3>1, EffectOK, CallOK
  <2>4. HandlerOK(y)
    <3>1. /\ x.todo \ {k} \in SUBSET Badges /\ k \in Cards \cup {NoCard} /\ k \in Cards
          /\ linked \in BOOLEAN /\ to \in {"getCards", "saveCard"}
      BY <1>0, <2>2 DEF Handlers
    <3> HIDE DEF linked, to
    <3> DEFINE rest == x.todo \ {k}
    <3>0. /\ rest \in SUBSET Badges /\ rest \subseteq x.todo
          /\ k \in Cards \cup {NoCard} /\ k \in Cards
      BY <3>1
    <3> HIDE DEF rest
    <3>2a. y \in Handlers
      BY <1>0, <3>0, <3>1 DEF Handlers, rest
    <3>2b. /\ y.conns = x.conns /\ y.job = x.job /\ y.qr = x.qr /\ y.user = x.user
           /\ y.pc = to /\ y.todo = rest /\ y.card = k
      BY <1>0 DEF Handlers, rest
    <3>2. /\ y \in Handlers /\ y.conns = x.conns /\ y.job = x.job /\ y.qr = x.qr
          /\ y.pc = to /\ y.todo \subseteq x.todo /\ y.card = k /\ y.user = x.user
      BY <3>0, <3>2a, <3>2b
    <3>3. x.user # NoUser
      BY <1>3, <1>13 DEF PostCard
    <3>4. y.pc \notin OnQr
      BY <3>1, <3>2 DEF OnQr
    <3> HIDE DEF y
    <3>. QED  BY <1>0, <1>2, <2>2, <3>1, <3>2, <3>3, <3>4, GoOnOK
  <2>5. RestOK'
    BY <1>0, <1>13, <2>3 DEF PostCard, RestOK, rows, met
  <2>6. h' = [h EXCEPT ![p] = y]
    BY <1>0, <2>1
  <2>. QED  BY <2>4, <2>5, <2>6, StepOK
<1>14. CASE GetCards(p)
  <2> DEFINE y(to, list) == [x EXCEPT !.pc = to, !.list = list]
  <2>1. PICK o \in {"ok", "error", "failed"}, to \in {"saveCard", "putCard"},
             list \in {CardsOf(p), {}} :
            Call(o) /\ h' = [h EXCEPT ![p] = y(to, list)]
    BY <1>0, <1>14 DEF GetCards, c
  <2>2. HandlerOK(y(to, list))
    <3>1. list \in SUBSET Badges
      BY <1>2 DEF Servers, CardsOf, c
    <3>2. /\ y(to, list) \in Handlers /\ y(to, list).conns = x.conns /\ y(to, list).job = x.job
          /\ y(to, list).qr = x.qr /\ y(to, list).pc = to /\ y(to, list).todo = x.todo
          /\ y(to, list).card = x.card /\ y(to, list).user = x.user
      BY <1>0, <3>1 DEF Handlers
    <3>3. x.todo \subseteq Cards /\ x.card \in Cards /\ x.user # NoUser
      BY <1>0, <1>3, <1>14 DEF GetCards, HandlerOK, OnCards, OnCard
    <3> HIDE DEF y
    <3>. QED  BY <1>0, <1>2, <3>2, <3>3, GoOnOK DEF OnQr
  <2>3. RestOK'
    BY <1>0, <1>14, <2>1, CallOK DEF GetCards, RestOK, rows, met
  <2>. QED  BY <2>1, <2>2, <2>3, StepOK
<1>15. CASE PutCard(p)
  <2> DEFINE s == Put(c, x.list \cup {x.card})
             y(to) == [x EXCEPT !.pc = to]
  <2>1. PICK o \in Outcomes, to \in {"verify", "saveCard"} :
            /\ Effect(c, IF Found(p) THEN o ELSE "failed", s) /\ Call(o)
            /\ h' = [h EXCEPT ![p] = y(to)]
    BY <1>0, <1>15 DEF PutCard, c
  <2>2. server' \in [Conns -> Servers] /\ faults' \in 0..MaxFaults
    <3>1. s \in Servers
      BY <1>0, <1>2, PutOK
    <3>. QED  BY <1>0, <1>2, <2>1, <3>1, EffectOK, CallOK
  <2>3. HandlerOK(y(to))
    <3>1. /\ y(to) \in Handlers /\ y(to).conns = x.conns /\ y(to).job = x.job
          /\ y(to).qr = x.qr /\ y(to).pc = to /\ y(to).todo = x.todo /\ y(to).card = x.card
          /\ y(to).user = x.user
      BY <1>0 DEF Handlers
    <3>2. x.todo \subseteq Cards /\ x.card \in Cards /\ x.user # NoUser
      BY <1>0, <1>3, <1>15 DEF PutCard, HandlerOK, OnCards, OnCard
    <3> HIDE DEF y
    <3>. QED  BY <1>0, <1>2, <3>1, <3>2, GoOnOK DEF OnQr
  <2>4. RestOK'
    BY <1>0, <1>15, <2>2 DEF PutCard, RestOK, rows, met
  <2>. QED  BY <2>1, <2>3, <2>4, StepOK
<1>16. CASE VerifyCard(p)
  <2> DEFINE y(linked) == [x EXCEPT !.pc = "saveCard", !.linked = linked]
  <2>1. PICK o \in {"ok", "failed"}, linked \in BOOLEAN :
            Call(o) /\ h' = [h EXCEPT ![p] = y(linked)]
    BY <1>0, <1>16 DEF VerifyCard, c
  <2>2. HandlerOK(y(linked))
    <3>1. /\ y(linked) \in Handlers /\ y(linked).conns = x.conns /\ y(linked).job = x.job
          /\ y(linked).qr = x.qr /\ y(linked).pc = "saveCard" /\ y(linked).todo = x.todo
          /\ y(linked).card = x.card /\ y(linked).user = x.user
      BY <1>0 DEF Handlers
    <3>2. x.todo \subseteq Cards /\ x.card \in Cards /\ x.user # NoUser
      BY <1>0, <1>3, <1>16 DEF VerifyCard, HandlerOK, OnCards, OnCard
    <3> HIDE DEF y
    <3>. QED  BY <1>0, <1>2, <3>1, <3>2, GoOnOK DEF OnQr
  <2>3. RestOK'
    BY <1>0, <1>16, <2>1, CallOK DEF VerifyCard, RestOK, rows, met
  <2>. QED  BY <2>1, <2>2, <2>3, StepOK
<1>17. CASE SaveCard(p)
  <2>1. x.card \in Cards /\ x.todo \subseteq Cards /\ x.user # NoUser
    BY <1>0, <1>3, <1>17 DEF SaveCard, HandlerOK, OnCard, OnCards
  <2>2. card' \in [Cards -> CardRows]
    <3>1. [revoked |-> x.card \in x.stale,
           sync |-> IF x.linked THEN "SYNCED" ELSE "PENDING"] \in CardRows
      BY DEF CardRows
    <3>. QED  BY <1>0, <1>17, <3>1 DEF SaveCard, RestOK
  <2>3. RestOK'
    BY <1>0, <1>17, <2>2 DEF SaveCard, RestOK, met
  <2>4. HandlerOK(NextCard(x))
    BY <1>0, <1>2, <2>1, NextCardOK
  <2>5. h' = [h EXCEPT ![p] = NextCard(x)]
    BY <1>17 DEF SaveCard
  <2>. QED  BY <2>3, <2>4, <2>5, StepOK
<1>. QED  BY <1>5, <1>6, <1>7, <1>8, <1>9, <1>10, <1>11, <1>12, <1>13, <1>14, <1>15, <1>16, <1>17
          DEF ServerStep

\* The portal, the operator and the access events.
LEMMA RequestStepOK == ASSUME TypeInv, NEW p \in Requests, RequestStep(p) PROVE TypeInv'
<1> DEFINE x == h[p]
<1>0. /\ RestOK /\ x \in Handlers /\ HandlerOK(x) /\ h \in [Requests -> Handlers]
      /\ 0 \in 0..MaxQrs /\ LatestQr \in 0..MaxQrs /\ visit \in VisitRows
      /\ Active \in SUBSET Badges /\ Idle \in Handlers /\ HandlerOK(Idle)
  BY CredentialsAssumption, LatestQrOK, IdleOK DEF TypeInv, RestOK, Active, Badges, HandlerOK
<1>r. x.copy.ref \in UserIds \cup {NoUser} /\ (Admitted(x.copy) => x.copy.ref # NoUser)
  BY <1>0 DEF Handlers, VisitRows, Admitted
<1>1. ASSUME NEW then \in {"rotate", "done"}, ReplaceQr(p, then) PROVE TypeInv'
  <2> DEFINE y == [x EXCEPT !.pc = "findQr", !.copy = visit, !.then = then]
  <2>1. h' = [h EXCEPT ![p] = y]
    BY <1>0, <1>1 DEF ReplaceQr
  <2>2. HandlerOK(y)
    <3>1. y \in Handlers /\ y.pc \in {"findQr"}
      BY <1>0 DEF Handlers
    <3> HIDE DEF y
    <3>. QED  BY <3>1, OffServerOK DEF OffServer
  <2>3. RestOK'
    BY <1>0, <1>1 DEF ReplaceQr, RestOK, rows
  <2>. QED  BY <2>1, <2>2, <2>3, StepOK
<1>2. CASE FindQr(p)
  <2> DEFINE y == [x EXCEPT !.old = LatestQr,
                            !.pc = IF LatestQr = 0 THEN "issueQr" ELSE "revokeQr"]
  <2>1. h' = [h EXCEPT ![p] = y]
    BY <1>0, <1>2 DEF FindQr
  <2>2. HandlerOK(y)
    <3>1. y \in Handlers /\ y.pc \in {"issueQr", "revokeQr"}
      BY <1>0 DEF Handlers
    <3> HIDE DEF y
    <3>. QED  BY <3>1, OffServerOK DEF OffServer
  <2>3. RestOK'
    BY <1>0, <1>2 DEF FindQr, RestOK, rows, met
  <2>. QED  BY <2>1, <2>2, <2>3, StepOK
<1>3. CASE RevokeOldQr(p)
  <2> DEFINE y == [x EXCEPT !.pc = "issueQr", !.old = 0]
  <2>1. h' = [h EXCEPT ![p] = y]
    BY <1>0, <1>3 DEF RevokeOldQr
  <2>2. HandlerOK(y)
    <3>1. y \in Handlers /\ y.pc = "issueQr"
      BY <1>0 DEF Handlers
    <3> HIDE DEF y
    <3>. QED  BY <3>1, OffServerOK DEF OffServer
  <2>3. RestOK'
    BY <1>0, <1>3 DEF RevokeOldQr, RestOK, met
  <2>. QED  BY <2>1, <2>2, <2>3, StepOK
<1>4. CASE IssueQr(p)
  <2>1. PICK i \in Qrs :
            /\ qr' = [qr EXCEPT ![i] = "active"]
            /\ h' = [h EXCEPT ![p] = IF x.then = "rotate" /\ Admitted(x.copy)
                                     THEN Start([Idle EXCEPT !.qr = i], "rotate", x.copy.ref)
                                     ELSE Idle]
    BY <1>4 DEF IssueQr
  <2>2. Admitted(x.copy) => HandlerOK(Start([Idle EXCEPT !.qr = i], "rotate", x.copy.ref))
    <3> DEFINE y == [Idle EXCEPT !.qr = i]
    <3>1. y \in Handlers /\ y.qr = i
      BY <1>0, CredentialsAssumption DEF Handlers, Qrs
    <3>2. i # 0
      BY CredentialsAssumption DEF Qrs
    <3> HIDE DEF y
    <3>3. Admitted(x.copy) => HandlerOK(Start(y, "rotate", x.copy.ref))
      BY <1>r, <3>1, <3>2, StartOK DEF Jobs
    <3>. QED  BY <3>3 DEF y
  <2>3. raced' \in BOOLEAN /\ overlapped' \in BOOLEAN
    BY <1>0, <1>4, EnterOK DEF IssueQr, met, RestOK
  <2>4. RestOK'
    BY <1>0, <1>4, <2>1, <2>3 DEF IssueQr, RestOK
  <2>. QED  BY <1>0, <2>1, <2>2, <2>4, StepOK
<1>5. CASE GetQrForPortal(p)
  <2> DEFINE y == [x EXCEPT !.pc = "portal", !.copy = visit]
  <2>1. h' = [h EXCEPT ![p] = y]
    BY <1>0, <1>5 DEF GetQrForPortal
  <2>2. HandlerOK(y)
    <3>1. y \in Handlers /\ y.pc = "portal"
      BY <1>0 DEF Handlers
    <3> HIDE DEF y
    <3>. QED  BY <3>1, OffServerOK DEF OffServer
  <2>3. RestOK'
    BY <1>0, <1>5 DEF GetQrForPortal, RestOK, rows, met
  <2>. QED  BY <2>1, <2>2, <2>3, StepOK
<1>6. CASE PortalFind(p)
  <2> DEFINE y == [Idle EXCEPT !.pc = "exists", !.qr = LatestQr, !.user = x.copy.ref]
             z == IF LatestQr # 0 /\ Admitted(x.copy) THEN y ELSE Idle
  <2>1. h' = [h EXCEPT ![p] = z]
    BY <1>0, <1>6 DEF PortalFind
  <2>2. LatestQr # 0 /\ Admitted(x.copy) => HandlerOK(y)
    <3>1. y \in Handlers /\ y.pc = "exists" /\ y.qr = LatestQr /\ y.user = x.copy.ref
      BY <1>0, <1>r DEF Handlers
    <3> HIDE DEF y
    <3>. QED  BY <1>r, <3>1 DEF HandlerOK, OnServer, OnQr, OnCards, OnCard, Names
  <2>3. RestOK'
    BY <1>0, <1>6 DEF PortalFind, RestOK, rows, met
  <2>. QED  BY <1>0, <2>1, <2>2, <2>3, StepOK
<1>7. CASE CheckFlag(p)
  <2> DEFINE y == [x EXCEPT !.pc = "flag"]
  <2>1. h' = [h EXCEPT ![p] = IF flag THEN Idle ELSE y]
    BY <1>0, <1>7 DEF CheckFlag
  <2>2. HandlerOK(y)
    <3>1. x.qr # 0 /\ x.user # NoUser
      BY <1>0, <1>7 DEF CheckFlag, HandlerOK, OnQr, Names
    <3>2. y \in Handlers /\ y.pc = "flag" /\ y.qr = x.qr /\ y.user = x.user
      BY <1>0 DEF Handlers
    <3> HIDE DEF y
    <3>. QED  BY <3>1, <3>2 DEF HandlerOK, OnServer, OnQr, OnCards, OnCard, Names
  <2>3. RestOK'
    BY <1>0, <1>7 DEF CheckFlag, RestOK, rows, met
  <2>. QED  BY <1>0, <2>1, <2>2, <2>3, StepOK
<1>8. CASE SetFlag(p)
  <2>1. x.qr # 0 /\ x.user # NoUser /\ x.user \in UserIds \cup {NoUser}
    BY <1>0, <1>8 DEF SetFlag, HandlerOK, OnQr, Names, Handlers
  <2>2. HandlerOK(Start(x, "rotate", x.user))
    BY <1>0, <2>1, StartOK DEF Jobs
  <2>3. h' = [h EXCEPT ![p] = Start(x, "rotate", x.user)]
    BY <1>8 DEF SetFlag
  <2>4. RestOK'
    BY <1>0, <1>8, EnterOK DEF SetFlag, RestOK, rows
  <2>. QED  BY <2>2, <2>3, <2>4, StepOK
<1>9. ASSUME NEW k \in Cards, AddCard(p, k) PROVE TypeInv'
  <2> DEFINE y == [x EXCEPT !.pc = "insertCard", !.copy = visit, !.card = k]
  <2>1. h' = [h EXCEPT ![p] = y]
    BY <1>0, <1>9 DEF AddCard
  <2>2. HandlerOK(y)
    <3>1. y \in Handlers /\ y.pc = "insertCard" /\ y.card = k
      BY <1>0 DEF Handlers
    <3> HIDE DEF y
    <3>. QED  BY <3>1 DEF HandlerOK, OnServer, OnQr, OnCards, OnCard, Names
  <2>3. RestOK'
    BY <1>0, <1>9 DEF AddCard, RestOK, rows, met
  <2>. QED  BY <2>1, <2>2, <2>3, StepOK
<1>10. CASE InsertCard(p)
  <2>1. card' \in [Cards -> CardRows]
    <3>1. x.card \in Cards
      BY <1>0, <1>10 DEF InsertCard, HandlerOK, OnCard
    <3>. QED  BY <1>0, <1>10, <3>1 DEF InsertCard, RestOK, CardRows
  <2>2. Admitted(x.copy) => HandlerOK(Start(Idle, "push", x.copy.ref))
    BY <1>0, <1>r, StartOK DEF Jobs
  <2>3. h' = [h EXCEPT ![p] = IF Admitted(x.copy) THEN Start(Idle, "push", x.copy.ref) ELSE Idle]
    BY <1>10 DEF InsertCard
  <2>4. raced' \in BOOLEAN /\ overlapped' \in BOOLEAN
    BY <1>0, <1>10, EnterOK DEF InsertCard, met, RestOK
  <2>5. RestOK'
    BY <1>0, <1>10, <2>1, <2>4 DEF InsertCard, RestOK
  <2>. QED  BY <1>0, <2>2, <2>3, <2>5, StepOK
<1>11. CASE BurnQrForUser(p)
  <2> DEFINE y == [x EXCEPT !.pc = "burn", !.todo = Active]
  <2>1. h' = [h EXCEPT ![p] = y]
    BY <1>0, <1>11 DEF BurnQrForUser
  <2>2. HandlerOK(y)
    <3>1. y \in Handlers /\ y.pc \in {"burn"}
      BY <1>0 DEF Handlers
    <3> HIDE DEF y
    <3>. QED  BY <3>1, OffServerOK DEF OffServer
  <2>3. RestOK'
    BY <1>0, <1>11 DEF BurnQrForUser, RestOK, rows, met
  <2>. QED  BY <2>1, <2>2, <2>3, StepOK
<1>12. CASE BurnNext(p)
  <2>1. PICK i \in x.todo :
            LET left == x.todo \ {i} IN
            /\ qr' = [qr EXCEPT ![i] = "revoked"]
            /\ h' = [h EXCEPT ![p] = IF left = {} THEN Idle ELSE [@ EXCEPT !.todo = left]]
    BY <1>12 DEF BurnNext
  <2> DEFINE y == [x EXCEPT !.todo = x.todo \ {i}]
  <2>2. h' \in {[h EXCEPT ![p] = Idle], [h EXCEPT ![p] = y]}
    BY <1>0, <2>1
  <2>3. HandlerOK(y)
    <3>1. y \in Handlers /\ y.pc = "burn"
      BY <1>0, <1>12 DEF BurnNext, Handlers
    <3> HIDE DEF y
    <3>. QED  BY <3>1, OffServerOK DEF OffServer
  <2>4. RestOK'
    BY <1>0, <1>12, <2>1 DEF BurnNext, RestOK, met
  <2>. QED  BY <1>0, <2>2, <2>3, <2>4, StepOK
<1>. QED  BY <1>1, <1>2, <1>3, <1>4, <1>5, <1>6, <1>7, <1>8, <1>9, <1>10, <1>11, <1>12
          DEF RequestStep, RefreshQrForPortal, AddQr

LEMMA InitOK == Init => TypeInv
<1> SUFFICES ASSUME Init PROVE TypeInv
  OBVIOUS
<1>1. visit \in VisitRows
  BY DEF Init, NoVisit, VisitRows
<1>2. qr \in [Qrs -> {"none", "active", "revoked"}]
  BY DEF Init
<1>3. card \in [Cards -> CardRows]
  <2>1. \A s \in {"absent", "null"} : [revoked |-> FALSE, sync |-> s] \in CardRows
    BY DEF CardRows
  <2>2. card \in [Cards -> {[revoked |-> FALSE, sync |-> s] : s \in {"absent", "null"}}]
    BY DEF Init
  <2>3. card \in [Cards -> CardRows]
    <3> HIDE DEF CardRows
    <3>1. {[revoked |-> FALSE, sync |-> s] : s \in {"absent", "null"}} \subseteq CardRows
      BY <2>1
    <3>. QED  BY <2>2, <3>1
  <2>. QED  BY <2>3
<1>4. server \in [Conns -> Servers]
  BY DEF Init, Servers
<1>5. key \in [Conns -> 0..MaxQrs] /\ 0 \in 0..MaxFaults
  BY CredentialsAssumption DEF Init
<1>6. RestOK
  BY <1>1, <1>2, <1>3, <1>4, <1>5 DEF Init, RestOK
<1>. QED  BY <1>6, IdleOK DEF Init, TypeInv, HandlerOK

LEMMA NextOK == TypeInv /\ [Next]_vars => TypeInv'
<1> SUFFICES ASSUME TypeInv, [Next]_vars PROVE TypeInv'
  OBVIOUS
<1>1. CASE UNCHANGED vars
  BY <1>1 DEF vars, TypeInv, RestOK
<1>2. CASE RevokeQr
  BY <1>2 DEF RevokeQr, TypeInv, RestOK, Active, met
<1>3. CASE ExpireFlag
  BY <1>3 DEF ExpireFlag, TypeInv, RestOK, rows, met
<1>4. CASE Crash
  <2>1. faults' \in 0..MaxFaults
    BY <1>4, CredentialsAssumption DEF Crash, TypeInv, RestOK
  <2>2. RestOK'
    BY <1>4, <2>1 DEF Crash, TypeInv, RestOK, rows, met
  <2>. QED  BY <1>4, <2>2, IdleOK DEF Crash, TypeInv, HandlerOK
<1>5. ASSUME NEW k \in Cards, RevokeCard(k) PROVE TypeInv'
  BY <1>5 DEF RevokeCard, TypeInv, RestOK, CardRows
<1>. QED  BY <1>1, <1>2, <1>3, <1>4, <1>5, VisitStepOK, ServerStepOK, RequestStepOK DEF Next

\* Every row, server and handler keeps its type: whatever fails or crashes, no
\* handler works on a connection that is not there, on a card it has not found or
\* with a QR code it does not have.
THEOREM TypeCorrect == Spec => []TypeOK
<1>1. TypeInv => TypeOK
  BY DEF TypeInv, RestOK, TypeOK
<1>. QED  BY InitOK, NextOK, <1>1, PTL DEF Spec

(***************************************************************************)
(* Never two active QR codes.  OneActiveQr is not inductive: that a code is *)
(* issued when none is active rests on what the handler found and revoked  *)
(* some awaits earlier, and on nobody having issued one since.             *)
(***************************************************************************)
Replaces == {"findQr", "revokeQr", "issueQr"}

QrInv ==
    ~raced =>
        /\ \A i, j \in Active : i = j
        /\ \A p, q \in Requests : Replacing(p) /\ Replacing(q) => p = q
        /\ \A p \in Requests : h[p].pc = "revokeQr" => Active \subseteq {h[p].old}
        /\ \A p \in Requests : h[p].pc = "issueQr" => Active = {}

\* A step of a handler that is not replacing the QR code after it, and makes none active.
Quiet(p) == h'[p].pc \notin Replaces /\ \A q \in Requests \ {p} : h'[q] = h[q]

LEMMA QuietStep ==
    ASSUME QrInv, NEW p \in Requests, Quiet(p), raced' = raced, Active' \subseteq Active
    PROVE  QrInv'
<1>1. \A q \in Requests : Replacing(q)' => Replacing(q) /\ h'[q] = h[q]
  BY DEF Quiet, Replacing, Replaces
<1>2. \A q \in Requests : h'[q].pc \in Replaces => h'[q] = h[q]
  BY DEF Quiet
<1>. QED  BY <1>1, <1>2 DEF QrInv, Replaces

\* Where a handler goes when it is done with a connection or a card.
LEMMA JobPc ==
    ASSUME NEW x \in Handlers
    PROVE  /\ \A j \in Jobs : \A u : Start(x, j, u).pc \notin Replaces
           /\ \A j \in Jobs : \A u : Start(x, j, u).pc \notin OnCards
           /\ AtWork(x) => /\ NextConn(x).pc \notin Replaces \cup OnCards
                           /\ AfterQr(x).pc \notin Replaces \cup OnCards
                           /\ NextCard(x).pc \notin Replaces
<1>1. \A j \in Jobs : FirstStep(j) \notin Replaces \cup OnCards
  BY DEF Jobs, FirstStep, Replaces, OnCards
<1>2. \A j \in Jobs : \A u : Start(x, j, u).pc \notin Replaces \cup OnCards
  BY <1>1 DEF Start, Handlers
<1>3. ASSUME NEW w \in Handlers, AtWork(w) PROVE NextConn(w).pc \notin Replaces \cup OnCards
  <2>1. w.job \in Jobs
    BY <1>3 DEF AtWork, Handlers, Jobs
  <2>. QED  BY <1>1, <2>1, <1>3 DEF NextConn, Handlers, Jobs, Replaces, OnCards, Idle
<1>4. ASSUME AtWork(x) PROVE AfterQr(x).pc \notin Replaces \cup OnCards
  BY <1>3, <1>4 DEF AfterQr, Handlers, Replaces, OnCards
<1>5. ASSUME AtWork(x) PROVE NextCard(x).pc \notin Replaces
  <2> DEFINE next == [x EXCEPT !.card = NoCard, !.list = {}, !.linked = FALSE]
  <2>1. next \in Handlers /\ AtWork(next)
    <3>1. {} \in SUBSET Badges /\ NoCard \in Cards \cup {NoCard}
      OBVIOUS
    <3>2. /\ next \in Handlers /\ next.conns = x.conns /\ next.job = x.job
          /\ next.qr = x.qr /\ next.user = x.user
      BY <3>1 DEF Handlers
    <3> HIDE DEF next
    <3>. QED  BY <1>5, <3>2 DEF AtWork
  <2>2. [next EXCEPT !.pc = "postCard"].pc = "postCard"
    BY <2>1 DEF Handlers
  <2> HIDE DEF next
  <2>3. NextConn(next).pc \notin Replaces \cup OnCards
    BY <1>3, <2>1
  <2>. QED  BY <2>2, <2>3 DEF NextCard, next, Replaces
<1>. QED  BY <1>2, <1>3, <1>4, <1>5

\* After an operation on the visit a handler neither replaces the QR code nor is at work on
\* a card, ...
LEMMA VisitStepLeads ==
    ASSUME TypeInv, NEW p \in Requests, VisitStep(p)
    PROVE  Quiet(p) /\ h'[p].pc \notin OnCards
<1> DEFINE x == h[p]
<1>0. /\ x \in Handlers /\ HandlerOK(x) /\ h \in [Requests -> Handlers]
      /\ \A j \in Jobs : \A u : Start(x, j, u).pc \notin Replaces \cup OnCards
      /\ Idle.pc \notin Replaces \cup OnCards
  BY JobPc DEF TypeInv, Idle, Replaces, OnCards
<1>1. Quiet(p) /\ h'[p].pc \notin OnCards
  <2>1. CASE CheckInVisit(p)
    BY <1>0, <2>1 DEF CheckInVisit, Quiet, Handlers, Replaces, OnCards
  <2>2. CASE ResetCards(p)
    BY <1>0, <2>2 DEF ResetCards, Quiet, Handlers, Replaces, OnCards
  <2>3. CASE TemporaryReenableVisit(p)
    BY <1>0, <2>3 DEF TemporaryReenableVisit, Quiet, Handlers, Replaces, OnCards
  <2>4. CASE CheckoutVisit(p)
    BY <1>0, <2>4 DEF CheckoutVisit, Quiet, Handlers, Replaces, OnCards
  <2>5. CASE ReportFalseExit(p)
    BY <1>0, <2>5 DEF ReportFalseExit, Quiet, Handlers, Replaces, OnCards
  <2>6. CASE ForceSyncVisit(p)
    <3> DEFINE hp == [x EXCEPT !.copy = visit, !.then = "force"]
    <3>1. hp \in Handlers /\ [hp EXCEPT !.pc = "forceFind"].pc = "forceFind"
      BY <1>0 DEF Handlers, TypeInv, RestOK
    <3>2. h' = [h EXCEPT ![p] = IF visit.ref # NoUser THEN Start(hp, "delete", visit.ref)
                                ELSE [hp EXCEPT !.pc = "forceFind"]]
      BY <1>0, <2>6 DEF ForceSyncVisit
    <3> HIDE DEF hp
    <3>. QED  BY <1>0, <3>1, <3>2, JobPc DEF Quiet, Jobs, Replaces, OnCards
  <2>7. CASE ForceReset(p)
    BY <1>0, <2>7 DEF ForceReset, Quiet, Handlers, Replaces, OnCards
  <2>8. CASE ForceFind(p)
    BY <1>0, <2>8 DEF ForceFind, Quiet, Handlers, Replaces, OnCards
  <2>9. CASE Save(p)
    <3> DEFINE hp == [x EXCEPT !.then = "done"]
    <3>1. hp \in Handlers /\ [x EXCEPT !.pc = "forceReset", !.then = "done"].pc = "forceReset"
      BY <1>0 DEF Handlers
    <3>2. h' \in {[h EXCEPT ![p] = w] : w \in {Start(hp, "sync", NoUser), Start(hp, "delete", x.copy.ref),
                                              Idle,
                                              [x EXCEPT !.pc = "forceReset", !.then = "done"]}}
      BY <1>0, <2>9 DEF Save
    <3> HIDE DEF hp
    <3>3. \A j \in {"sync", "delete"} : \A u : Start(hp, j, u).pc \notin Replaces \cup OnCards
      BY <3>1, JobPc DEF Jobs
    <3>. QED  BY <1>0, <3>1, <3>2, <3>3 DEF Quiet, Replaces, OnCards
  <2>10. CASE AfterSync(p)
    BY <1>0, <2>10 DEF AfterSync, Quiet
  <2>11. CASE DeleteFromConnection(p)
    <3>1. AtWork(x)
      BY <1>0, <2>11 DEF DeleteFromConnection, HandlerOK, OnServer
    <3>. QED  BY <1>0, <2>11, <3>1, JobPc DEF DeleteFromConnection, Quiet
  <2>12. CASE AfterDelete(p)
    BY <1>0, <2>12 DEF AfterDelete, Quiet, Handlers, Replaces, OnCards
  <2>. QED  BY <2>1, <2>2, <2>3, <2>4, <2>5, <2>6, <2>7, <2>8, <2>9, <2>10, <2>11, <2>12
            DEF VisitStep
<1>. QED  BY <1>1

\* ... so that it leaves the QR codes alone, ...
LEMMA QuietVisitStep ==
    ASSUME TypeInv, QrInv, NEW p \in Requests, VisitStep(p)
    PROVE  QrInv'
<1>1. raced' = raced /\ qr' = qr /\ Active' = Active
  BY DEF VisitStep, CheckInVisit, ResetCards, TemporaryReenableVisit, CheckoutVisit,
         ReportFalseExit, ForceSyncVisit, ForceReset, ForceFind, Save, AfterSync,
         DeleteFromConnection, AfterDelete, Enter, rows, met, Active
<1>. QED  BY <1>1, VisitStepLeads, QuietStep

\* ... as does a call to a server.
LEMMA QuietServerStep ==
    ASSUME TypeInv, QrInv, NEW p \in Requests, ServerStep(p)
    PROVE  QrInv'
<1> DEFINE x == h[p]
<1>0. x \in Handlers /\ HandlerOK(x) /\ h \in [Requests -> Handlers]
  BY DEF TypeInv
<1>1. raced' = raced /\ qr' = qr /\ Active' = Active
  BY DEF ServerStep, CreateUser, ReadCardKey, DropOldQr, PostQr, GetQr, PutQr, SetCardKey,
         FindCards, PostCard, GetCards, PutCard, VerifyCard, SaveCard, rows, met, Active
<1>2. AtWork(x)
  BY <1>0 DEF ServerStep, CreateUser, ReadCardKey, DropOldQr, PostQr, GetQr, PutQr, SetCardKey,
              FindCards, PostCard, GetCards, PutCard, VerifyCard, SaveCard, OnServer, HandlerOK
<1>3. /\ NextConn(x).pc \notin Replaces /\ AfterQr(x).pc \notin Replaces
      /\ NextCard(x).pc \notin Replaces
  BY <1>0, <1>2, JobPc
<1>4. Quiet(p)
  <2>1. CASE CreateUser(p)
    BY <1>0, <1>3, <2>1 DEF CreateUser, Quiet, Handlers, Replaces
  <2>2. CASE ReadCardKey(p)
    BY <1>0, <1>3, <2>2 DEF ReadCardKey, Quiet, Handlers, Replaces
  <2>3. CASE DropOldQr(p)
    BY <1>0, <2>3 DEF DropOldQr, Quiet, Handlers, Replaces
  <2>4. CASE PostQr(p)
    BY <1>0, <1>3, <2>4 DEF PostQr, Quiet, Handlers, Replaces
  <2>5. CASE GetQr(p)
    BY <1>0, <1>3, <2>5 DEF GetQr, Quiet, Handlers, Replaces
  <2>6. CASE PutQr(p)
    BY <1>0, <1>3, <2>6 DEF PutQr, Quiet, Handlers, Replaces
  <2>7. CASE SetCardKey(p)
    BY <1>0, <1>3, <2>7 DEF SetCardKey, Quiet
  <2>8. CASE FindCards(p)
    <3> DEFINE found == {k \in Cards : card[k].sync = "PENDING"}
               y == [x EXCEPT !.todo = found, !.stale = {k \in found : card[k].revoked}]
    <3>1. h' \in {[h EXCEPT ![p] = NextConn(x)], [h EXCEPT ![p] = NextCard(y)]}
      BY <1>0, <2>8 DEF FindCards
    <3>2. found \in SUBSET Badges /\ {k \in found : card[k].revoked} \in SUBSET Cards
      BY DEF Badges
    <3>3. /\ y \in Handlers /\ y.conns = x.conns /\ y.job = x.job /\ y.qr = x.qr
          /\ y.user = x.user
      BY <1>0, <3>2 DEF Handlers
    <3> HIDE DEF y, found
    <3>4. NextCard(y).pc \notin Replaces
      BY <1>2, <3>3, JobPc DEF AtWork
    <3>. QED  BY <1>0, <1>3, <3>1, <3>4 DEF Quiet
  <2>9. CASE PostCard(p)
    BY <1>0, <2>9 DEF PostCard, Quiet, Handlers, Replaces
  <2>10. CASE GetCards(p)
    BY <1>0, <2>10 DEF GetCards, Quiet, Handlers, Replaces
  <2>11. CASE PutCard(p)
    BY <1>0, <2>11 DEF PutCard, Quiet, Handlers, Replaces
  <2>12. CASE VerifyCard(p)
    BY <1>0, <2>12 DEF VerifyCard, Quiet, Handlers, Replaces
  <2>13. CASE SaveCard(p)
    BY <1>0, <1>3, <2>13 DEF SaveCard, Quiet
  <2>. QED  BY <2>1, <2>2, <2>3, <2>4, <2>5, <2>6, <2>7, <2>8, <2>9, <2>10, <2>11, <2>12, <2>13
            DEF ServerStep
<1>. QED  BY <1>1, <1>4, QuietStep

\* The replacement itself, and the other requests.
LEMMA RequestStepQr ==
    ASSUME TypeInv, QrInv, NEW p \in Requests, RequestStep(p)
    PROVE  QrInv'
<1> DEFINE x == h[p]
<1>0. /\ x \in Handlers /\ HandlerOK(x) /\ h \in [Requests -> Handlers] /\ Idle \in Handlers
      /\ qr \in [Qrs -> {"none", "active", "revoked"}] /\ Idle.pc \notin Replaces
  BY IdleOK DEF TypeInv, RestOK, HandlerOK, Idle, Replaces
<1>1. ASSUME NEW then \in {"rotate", "done"}, ReplaceQr(p, then) PROVE QrInv'
  <2>1. h'[p].pc = "findQr" /\ \A q \in Requests \ {p} : h'[q] = h[q]
    BY <1>0, <1>1 DEF ReplaceQr, Handlers
  <2>2. Active' = Active /\ (raced' <=> raced \/ \E q \in Requests : Replacing(q))
    BY <1>1 DEF ReplaceQr, Active, rows
  <2>3. ~raced' => \A q \in Requests \ {p} : ~Replacing(q)'
    BY <2>1, <2>2 DEF Replacing
  <2>. QED  BY <2>1, <2>2, <2>3 DEF QrInv, Replacing
<1>2. CASE FindQr(p)
  <2>1. /\ h'[p].pc = IF LatestQr = 0 THEN "issueQr" ELSE "revokeQr"
        /\ h'[p].old = LatestQr
        /\ \A q \in Requests \ {p} : h'[q] = h[q]
    BY <1>0, <1>2 DEF FindQr, Handlers
  <2>2. Active' = Active /\ raced' = raced /\ Replacing(p)
    BY <1>2 DEF FindQr, Active, Replacing, rows, met
  <2>3. ~raced => \A q \in Requests \ {p} : ~Replacing(q)'
    BY <2>1, <2>2 DEF QrInv, Replacing
  <2>. QED  BY <2>1, <2>2, <2>3, LatestQrOK DEF QrInv, Replacing
<1>3. CASE RevokeOldQr(p)
  <2>1. /\ h'[p].pc = "issueQr"
        /\ \A q \in Requests \ {p} : h'[q] = h[q]
    BY <1>0, <1>3 DEF RevokeOldQr, Handlers
  <2>2. raced' = raced /\ Replacing(p) /\ x.pc = "revokeQr"
    BY <1>3 DEF RevokeOldQr, Replacing, met
  <2>3. Active' = Active \ {x.old}
    BY <1>0, <1>3 DEF RevokeOldQr, Active
  <2>4. ~raced => Active' = {} /\ \A q \in Requests \ {p} : ~Replacing(q)'
    BY <2>1, <2>2, <2>3 DEF QrInv, Replacing
  <2>. QED  BY <2>1, <2>2, <2>4 DEF QrInv, Replacing
<1>4. CASE IssueQr(p)
  <2>1. PICK i \in Qrs :
            /\ qr' = [qr EXCEPT ![i] = "active"]
            /\ h' = [h EXCEPT ![p] = IF x.then = "rotate" /\ Admitted(x.copy)
                                     THEN Start([Idle EXCEPT !.qr = i], "rotate", x.copy.ref)
                                     ELSE Idle]
    BY <1>4 DEF IssueQr
  <2>2. Quiet(p)
    <3> DEFINE y == [Idle EXCEPT !.qr = i]
    <3>1. y \in Handlers
      <4>1. i \in 0..MaxQrs
        BY CredentialsAssumption DEF Qrs
      <4>. QED  BY <1>0, <4>1 DEF Handlers
    <3> HIDE DEF y
    <3>2. Start(y, "rotate", x.copy.ref).pc \notin Replaces
      BY <3>1, JobPc DEF Jobs
    <3>3. h' \in {[h EXCEPT ![p] = Start(y, "rotate", x.copy.ref)], [h EXCEPT ![p] = Idle]}
      BY <2>1 DEF y
    <3>. QED  BY <1>0, <3>2, <3>3 DEF Quiet
  <2>3. Active' = Active \cup {i}
    BY <1>0, <2>1 DEF Active
  <2>4. raced' = raced /\ Replacing(p) /\ x.pc = "issueQr"
    BY <1>4 DEF IssueQr, Enter, Replacing, met
  <2>5. ~raced => Active = {} /\ \A q \in Requests : ~Replacing(q)'
    BY <2>2, <2>4 DEF QrInv, Replacing, Quiet, Replaces
  <2>. QED  BY <2>3, <2>4, <2>5 DEF QrInv, Replacing
<1>5. CASE GetQrForPortal(p)
  <2>1. Quiet(p) /\ raced' = raced /\ Active' = Active
    BY <1>0, <1>5 DEF GetQrForPortal, Quiet, Handlers, Replaces, Active, rows, met
  <2>. QED  BY <2>1, QuietStep
<1>6. CASE PortalFind(p)
  <2>1. Quiet(p) /\ raced' = raced /\ Active' = Active
    BY <1>0, <1>6 DEF PortalFind, Quiet, Handlers, Replaces, Active, rows, met
  <2>. QED  BY <2>1, QuietStep
<1>7. CASE CheckFlag(p)
  <2>1. Quiet(p) /\ raced' = raced /\ Active' = Active
    BY <1>0, <1>7 DEF CheckFlag, Quiet, Handlers, Replaces, Active, rows, met
  <2>. QED  BY <2>1, QuietStep
<1>8. CASE SetFlag(p)
  <2>1. Quiet(p)
    BY <1>0, <1>8, JobPc DEF SetFlag, Quiet, Jobs
  <2>2. raced' = raced /\ Active' = Active
    BY <1>8 DEF SetFlag, Enter, Active, rows
  <2>. QED  BY <2>1, <2>2, QuietStep
<1>9. ASSUME NEW k \in Cards, AddCard(p, k) PROVE QrInv'
  <2>1. Quiet(p) /\ raced' = raced /\ Active' = Active
    BY <1>0, <1>9 DEF AddCard, Quiet, Handlers, Replaces, Active, rows, met
  <2>. QED  BY <2>1, QuietStep
<1>10. CASE InsertCard(p)
  <2>1. Quiet(p)
    BY <1>0, <1>10, JobPc DEF InsertCard, Quiet, Jobs
  <2>2. raced' = raced /\ Active' = Active
    BY <1>10 DEF InsertCard, Enter, Active, met
  <2>. QED  BY <2>1, <2>2, QuietStep
<1>11. CASE BurnQrForUser(p)
  <2>1. Quiet(p) /\ raced' = raced /\ Active' = Active
    BY <1>0, <1>11 DEF BurnQrForUser, Quiet, Handlers, Replaces, Active, rows, met
  <2>. QED  BY <2>1, QuietStep
<1>12. CASE BurnNext(p)
  <2>1. Quiet(p)
    BY <1>0, <1>12 DEF BurnNext, Quiet, Handlers, Replaces
  <2>2. raced' = raced /\ Active' \subseteq Active
    BY <1>0, <1>12 DEF BurnNext, Active, met
  <2>. QED  BY <2>1, <2>2, QuietStep
<1>. QED  BY <1>1, <1>2, <1>3, <1>4, <1>5, <1>6, <1>7, <1>8, <1>9, <1>10, <1>11, <1>12
          DEF RequestStep, RefreshQrForPortal, AddQr

LEMMA QrInit == Init => QrInv
BY DEF Init, QrInv, Active, Idle, Replacing

LEMMA QrNext == TypeInv /\ QrInv /\ [Next]_vars => QrInv'
<1> SUFFICES ASSUME TypeInv, QrInv, [Next]_vars PROVE QrInv'
  OBVIOUS
<1>1. ASSUME h' = h, raced' = raced, Active' \subseteq Active PROVE QrInv'
  BY <1>1 DEF QrInv, Replacing
<1>2. CASE UNCHANGED vars
  BY <1>1, <1>2 DEF vars, Active
<1>3. CASE RevokeQr
  BY <1>1, <1>3 DEF RevokeQr, Active, TypeInv, RestOK, met
<1>4. CASE ExpireFlag \/ \E k \in Cards : RevokeCard(k)
  BY <1>1, <1>4 DEF ExpireFlag, RevokeCard, Active, rows, met
<1>5. CASE Crash
  <2>1. Active' = Active /\ raced' = raced /\ \A p \in Requests : h'[p].pc = "idle"
    BY <1>5 DEF Crash, Active, Idle, rows, met
  <2>. QED  BY <2>1 DEF QrInv, Replacing
<1>. QED  BY <1>2, <1>3, <1>4, <1>5, QuietVisitStep, QuietServerStep, RequestStepQr DEF Next

\* The visit never has two active QR codes, unless two requests replaced the code at
\* the same time, for any number of requests, servers, crashes and failing calls.
THEOREM OneQr == Spec => []OneActiveQr
<1>1. QrInv => OneActiveQr
  BY DEF QrInv, OneActiveQr
<1>. QED  BY InitOK, NextOK, QrInit, QrNext, <1>1, PTL DEF Spec

(***************************************************************************)
(* A revocation lasts.  A handler at work on the cards saves every card    *)
(* with the isRevoked it has read, so the invariant says that what it has  *)
(* read is still so, for the card at hand and for those it has left.       *)
(***************************************************************************)
Marked  == {k \in Cards : card[k].revoked}
Held(x) == IF x.pc = "postCard" THEN x.todo ELSE x.todo \cup {x.card}
Knows(x, marked) == x.pc \in OnCards => \A k \in Held(x) : k \in x.stale <=> k \in marked

CardInv == ~overlapped => \A p \in Requests : Knows(h[p], Marked)

\* What a step has to do with the cards: a revoked one stays so.
Lasts == ~overlapped' => Marked \subseteq Marked'

\* A step of handler p that marks no card and leaves none revoked that was not ...
LEMMA CardStep ==
    ASSUME CardInv, NEW p \in Requests, \A q \in Requests \ {p} : h'[q] = h[q],
           Marked' = Marked, overlapped => overlapped',
           ~overlapped => Knows(h'[p], Marked)
    PROVE  CardInv' /\ Lasts
BY DEF CardInv, Lasts

\* ... as when it is not at work on the cards afterwards.
LEMMA AwayStep ==
    ASSUME CardInv, NEW p \in Requests, Quiet(p), h'[p].pc \notin OnCards,
           Marked' = Marked, overlapped => overlapped'
    PROVE  CardInv' /\ Lasts
<1>1. Knows(h'[p], Marked)
  BY DEF Knows
<1>. QED  BY <1>1, CardStep DEF Quiet

\* The next card is one of those left.
LEMMA NextCardKnows ==
    ASSUME NEW x \in Handlers, AtWork(x), NEW marked,
           \A k \in x.todo : k \in x.stale <=> k \in marked
    PROVE  Knows(NextCard(x), marked)
<1> DEFINE next == [x EXCEPT !.card = NoCard, !.list = {}, !.linked = FALSE]
           y == [next EXCEPT !.pc = "postCard"]
<1>1. next \in Handlers /\ AtWork(next)
  <2>1. {} \in SUBSET Badges /\ NoCard \in Cards \cup {NoCard}
    OBVIOUS
  <2>2. /\ next \in Handlers /\ next.conns = x.conns /\ next.job = x.job /\ next.qr = x.qr
        /\ next.user = x.user
    BY <2>1 DEF Handlers
  <2> HIDE DEF next
  <2>. QED  BY <2>2 DEF AtWork
<1>2. y.pc = "postCard" /\ y.todo = x.todo /\ y.stale = x.stale
  BY DEF Handlers
<1>3. NextCard(x) \in {NextConn(next), y}
  BY DEF NextCard
<1> HIDE DEF next, y
<1>4. NextConn(next).pc \notin OnCards
  BY <1>1, JobPc
<1>. QED  BY <1>2, <1>3, <1>4 DEF Knows, Held

LEMMA CardVisitStep ==
    ASSUME TypeInv, CardInv, NEW p \in Requests, VisitStep(p)
    PROVE  CardInv' /\ Lasts
<1>1. card \in [Cards -> CardRows]
  BY DEF TypeInv, RestOK
<1>2. CASE ResetCards(p)
  <2>1. Marked' = Marked
    BY <1>1, <1>2 DEF ResetCards, Marked, CardRows
  <2>. QED  BY <1>2, <2>1, VisitStepLeads, AwayStep DEF ResetCards, met
<1>3. CASE ForceReset(p)
  <2>1. Marked' = Marked
    BY <1>1, <1>3 DEF ForceReset, Marked, CardRows
  <2>. QED  BY <1>3, <2>1, VisitStepLeads, AwayStep DEF ForceReset, met
<1>4. CASE \/ CheckInVisit(p) \/ TemporaryReenableVisit(p) \/ CheckoutVisit(p)
           \/ ReportFalseExit(p) \/ ForceSyncVisit(p) \/ ForceFind(p) \/ Save(p)
           \/ AfterSync(p) \/ DeleteFromConnection(p) \/ AfterDelete(p)
  <2>1. card' = card /\ (overlapped => overlapped')
    <3>1. CASE \/ CheckInVisit(p) \/ TemporaryReenableVisit(p)
               \/ CheckoutVisit(p) \/ ReportFalseExit(p)
      BY <3>1 DEF CheckInVisit, TemporaryReenableVisit, CheckoutVisit, ReportFalseExit,
                  Enter, rows
    <3>2. CASE ForceSyncVisit(p)
      BY <3>2, Zenon DEF ForceSyncVisit, Enter, rows
    <3>3. CASE Save(p) \/ AfterSync(p)
      BY <3>3 DEF Save, AfterSync, met
    <3>4. CASE DeleteFromConnection(p)
      BY <3>4 DEF DeleteFromConnection, rows, met
    <3>5. CASE AfterDelete(p)
      BY <3>5, Zenon DEF AfterDelete, rows, met
    <3>6. CASE ForceFind(p)
      BY <3>6, Zenon DEF ForceFind, rows, met
    <3>. QED  BY <1>4, <3>1, <3>2, <3>3, <3>4, <3>5, <3>6
  <2>. QED  BY <2>1, VisitStepLeads, AwayStep DEF Marked
<1>. QED  BY <1>2, <1>3, <1>4 DEF VisitStep

\* The calls to a server.
LEMMA CardServerStep ==
    ASSUME TypeInv, CardInv, NEW p \in Requests, ServerStep(p)
    PROVE  CardInv' /\ Lasts
<1> DEFINE x == h[p]
<1>0. /\ x \in Handlers /\ HandlerOK(x) /\ h \in [Requests -> Handlers]
      /\ card \in [Cards -> CardRows]
  BY DEF TypeInv, RestOK
<1>1. AtWork(x)
  BY <1>0 DEF ServerStep, CreateUser, ReadCardKey, DropOldQr, PostQr, GetQr, PutQr, SetCardKey,
              FindCards, PostCard, GetCards, PutCard, VerifyCard, SaveCard, OnServer, HandlerOK
<1>2. /\ NextConn(x).pc \notin Replaces \cup OnCards
      /\ AfterQr(x).pc \notin Replaces \cup OnCards
  BY <1>0, <1>1, JobPc
<1>3. overlapped' = overlapped /\ \A q \in Requests \ {p} : h'[q] = h[q]
  BY <1>0 DEF ServerStep, CreateUser, ReadCardKey, DropOldQr, PostQr, GetQr, PutQr, SetCardKey,
              FindCards, PostCard, GetCards, PutCard, VerifyCard, SaveCard, met
<1>4. ASSUME h'[p].pc \notin OnCards, card' = card PROVE CardInv' /\ Lasts
  <2>1. Knows(h'[p], Marked)
    BY <1>4 DEF Knows
  <2>. QED  BY <1>3, <1>4, <2>1, CardStep DEF Marked
<1>5. CASE CreateUser(p) \/ ReadCardKey(p) \/ DropOldQr(p)
  <2>1. h'[p].pc \notin OnCards
    <3>1. CASE CreateUser(p)
      BY <1>0, <1>2, <3>1 DEF CreateUser, Handlers, OnCards
    <3>2. CASE ReadCardKey(p)
      BY <1>0, <1>2, <3>2 DEF ReadCardKey, Handlers, OnCards
    <3>3. CASE DropOldQr(p)
      BY <1>0, <3>3 DEF DropOldQr, Handlers, OnCards
    <3>. QED  BY <1>5, <3>1, <3>2, <3>3
  <2>. QED  BY <1>4, <1>5, <2>1 DEF CreateUser, ReadCardKey, DropOldQr, rows
<1>6. CASE PostQr(p) \/ GetQr(p) \/ PutQr(p) \/ SetCardKey(p)
  <2>1. h'[p].pc \notin OnCards
    <3>1. CASE PostQr(p)
      BY <1>0, <1>2, <3>1 DEF PostQr, Handlers, OnCards
    <3>2. CASE GetQr(p)
      BY <1>0, <1>2, <3>2 DEF GetQr, Handlers, OnCards
    <3>3. CASE PutQr(p)
      BY <1>0, <1>2, <3>3 DEF PutQr, Handlers, OnCards
    <3>4. CASE SetCardKey(p)
      BY <1>0, <1>2, <3>4 DEF SetCardKey, Handlers, OnCards
    <3>. QED  BY <1>6, <3>1, <3>2, <3>3, <3>4
  <2>. QED  BY <1>4, <1>6, <2>1 DEF PostQr, GetQr, PutQr, SetCardKey, rows
<1>7. CASE FindCards(p)
  <2> DEFINE found == {k \in Cards : card[k].sync = "PENDING"}
             y == [x EXCEPT !.todo = found, !.stale = {k \in found : card[k].revoked}]
  <2>1. h' \in {[h EXCEPT ![p] = NextConn(x)], [h EXCEPT ![p] = NextCard(y)]}
    BY <1>0, <1>7 DEF FindCards
  <2>2. found \in SUBSET Badges /\ {k \in found : card[k].revoked} \in SUBSET Cards
    BY DEF Badges
  <2>3. /\ y \in Handlers /\ y.conns = x.conns /\ y.job = x.job /\ y.qr = x.qr
        /\ y.user = x.user /\ y.todo = found /\ y.stale = {k \in found : card[k].revoked}
    BY <1>0, <2>2 DEF Handlers
  <2>4. \A k \in y.todo : k \in y.stale <=> k \in Marked
    BY <2>3 DEF Marked
  <2> HIDE DEF y, found
  <2>5. Knows(NextCard(y), Marked)
    BY <1>1, <2>3, <2>4, NextCardKnows DEF AtWork
  <2>6. Knows(NextConn(x), Marked)
    BY <1>2 DEF Knows
  <2>7. Knows(h'[p], Marked)
    BY <1>0, <2>1, <2>5, <2>6
  <2>8. Marked' = Marked
    BY <1>7 DEF FindCards, Marked, rows
  <2>. QED  BY <1>3, <2>7, <2>8, CardStep
<1>8. CASE PostCard(p) \/ GetCards(p) \/ PutCard(p) \/ VerifyCard(p)
  <2>1. /\ x.pc \in OnCards /\ h'[p].stale = x.stale /\ Held(h'[p]) \subseteq Held(x)
    <3>1. CASE PostCard(p)
      BY <1>0, <3>1 DEF PostCard, Held, Handlers, OnCards
    <3>2. CASE GetCards(p)
      BY <1>0, <3>2 DEF GetCards, Held, Handlers, OnCards
    <3>3. CASE PutCard(p)
      BY <1>0, <3>3 DEF PutCard, Held, Handlers, OnCards
    <3>4. CASE VerifyCard(p)
      BY <1>0, <3>4 DEF VerifyCard, Held, Handlers, OnCards
    <3>. QED  BY <1>8, <3>1, <3>2, <3>3, <3>4
  <2>2. ~overlapped => Knows(h'[p], Marked)
    BY <2>1 DEF CardInv, Knows
  <2>3. Marked' = Marked
    BY <1>8 DEF PostCard, GetCards, PutCard, VerifyCard, Marked, rows
  <2>. QED  BY <1>3, <2>2, <2>3, CardStep
<1>9. CASE SaveCard(p)
  <2>1. x.pc = "saveCard" /\ x.card \in Cards /\ h' = [h EXCEPT ![p] = NextCard(x)]
    BY <1>0, <1>9 DEF SaveCard, HandlerOK, OnCard
  <2>2. ~overlapped => \A k \in x.todo \cup {x.card} : k \in x.stale <=> k \in Marked
    BY <2>1 DEF CardInv, Knows, Held, OnCards
  <2>3. ~overlapped => Marked' = Marked
    <3>1. \A k \in Cards : card'[k].revoked = IF k = x.card THEN x.card \in x.stale
                                               ELSE card[k].revoked
      BY <1>0, <1>9, <2>1 DEF SaveCard, CardRows
    <3>. QED  BY <2>1, <2>2, <3>1 DEF Marked
  <2>4. ~overlapped => Knows(h'[p], Marked)
    BY <1>0, <1>1, <2>1, <2>2, NextCardKnows
  <2>5. CASE overlapped
    BY <1>3, <2>5 DEF CardInv, Lasts
  <2>6. CASE ~overlapped
    BY <1>3, <2>3, <2>4, <2>6, CardStep
  <2>. QED  BY <2>5, <2>6
<1>. QED  BY <1>5, <1>6, <1>7, <1>8, <1>9 DEF ServerStep

LEMMA CardRequestStep ==
    ASSUME TypeInv, CardInv, NEW p \in Requests, RequestStep(p)
    PROVE  CardInv' /\ Lasts
<1> DEFINE x == h[p]
<1>0. /\ x \in Handlers /\ HandlerOK(x) /\ h \in [Requests -> Handlers] /\ Idle \in Handlers
      /\ card \in [Cards -> CardRows] /\ Idle.pc \notin OnCards
  BY IdleOK DEF TypeInv, RestOK, HandlerOK, Idle, OnCards
<1>1. ASSUME NEW then \in {"rotate", "done"}, ReplaceQr(p, then)
      PROVE  h'[p].pc \notin OnCards /\ \A q \in Requests \ {p} : h'[q] = h[q]
  BY <1>0, <1>1 DEF ReplaceQr, Handlers, OnCards
<1>2. h'[p].pc \notin OnCards /\ \A q \in Requests \ {p} : h'[q] = h[q]
  <2>1. CASE FindQr(p) \/ RevokeOldQr(p) \/ GetQrForPortal(p) \/ BurnQrForUser(p) \/ BurnNext(p)
    BY <1>0, <2>1 DEF FindQr, RevokeOldQr, GetQrForPortal, BurnQrForUser, BurnNext,
                      Handlers, OnCards
  <2>2. CASE PortalFind(p) \/ CheckFlag(p) \/ \E k \in Cards : AddCard(p, k)
    <3>1. CASE PortalFind(p)
      BY <1>0, <3>1 DEF PortalFind, Handlers, OnCards
    <3>2. CASE CheckFlag(p)
      BY <1>0, <3>2 DEF CheckFlag, Handlers, OnCards
    <3>3. ASSUME NEW k \in Cards, AddCard(p, k)
          PROVE  h'[p].pc \notin OnCards /\ \A q \in Requests \ {p} : h'[q] = h[q]
      BY <1>0, <3>3 DEF AddCard, Handlers, OnCards
    <3>. QED  BY <2>2, <3>1, <3>2, <3>3
  <2>3. CASE IssueQr(p)
    <3>1. PICK i \in Qrs :
              h' = [h EXCEPT ![p] = IF x.then = "rotate" /\ Admitted(x.copy)
                                    THEN Start([Idle EXCEPT !.qr = i], "rotate", x.copy.ref)
                                     ELSE Idle]
      BY <2>3 DEF IssueQr
    <3> DEFINE y == [Idle EXCEPT !.qr = i]
    <3>2. y \in Handlers
      <4>1. i \in 0..MaxQrs
        BY CredentialsAssumption DEF Qrs
      <4>. QED  BY <1>0, <4>1 DEF Handlers
    <3>3. h' \in {[h EXCEPT ![p] = Start(y, "rotate", x.copy.ref)], [h EXCEPT ![p] = Idle]}
      BY <3>1
    <3> HIDE DEF y
    <3>4. Start(y, "rotate", x.copy.ref).pc \notin OnCards
      BY <3>2, JobPc DEF Jobs
    <3>. QED  BY <1>0, <3>3, <3>4
  <2>4. CASE SetFlag(p)
    BY <1>0, <2>4, JobPc DEF SetFlag, Jobs
  <2>5. CASE InsertCard(p)
    BY <1>0, <2>5, JobPc DEF InsertCard, Jobs
  <2>. QED  BY <1>1, <2>1, <2>2, <2>3, <2>4, <2>5 DEF RequestStep, RefreshQrForPortal, AddQr
<1>3. overlapped => overlapped'
  BY DEF RequestStep, RefreshQrForPortal, AddQr, ReplaceQr, FindQr, RevokeOldQr, IssueQr,
         GetQrForPortal, PortalFind, CheckFlag, SetFlag, AddCard, InsertCard, BurnQrForUser,
         BurnNext, Enter, met
<1>4. Marked' = Marked
  <2>1. CASE InsertCard(p)
    BY <1>0, <2>1 DEF InsertCard, Marked, CardRows
  <2>2. CASE ~InsertCard(p)
    BY <2>2 DEF RequestStep, RefreshQrForPortal, AddQr, ReplaceQr, FindQr, RevokeOldQr, IssueQr,
                GetQrForPortal, PortalFind, CheckFlag, SetFlag, AddCard, BurnQrForUser,
                BurnNext, Marked, rows
  <2>. QED  BY <2>1, <2>2
<1>5. Knows(h'[p], Marked)
  BY <1>2 DEF Knows
<1>. QED  BY <1>2, <1>3, <1>4, <1>5, CardStep

LEMMA CardNext == TypeInv /\ CardInv /\ [Next]_vars => CardInv' /\ Lasts
<1> SUFFICES ASSUME TypeInv, CardInv, [Next]_vars PROVE CardInv' /\ Lasts
  OBVIOUS
<1>1. ASSUME h' = h, Marked' = Marked, overlapped' = overlapped PROVE CardInv' /\ Lasts
  BY <1>1 DEF CardInv, Lasts
<1>2. CASE UNCHANGED vars
  BY <1>1, <1>2 DEF vars, Marked
<1>3. CASE RevokeQr \/ ExpireFlag
  BY <1>1, <1>3 DEF RevokeQr, ExpireFlag, Marked, rows, met
<1>4. CASE Crash
  BY <1>4 DEF Crash, CardInv, Lasts, Knows, Marked, Idle, OnCards, rows, met
<1>5. ASSUME NEW k \in Cards, RevokeCard(k) PROVE CardInv' /\ Lasts
  <2>1. Marked' = Marked \cup {k} /\ h' = h
    BY <1>5 DEF RevokeCard, Marked, TypeInv, RestOK, CardRows
  <2>2. ~overlapped' => \A p \in Requests : h[p].pc \notin OnCards
    BY <1>5 DEF RevokeCard, Working, OnCards
  <2>. QED  BY <2>1, <2>2 DEF CardInv, Lasts, Knows
<1>. QED  BY <1>2, <1>3, <1>4, <1>5, CardVisitStep, CardServerStep, CardRequestStep DEF Next

\* No step makes a revoked QR code active again: a code is issued where there was none.
LEMMA QrRevocationLasts ==
    TypeInv /\ [Next]_vars => \A i \in Qrs : qr[i] = "revoked" => qr'[i] = "revoked"
<1> SUFFICES ASSUME TypeInv, [Next]_vars, NEW i \in Qrs, qr[i] = "revoked"
             PROVE  qr'[i] = "revoked"
  OBVIOUS
<1>0. qr \in [Qrs -> {"none", "active", "revoked"}]
  BY DEF TypeInv, RestOK
<1>1. CASE UNCHANGED vars \/ RevokeQr \/ ExpireFlag \/ Crash \/ \E k \in Cards : RevokeCard(k)
  BY <1>0, <1>1 DEF vars, RevokeQr, ExpireFlag, Crash, RevokeCard, rows
<1>2. ASSUME NEW p \in Requests, VisitStep(p) \/ ServerStep(p) PROVE qr' = qr
  <2>1. CASE VisitStep(p)
    BY <2>1 DEF VisitStep, CheckInVisit, ResetCards, TemporaryReenableVisit, CheckoutVisit,
                ReportFalseExit, ForceSyncVisit, ForceReset, ForceFind, Save, AfterSync,
                DeleteFromConnection, AfterDelete, rows
  <2>2. CASE ServerStep(p)
    BY <2>2 DEF ServerStep, CreateUser, ReadCardKey, DropOldQr, PostQr, GetQr, PutQr, SetCardKey,
                FindCards, PostCard, GetCards, PutCard, VerifyCard, SaveCard, rows
  <2>. QED  BY <1>2, <2>1, <2>2
<1>3. ASSUME NEW p \in Requests, RequestStep(p) PROVE qr'[i] = "revoked"
  <2>1. CASE RevokeOldQr(p) \/ IssueQr(p) \/ BurnNext(p)
    BY <1>0, <2>1 DEF RevokeOldQr, IssueQr, BurnNext
  <2>2. CASE ~RevokeOldQr(p) /\ ~IssueQr(p) /\ ~BurnNext(p)
    BY <1>3, <2>2 DEF RequestStep, RefreshQrForPortal, AddQr, ReplaceQr, FindQr, GetQrForPortal,
                      PortalFind, CheckFlag, SetFlag, AddCard, InsertCard, BurnQrForUser, rows
  <2>. QED  BY <2>1, <2>2
<1>. QED  BY <1>1, <1>2, <1>3 DEF Next

\* A credential that was revoked stays revoked, for any handlers, servers and cards and
\* whatever fails, unless its revocation overlapped work on the cards.
THEOREM RevocationIsKept == Spec => RevocationLasts
<1>1. Init => CardInv
  BY DEF Init, CardInv, Knows, Idle, OnCards
<1>2. TypeInv /\ CardInv /\ [Next]_vars =>
        [/\ \A i \in Qrs : qr[i] = "revoked" => qr'[i] = "revoked"
         /\ ~overlapped' => \A k \in Cards : card[k].revoked => card'[k].revoked]_vars
  BY CardNext, QrRevocationLasts DEF Lasts, Marked
<1>. QED  BY InitOK, NextOK, <1>1, CardNext, <1>2, PTL DEF Spec, RevocationLasts

(***************************************************************************)
(* What the servers know.  QrCardTracked and SyncedCardOpens speak of a    *)
(* time when no handler is at work; in between, the one that is knows more *)
(* than the rows and Redis do.  As long as no two handlers were at work at *)
(* once and nothing went wrong, the user on every server is accounted for: *)
(* by the rows and Redis, or by the handler, at each of its program        *)
(* counters.                                                               *)
(***************************************************************************)
Calm == ~overlapped /\ faults = 0
Works(x) == x.pc \notin {"idle", "findQr", "revokeQr", "issueQr", "portal", "exists",
                         "flag", "insertCard", "burn"}

\* A card of a user is registered, and only a user has cards.
ListsOK == \A c \in Conns : /\ server[c].list \subseteq server[c].cards
                            /\ ~server[c].user => server[c].list = {}

\* On servers of one kind: the QR card on server c is the one in Redis; the servers C
\* have no user.  On any: no card is SYNCED; every SYNCED card opens doors.
QrsOf(c)    == server[c].list \cap Qrs
Tracked(c)  == OneKind => QrsOf(c) \subseteq {key[c]}
NoQrOn(c)   == OneKind => QrsOf(c) = {}
NoUserOn(C) == OneKind => \A c \in C : ~server[c].user
NoneSynced  == \A k \in Cards : card[k].sync # "SYNCED"
SyncedOpens == \A k \in Cards : card[k].sync = "SYNCED" => \E c \in Conns : k \in server[c].list

\* The visit's row accounts for the users and the cards.
RowAccounts == /\ visit.ref = NoUser => NoUserOn(Conns)
               /\ visit.status = "CHECKED_IN" => visit.ref # NoUser
               /\ visit.status = "CHECKED_OUT" => visit.ref = NoUser
               /\ Admitted(visit) /\ ~renewed => SyncedOpens

\* What handler x at work knows of the lists, ...
ListKnown(x) ==
    LET c == First(x.conns) IN
    /\ \A d \in Conns : IF x.pc = "setKey" /\ d = c THEN OneKind => QrsOf(d) \subseteq {x.qr}
                         ELSE Tracked(d)
    /\ x.pc = "dropQr" => (OneKind => x.old = key[c])
    /\ x.pc \in {"postQr", "getQr", "putQr"} => NoQrOn(c)
    /\ x.pc \in {"putQr", "putCard"} /\ x.user = UserIdOn(c) => x.list = server[c].list
    /\ x.pc \in {"getCards", "putCard"} => ~x.linked
    /\ x.pc = "saveCard" /\ x.linked => x.card \in server[c].list

\* ... of the users when it has the visit's entity to save, ...
EntityKnown(x) ==
    /\ x.pc \in {"reset", "save", "forceReset", "forceFind"} =>
         (x.copy.ref = NoUser => NoUserOn(Conns))
    /\ x.pc \in {"reset", "forceReset", "forceFind"} => x.copy.status # "CHECKED_OUT"
    /\ x.pc = "reset" => x.then = "sync" /\ x.qr = 0
    /\ x.pc \in {"forceReset", "forceFind"} => x.copy.ref = NoUser
    /\ x.pc = "forceFind" => NoneSynced
    /\ x.pc = "save" =>
         /\ x.then \in {"done", "checkout", "sync", "force"}
         /\ x.then = "sync" => (x.qr = 0 \/ x.copy.ref = NoUser) /\ (renewed \/ NoneSynced)
         /\ x.then = "force" => x.copy.ref = NoUser
         /\ x.then \in {"done", "checkout"} => x.copy.status # "CHECKED_IN"
         /\ x.then # "checkout" /\ x.copy.status = "CHECKED_OUT" => x.copy.ref = NoUser /\ x.then = "done"

\* ... and in a job j, with the connections C before it.
JobOn(j, x, C) ==
    /\ j = "sync" => /\ OneKind /\ x.qr # 0 => \A c \in C : server[c].list = {}
                     /\ renewed \/ SyncedOpens
                     /\ x.copy.status # "CHECKED_OUT"
    /\ j = "delete" => /\ NoUserOn(Conns \ C)
                       /\ \/ x.then = "force" /\ x.copy.status # "CHECKED_OUT"
                          \/ /\ x.then = "done" /\ x.copy.status # "CHECKED_IN"
                             /\ visit.status # "CHECKED_IN"
    /\ j \in {"rotate", "push"} => RowAccounts

Left(x) == IF x.pc \in {"create", "deleteUser"} THEN x.conns ELSE x.conns \ {First(x.conns)}
JobKnown(x) ==
    /\ x.pc \in OnServer =>
         /\ JobOn(x.job, x, Left(x))
         /\ x.pc = "create" => x.job = "sync"
         /\ x.pc = "deleteUser" <=> x.job = "delete"
         /\ x.job = "sync" /\ x.pc # "create" => x.user # NoUser
    /\ x.pc = "synced" => x.user # NoUser /\ JobOn("sync", x, {})
    /\ x.pc = "deleted" => JobOn("delete", x, {})

WorkKnown(x) == ListKnown(x) /\ EntityKnown(x) /\ JobKnown(x)
RestKnown == (\A c \in Conns : Tracked(c)) /\ RowAccounts
Known(x) == IF Works(x) THEN WorkKnown(x) ELSE RestKnown

ServerInv ==
    Calm => /\ ListsOK
            /\ \A p, q \in Requests : Works(h[p]) /\ Works(h[q]) => p = q
            /\ \A p \in Requests : h[p].pc = "idle" => h[p] = Idle
            /\ \A p \in Requests : Works(h[p]) => WorkKnown(h[p])
            /\ (\A p \in Requests : ~Works(h[p])) => RestKnown

\* A step that leaves the servers, the visit and Redis alone, and makes no card SYNCED.
FewerSynced == \A k \in Cards : card'[k].sync = "SYNCED" => card[k].sync = "SYNCED"
ServersSame == visit' = visit /\ server' = server /\ key' = key /\ renewed' = renewed

\* A step that only makes cards PENDING changes nothing of what is known.
LEMMA SameKnown ==
    ASSUME ServersSame, FewerSynced
    PROVE  /\ RestKnown => RestKnown'
           /\ \A x \in Handlers : WorkKnown(x) => WorkKnown(x)'
           /\ ListsOK => ListsOK'
<1>1. /\ SyncedOpens => SyncedOpens'
      /\ NoneSynced => NoneSynced'
      /\ \A C \in SUBSET Conns : NoUserOn(C) => NoUserOn(C)'
      /\ NoUserOn(Conns) => NoUserOn(Conns)'
      /\ \A c \in Conns : Tracked(c)' <=> Tracked(c)
  BY DEF ServersSame, FewerSynced, SyncedOpens, NoneSynced, NoUserOn, Tracked, QrsOf
<1>2. RowAccounts => RowAccounts'
  BY <1>1 DEF ServersSame, RowAccounts, Admitted
<1>3. ASSUME NEW x \in Handlers, WorkKnown(x) PROVE WorkKnown(x)'
  <2>1. ListKnown(x)'
    <3>1. PICK c : c = First(x.conns)
      OBVIOUS
    <3>2. ListKnown(x)
      BY <1>3 DEF WorkKnown
    <3>3. \A d \in Conns : IF x.pc = "setKey" /\ d = c
                             THEN OneKind => QrsOf(d)' \subseteq {x.qr} ELSE Tracked(d)'
      BY <1>1, <3>1, <3>2 DEF ServersSame, ListKnown, QrsOf
    <3>4. (NoQrOn(c) => NoQrOn(c)') /\ server' = server /\ key' = key
      BY DEF ServersSame, NoQrOn, QrsOf
    <3>. QED  BY <3>1, <3>2, <3>3, <3>4 DEF ListKnown
  <2>2. EntityKnown(x)'
    BY <1>1, <1>3 DEF ServersSame, WorkKnown, EntityKnown
  <2>3. ASSUME NEW C \in SUBSET Conns, NEW j, JobOn(j, x, C) PROVE JobOn(j, x, C)'
    BY <1>1, <1>2, <2>3 DEF ServersSame, JobOn, NoUserOn
  <2>4. {} \in SUBSET Conns /\ Left(x) \in SUBSET Conns
    BY DEF Left, Handlers
  <2>5. JobKnown(x)'
    <3>1. PICK C \in SUBSET Conns : C = Left(x)
      BY <2>4
    <3>2. JobOn(x.job, x, C) => JobOn(x.job, x, C)'
      BY <2>3
    <3>3. JobOn("sync", x, {}) => JobOn("sync", x, {})'
      BY <2>3, <2>4
    <3>4. JobOn("delete", x, {}) => JobOn("delete", x, {})'
      BY <2>3, <2>4
    <3>. QED  BY <1>3, <3>1, <3>2, <3>3, <3>4 DEF WorkKnown, JobKnown
  <2>. QED  BY <2>1, <2>2, <2>5 DEF WorkKnown
<1>4. ListsOK => ListsOK'
  BY DEF ServersSame, ListsOK
<1>. QED  BY <1>1, <1>2, <1>3, <1>4 DEF RestKnown

\* Three kinds of steps.  A handler that is not at work does something else, ...
LEMMA AsideKnows ==
    ASSUME TypeInv, ServerInv, NEW p \in Requests, NEW y, h' = [h EXCEPT ![p] = y],
           ~Works(h[p]), ~Works(y), y.pc = "idle" => y = Idle, Calm' => Calm,
           ServersSame, FewerSynced
    PROVE  ServerInv'
<1>0. h \in [Requests -> Handlers]
  BY DEF TypeInv
<1>1. h'[p] = y /\ \A q \in Requests \ {p} : h'[q] = h[q]
  BY <1>0
<1>2. \A q \in Requests : Works(h'[q]) => h'[q] = h[q] /\ Works(h[q])
  BY <1>1
<1>3. (\A q \in Requests : ~Works(h'[q])) => \A q \in Requests : ~Works(h[q])
  BY <1>1
<1>4. \A q \in Requests : h'[q].pc = "idle" => h'[q] = Idle \/ h'[q] = h[q]
  BY <1>1
<1>5. CASE Calm
  <2>1. \A q \in Requests : Works(h'[q]) => WorkKnown(h[q])'
    <3> SUFFICES ASSUME NEW q \in Requests, Works(h'[q]) PROVE WorkKnown(h[q])'
      OBVIOUS
    <3>1. PICK x \in Handlers : x = h[q] /\ x = h'[q]
      BY <1>0, <1>2
    <3>2. WorkKnown(x)
      BY <1>2, <1>5, <3>1 DEF ServerInv
    <3>3. WorkKnown(x)'
      BY <3>2, SameKnown
    <3>. QED  BY <3>1, <3>3
  <2>2. (\A q \in Requests : ~Works(h[q]))' => RestKnown'
    BY <1>3, <1>5, SameKnown DEF ServerInv, Works
  <2>3. ListsOK'
    BY <1>5, SameKnown DEF ServerInv
  <2>4. (\A q \in Requests : Works(h[q]) => WorkKnown(h[q]))'
    BY <2>1 DEF Works
  <2>5. (\A q, r \in Requests : Works(h[q]) /\ Works(h[r]) => q = r)'
    BY <1>2, <1>5 DEF ServerInv, Works
  <2>6. (\A q \in Requests : h[q].pc = "idle" => h[q] = Idle)'
    BY <1>4, <1>5 DEF ServerInv
  <2>. QED  BY <2>2, <2>3, <2>4, <2>5, <2>6 DEF ServerInv
<1>6. CASE ~Calm
  BY <1>6 DEF ServerInv
<1>. QED  BY <1>5, <1>6

\* ... a handler comes to work, ...
LEMMA BeginKnows ==
    ASSUME TypeInv, ServerInv, NEW p \in Requests, NEW y, h' = [h EXCEPT ![p] = y],
           ~Works(h[p]), Works(y), Enter(p), faults' = faults,
           Calm /\ ListsOK /\ RestKnown => ListsOK' /\ WorkKnown(y)'
    PROVE  ServerInv'
<1>0. h \in [Requests -> Handlers]
  BY DEF TypeInv
<1>1. h'[p] = y /\ \A q \in Requests \ {p} : h'[q] = h[q]
  BY <1>0
<1> SUFFICES ASSUME Calm' PROVE ServerInv'
  BY DEF ServerInv
<1>2. Calm /\ \A q \in Requests : ~Works(h[q])
  BY DEF Calm, Enter, Working, Works
<1>3. ListsOK' /\ WorkKnown(y)'
  BY <1>2 DEF ServerInv
<1>4. y.pc # "idle"
  BY DEF Works
<1>5. \A q \in Requests : Works(h'[q]) => q = p
  BY <1>1, <1>2
<1>6. (\A q \in Requests : Works(h[q]) => WorkKnown(h[q]))'
  BY <1>1, <1>3, <1>5 DEF Works
<1>7. (\A q \in Requests : h[q].pc = "idle" => h[q] = Idle)'
  BY <1>1, <1>2, <1>4 DEF ServerInv
<1>8. (\A q, r \in Requests : Works(h[q]) /\ Works(h[r]) => q = r)'
  BY <1>5 DEF Works
<1>9. ~(\A q \in Requests : ~Works(h[q]))'
  BY <1>1 DEF Works
<1>. QED  BY <1>3, <1>6, <1>7, <1>8, <1>9 DEF ServerInv

\* ... or goes on with it.
LEMMA GoOnKnows ==
    ASSUME TypeInv, ServerInv, NEW p \in Requests, NEW y, h' = [h EXCEPT ![p] = y],
           Works(h[p]), y.pc = "idle" => y = Idle, Calm' => Calm,
           Calm' /\ Calm /\ ListsOK /\ WorkKnown(h[p]) => ListsOK' /\ Known(y)'
    PROVE  ServerInv'
<1>0. h \in [Requests -> Handlers]
  BY DEF TypeInv
<1>1. h'[p] = y /\ \A q \in Requests \ {p} : h'[q] = h[q]
  BY <1>0
<1> SUFFICES ASSUME Calm' PROVE ServerInv'
  BY DEF ServerInv
<1>2. Calm /\ \A q \in Requests \ {p} : ~Works(h[q])
  BY DEF ServerInv
<1>3. ListsOK' /\ Known(y)'
  BY <1>2 DEF ServerInv
<1>5. \A q \in Requests : Works(h'[q]) => q = p
  BY <1>1, <1>2
<1>6. (\A q \in Requests : Works(h[q]) => WorkKnown(h[q]))'
  <2>1. Works(y) => WorkKnown(y)'
    BY <1>3 DEF Known, Works
  <2>. QED  BY <1>1, <1>5, <2>1 DEF Works
<1>7. (\A q \in Requests : h[q].pc = "idle" => h[q] = Idle)'
  BY <1>1, <1>2 DEF ServerInv
<1>8. (\A q, r \in Requests : Works(h[q]) /\ Works(h[r]) => q = r)'
  BY <1>5 DEF Works
<1>9. (\A q \in Requests : ~Works(h[q]))' => RestKnown'
  BY <1>1, <1>3 DEF Known, Works
<1>. QED  BY <1>3, <1>6, <1>7, <1>8, <1>9 DEF ServerInv

\* A handler that is done with a connection, and where it goes from there.
Done(x) == /\ \A c \in Conns : Tracked(c)
           /\ JobOn(x.job, x, x.conns \ {First(x.conns)})
           /\ x.job = "sync" => x.user # NoUser

Lands(y) == Known(y) /\ (y.pc = "idle" => y = Idle)

LEMMA JobOnSame ==
    ASSUME NEW x, NEW y, y.qr = x.qr, y.then = x.then, y.copy = x.copy,
           NEW j, NEW C, JobOn(j, x, C)
    PROVE  JobOn(j, y, C)
BY DEF JobOn

\* The first step of a job.
LEMMA FirstStepKnown ==
    ASSUME NEW y \in Handlers, y.job \in Jobs, y.pc = FirstStep(y.job), JobOn(y.job, y, y.conns),
           \A c \in Conns : Tracked(c)
    PROVE  Works(y) /\ WorkKnown(y) /\ Lands(y)
<1>1. /\ y.pc \in {"create", "readKey", "findCards", "deleteUser"}
      /\ y.pc = "create" <=> y.job = "sync"
      /\ y.pc = "deleteUser" <=> y.job = "delete"
  BY DEF Jobs, FirstStep
<1>2. Works(y) /\ ListKnown(y) /\ EntityKnown(y)
  BY <1>1 DEF Works, ListKnown, EntityKnown
<1>3. JobOn(y.job, y, Left(y))
  BY <1>1 DEF JobOn, Left, Jobs
<1>4. JobKnown(y)
  BY <1>1, <1>3 DEF JobKnown, OnServer
<1>. QED  BY <1>1, <1>2, <1>4 DEF WorkKnown, Lands, Known

LEMMA StartKnown ==
    \A x \in Handlers, j \in Jobs, u \in UserIds \cup {NoUser} :
        JobOn(j, x, Conns) /\ (\A c \in Conns : Tracked(c)) =>
            Works(Start(x, j, u)) /\ WorkKnown(Start(x, j, u)) /\ Lands(Start(x, j, u))
<1> SUFFICES ASSUME NEW x \in Handlers, NEW j \in Jobs, NEW u \in UserIds \cup {NoUser},
                    JobOn(j, x, Conns), \A c \in Conns : Tracked(c)
             PROVE  Works(Start(x, j, u)) /\ WorkKnown(Start(x, j, u)) /\ Lands(Start(x, j, u))
  OBVIOUS
<1> DEFINE y == Start(x, j, u)
<1>1. FirstStep(j) \in {"create", "readKey", "findCards", "deleteUser"}
  BY DEF FirstStep, Jobs
<1>2. /\ y \in Handlers /\ y.pc = FirstStep(j) /\ y.job = j /\ y.conns = Conns
      /\ y.qr = x.qr /\ y.then = x.then /\ y.copy = x.copy
  <2>1. y \in Handlers
    BY <1>1 DEF Start, Handlers, Jobs
  <2>2. /\ y.pc = FirstStep(j) /\ y.job = j /\ y.conns = Conns
        /\ y.qr = x.qr /\ y.then = x.then /\ y.copy = x.copy
    BY DEF Start, Handlers
  <2>. QED  BY <2>1, <2>2
<1> HIDE DEF y
<1>3. JobOn(j, y, Conns)
  BY <1>2, JobOnSame
<1>. QED  BY <1>2, <1>3, FirstStepKnown DEF y

LEMMA NextConnKnown == \A x \in Handlers : AtWork(x) /\ Done(x) => Lands(NextConn(x))
<1> SUFFICES ASSUME NEW x \in Handlers, AtWork(x), Done(x) PROVE Lands(NextConn(x))
  OBVIOUS
<1> DEFINE rest == x.conns \ {First(x.conns)}
           next == [x EXCEPT !.conns = rest, !.old = 0, !.list = {}, !.todo = {},
                             !.stale = {}, !.card = NoCard, !.linked = FALSE]
<1>1. /\ next \in Handlers /\ next.conns = rest /\ next.job = x.job /\ next.qr = x.qr
      /\ next.user = x.user /\ next.then = x.then /\ next.copy = x.copy
  <2> HIDE DEF rest
  <2>1. rest \in SUBSET Conns
    BY DEF rest, Handlers
  <2>2. 0 \in 0..MaxQrs
    BY CredentialsAssumption
  <2>3. {} \in SUBSET Badges /\ {} \in SUBSET Cards /\ NoCard \in Cards \cup {NoCard}
    OBVIOUS
  <2>. QED  BY <2>1, <2>2, <2>3 DEF Handlers
<1>2. x.job \in Jobs
  BY DEF AtWork, Handlers, Jobs
<1>3. JobOn(x.job, x, rest) /\ (\A c \in Conns : Tracked(c)) /\ (x.job = "sync" => x.user # NoUser)
  BY DEF Done
<1>4. ASSUME NEW pc \in {"create", "readKey", "findCards", "deleteUser", "synced", "deleted"},
             NEW y, y = [next EXCEPT !.pc = pc]
      PROVE  /\ y \in Handlers /\ y.pc = pc /\ y.conns = rest /\ y.job = x.job
             /\ y.user = x.user /\ JobOn(x.job, y, rest)
  <2>1. /\ y \in Handlers /\ y.pc = pc /\ y.conns = rest /\ y.job = x.job /\ y.qr = x.qr
        /\ y.user = x.user /\ y.then = x.then /\ y.copy = x.copy
    <3> HIDE DEF next, rest
    <3>. QED  BY <1>1, <1>4 DEF Handlers
  <2>. QED  BY <1>3, <2>1, JobOnSame
<1>5. CASE rest # {}
  <2>1. FirstStep(x.job) \in {"create", "readKey", "findCards", "deleteUser"}
    BY <1>2 DEF FirstStep, Jobs
  <2>2. PICK y : y = [next EXCEPT !.pc = FirstStep(x.job)]
    OBVIOUS
  <2>3. NextConn(x) = y
    BY <1>5, <2>2 DEF NextConn
  <2> HIDE DEF next, rest
  <2>. QED  BY <1>2, <1>3, <1>4, <2>1, <2>2, <2>3, FirstStepKnown
<1>6. CASE rest = {} /\ x.job \in {"sync", "delete"}
  <2>0. PICK pc \in {"synced", "deleted"} : pc = "synced" <=> x.job = "sync"
    OBVIOUS
  <2>1. PICK y : y = [next EXCEPT !.pc = pc]
    OBVIOUS
  <2>2. NextConn(x) = y
    BY <1>6, <2>0, <2>1 DEF NextConn
  <2> HIDE DEF next, rest
  <2>3. y \in Handlers /\ y.pc = pc /\ y.user = x.user /\ JobOn(x.job, y, {})
    BY <1>4, <1>6, <2>1
  <2>4. ListKnown(y) /\ EntityKnown(y) /\ JobKnown(y)
    BY <1>3, <1>6, <2>0, <2>3 DEF ListKnown, EntityKnown, JobKnown, OnServer
  <2>. QED  BY <2>2, <2>3, <2>4 DEF Lands, Known, WorkKnown, Works
<1>7. CASE rest = {} /\ x.job \in {"rotate", "push"}
  <2>1. NextConn(x) = Idle
    BY <1>7 DEF NextConn
  <2>2. RestKnown /\ ~Works(Idle)
    BY <1>3, <1>7 DEF RestKnown, JobOn, Works, Idle
  <2>. QED  BY <2>1, <2>2 DEF Lands, Known
<1>. QED  BY <1>2, <1>5, <1>6, <1>7 DEF Jobs

\* The same connection, the cards.
LEMMA CardsKnown ==
    ASSUME NEW x \in Handlers, Done(x), x.job # "delete",
           NEW y, y.pc \in {"findCards", "postCard"}, y.conns = x.conns, y.job = x.job,
           y.qr = x.qr, y.user = x.user, y.then = x.then, y.copy = x.copy
    PROVE  Lands(y)
<1>1. JobOn(y.job, y, Left(y))
  BY JobOnSame DEF Done, Left
<1>2. ListKnown(y) /\ EntityKnown(y) /\ JobKnown(y)
  BY <1>1 DEF Done, ListKnown, EntityKnown, JobKnown
<1>. QED  BY <1>2 DEF Lands, Known, WorkKnown, Works

LEMMA AfterQrKnown ==
    \A x \in Handlers : AtWork(x) /\ Done(x) /\ x.job # "delete" => Lands(AfterQr(x))
<1> SUFFICES ASSUME NEW x \in Handlers, AtWork(x), Done(x), x.job # "delete"
             PROVE  Lands(AfterQr(x))
  OBVIOUS
<1>1. PICK y : y = [x EXCEPT !.pc = "findCards", !.old = 0, !.list = {}]
  OBVIOUS
<1>2. /\ y.pc = "findCards" /\ y.conns = x.conns /\ y.job = x.job
      /\ y.qr = x.qr /\ y.user = x.user /\ y.then = x.then /\ y.copy = x.copy
  BY <1>1 DEF Handlers
<1>3. AfterQr(x) \in {y, NextConn(x)}
  BY <1>1 DEF AfterQr
<1>4. Lands(y)
  BY <1>2, CardsKnown
<1>. QED  BY <1>3, <1>4, NextConnKnown

LEMMA NextCardKnown ==
    \A x \in Handlers : AtWork(x) /\ Done(x) /\ x.job # "delete" => Lands(NextCard(x))
<1> SUFFICES ASSUME NEW x \in Handlers, AtWork(x), Done(x), x.job # "delete"
             PROVE  Lands(NextCard(x))
  OBVIOUS
<1>1. PICK z : z = [x EXCEPT !.card = NoCard, !.list = {}, !.linked = FALSE]
  OBVIOUS
<1>2. /\ z \in Handlers /\ z.conns = x.conns /\ z.job = x.job
      /\ z.qr = x.qr /\ z.user = x.user /\ z.then = x.then /\ z.copy = x.copy
  <2>1. {} \in SUBSET Badges /\ NoCard \in Cards \cup {NoCard}
    OBVIOUS
  <2>. QED  BY <1>1, <2>1 DEF Handlers
<1>3. AtWork(z)
  BY <1>2 DEF AtWork
<1>4. Done(z)
  BY <1>2, JobOnSame DEF Done
<1>5. PICK y : y = [z EXCEPT !.pc = "postCard"]
  OBVIOUS
<1>6. /\ y.pc = "postCard" /\ y.conns = x.conns /\ y.job = x.job
      /\ y.qr = x.qr /\ y.user = x.user /\ y.then = x.then /\ y.copy = x.copy
  BY <1>2, <1>5 DEF Handlers
<1>7. NextCard(x) \in {y, NextConn(z)}
  BY <1>1, <1>5 DEF NextCard
<1>8. Lands(y)
  BY <1>6, CardsKnown
<1>. QED  BY <1>2, <1>3, <1>4, <1>7, <1>8, NextConnKnown

\* ... also after a step.
Targets ==
    \A x \in Handlers :
        /\ AtWork(x) /\ Done(x) => Lands(NextConn(x))
        /\ AtWork(x) /\ Done(x) /\ x.job # "delete" => Lands(AfterQr(x)) /\ Lands(NextCard(x))
        /\ \A j \in Jobs, u \in UserIds \cup {NoUser} :
               JobOn(j, x, Conns) /\ (\A c \in Conns : Tracked(c)) =>
               Works(Start(x, j, u)) /\ WorkKnown(Start(x, j, u)) /\ Lands(Start(x, j, u))

LEMMA TargetsKnown == Targets
BY NextConnKnown, AfterQrKnown, NextCardKnown, StartKnown DEF Targets

LEMMA TargetsKnownLater == Targets'
BY TargetsKnown, PTL

\* When all went well, this call did.
LEMMA CallCalm ==
    ASSUME TypeInv, NEW o, Call(o), faults' = 0 PROVE o = "ok" /\ faults = 0
BY DEF TypeInv, RestOK, Call

\* A job is as well served when the other servers, and the cards on this one,
\* are as they were.
LEMMA JobOnKept ==
    ASSUME NEW x, NEW y, NEW C \in SUBSET Conns, NEW j \in {"sync", "rotate", "push"},
           JobOn(j, x, C), y.qr = x.qr, y.copy = x.copy, visit' = visit, renewed' = renewed,
           \A k \in Cards : card'[k].sync = "SYNCED" =>
               card[k].sync = "SYNCED" \/ \E c \in Conns : k \in server'[c].list,
           \A d \in Conns : server[d].list \cap Cards \subseteq server'[d].list,
           \A d \in C : server'[d].list = server[d].list,
           j = "sync" \/ \A d \in Conns : server'[d].user = server[d].user
    PROVE  JobOn(j, y, C)'
<1>1. SyncedOpens => SyncedOpens'
  BY DEF SyncedOpens
<1>2. j # "sync" => (NoUserOn(Conns) => NoUserOn(Conns)')
  BY DEF NoUserOn
<1>3. j # "sync" => (RowAccounts => RowAccounts')
  BY <1>1, <1>2 DEF RowAccounts, Admitted
<1>. QED  BY <1>1, <1>3 DEF JobOn

\* The calls to a server.
LEMMA ServerStepKnows ==
    ASSUME TypeInv, ServerInv, NEW p \in Requests, ServerStep(p)
    PROVE  ServerInv'
<1> SUFFICES ASSUME Calm' PROVE ServerInv'
  BY DEF ServerInv
<1>1. PICK x \in Handlers : x = h[p]
  BY DEF TypeInv
<1>2. /\ x.pc \in {"create", "readKey", "dropQr", "postQr", "getQr", "putQr", "setKey",
                   "findCards", "postCard", "getCards", "putCard", "verify", "saveCard"}
      /\ visit' = visit /\ renewed' = renewed /\ overlapped' = overlapped
  BY <1>1 DEF ServerStep, CreateUser, ReadCardKey, DropOldQr, PostQr, GetQr, PutQr, SetCardKey,
              FindCards, PostCard, GetCards, PutCard, VerifyCard, SaveCard, rows, met
<1>3. /\ HandlerOK(x) /\ AtWork(x) /\ h \in [Requests -> Handlers] /\ RestOK
      /\ x.pc \in OnServer
  BY <1>1, <1>2 DEF TypeInv, HandlerOK, OnServer
<1>4. PICK c \in Conns : c = First(x.conns) /\ c = Here(p)
  BY <1>1, <1>3, HereOK DEF Here
<1>5. faults = 0 /\ \A o : Call(o) => o = "ok"
  <2>1. \A o : Call(o) => o = "ok" /\ faults = 0
    BY CallCalm DEF Calm
  <2>2. faults' = faults \/ \E o : Call(o)
    BY DEF ServerStep, CreateUser, ReadCardKey, DropOldQr, PostQr, GetQr, PutQr, SetCardKey,
           FindCards, PostCard, GetCards, PutCard, VerifyCard, SaveCard
  <2>. QED  BY <2>1, <2>2 DEF Calm
<1>6. Calm /\ Works(x) /\ ListsOK /\ WorkKnown(x)
  BY <1>1, <1>2, <1>5 DEF Calm, ServerInv, Works
<1>7. ASSUME NEW y, h' = [h EXCEPT ![p] = y], ListsOK', Lands(y)' PROVE ServerInv'
  BY <1>1, <1>6, <1>7, GoOnKnows DEF Lands
<1>8. \A w \in Handlers :
          AtWork(w) /\ Done(w)' =>
              /\ Lands(NextConn(w))'
              /\ w.job # "delete" => Lands(AfterQr(w))' /\ Lands(NextCard(w))'
  BY TargetsKnownLater DEF Targets, AtWork
<1>9. PICK C \in SUBSET Conns : C = x.conns \ {c}
  BY DEF Handlers
<1>10. /\ x.job \in {"sync", "rotate", "push"} /\ (x.pc # "create" => JobOn(x.job, x, C))
       /\ (x.job = "sync" /\ x.pc # "create" => x.user # NoUser)
       /\ (x.pc # "setKey" => \A d \in Conns : Tracked(d))
  BY <1>2, <1>3, <1>4, <1>6, <1>9 DEF WorkKnown, JobKnown, ListKnown, Left, AtWork, Handlers
\* The user that it names: on servers of one kind, the visitor's.
<1>n. /\ x.pc # "create" => x.user # NoUser /\ (OneKind => x.user = UserIdOn(c))
      /\ Named(p) <=> x.user = UserIdOn(c)
      /\ Found(p) <=> x.user = UserIdOn(c) /\ server[c].user
      /\ CardsOf(p) = (IF x.user = UserIdOn(c) THEN server[c].list ELSE {})
  <2>1. x.pc # "create" => x.user # NoUser
    BY <1>3 DEF HandlerOK, Names
  <2>2. OneKind => \A d, e \in Conns : UserIdOn(d) = UserIdOn(e)
    BY DEF OneKind, UserIdOn
  <2>3. x.user # NoUser => \E d \in Conns : x.user = UserIdOn(d)
    BY DEF Handlers, UserIds
  <2>4. Named(p) <=> x.user = UserIdOn(c)
    BY <1>1, <1>4 DEF Named
  <2>. QED  BY <1>4, <2>1, <2>2, <2>3, <2>4 DEF Found, CardsOf
\* What is the same after a call that leaves the rows and the other servers alone.
<1>11. ASSUME NEW y, y.qr = x.qr, y.copy = x.copy, x.pc # "create",
              \A k \in Cards : card'[k].sync = "SYNCED" =>
                  card[k].sync = "SYNCED" \/ \E d \in Conns : k \in server'[d].list,
              \A d \in Conns \ {c} : server'[d] = server[d],
              server'[c].user = server[c].user,
              server[c].list \cap Cards \subseteq server'[c].list
       PROVE  JobOn(x.job, y, C)'
  <2>1. /\ \A d \in Conns : /\ server[d].list \cap Cards \subseteq server'[d].list
                           /\ server'[d].user = server[d].user
        /\ \A d \in C : server'[d].list = server[d].list
    BY <1>9, <1>11
  <2>2. JobOn(x.job, x, C) /\ x.job \in {"sync", "rotate", "push"}
    BY <1>10, <1>11
  <2>. QED  BY <1>2, <1>11, <2>1, <2>2, JobOnKept
\* A handler that goes on to another call on the same server.
<1>12. ASSUME NEW y, y.pc \in {"dropQr", "postQr", "getQr", "putQr", "setKey",
                               "getCards", "putCard", "verify", "saveCard"},
              y.conns = x.conns, y.job = x.job, x.job = "sync" => y.user # NoUser,
              ListKnown(y)', JobOn(x.job, y, C)'
       PROVE  Lands(y)'
  <2>1. EntityKnown(y)'
    BY <1>12 DEF EntityKnown
  <2>2. Left(y) = C
    BY <1>4, <1>9, <1>12 DEF Left
  <2>3. JobKnown(y)'
    BY <1>10, <1>12, <2>2 DEF JobKnown
  <2>4. Works(y) /\ y.pc # "idle"
    BY <1>12 DEF Works
  <2>5. WorkKnown(y)'
    BY <1>12, <2>1, <2>3 DEF WorkKnown
  <2>6. Known(y)'
    BY <2>4, <2>5 DEF Known, Works
  <2>. QED  BY <2>4, <2>6 DEF Lands
\* A handler that is done with the server.
<1>13. ASSUME \A d \in Conns : Tracked(d)', JobOn(x.job, x, C)', x.pc # "create"
       PROVE  Done(x)'
  BY <1>4, <1>9, <1>10, <1>13 DEF Done
<1>14. Cards \cap Qrs = {} /\ 0 \notin Qrs /\ Qrs \subseteq Nat /\ x.qr \in Nat /\ x.old \in Nat
       /\ x.qr \notin Cards /\ x.old \notin Cards
  BY CredentialsAssumption DEF Qrs, Handlers
<1>15. CASE ReadCardKey(p)
  <2>0. PICK known : known = IF Named(p) THEN key[c] ELSE 0
    OBVIOUS
  <2>1. /\ UNCHANGED <<rows, server, key>> /\ x.pc = "readKey"
        /\ h' = [h EXCEPT ![p] = [x EXCEPT !.old = known,
                                           !.pc = IF known = 0 THEN "postQr" ELSE "dropQr"]]
    BY <1>1, <1>4, <1>5, <1>15, <2>0 DEF ReadCardKey
  <2>2. PICK y : y = [x EXCEPT !.old = known, !.pc = IF known = 0 THEN "postQr" ELSE "dropQr"]
    OBVIOUS
  <2>3. /\ y.pc = (IF known = 0 THEN "postQr" ELSE "dropQr")
        /\ y.old = known /\ (OneKind => known = key[c])
        /\ y.conns = x.conns /\ y.job = x.job /\ y.qr = x.qr /\ y.copy = x.copy /\ y.user = x.user
    BY <1>n, <2>0, <2>1, <2>2 DEF Handlers
  <2>4. JobOn(x.job, y, C)'
    BY <1>11, <2>1, <2>3 DEF rows
  <2>5. (\A d \in Conns : Tracked(d))' /\ ListsOK'
    BY <1>6, <1>10, <2>1 DEF Tracked, QrsOf, ListsOK
  <2>6. y.pc = "postQr" => NoQrOn(c)'
    BY <1>10, <1>14, <2>1, <2>3 DEF Tracked, NoQrOn, QrsOf
  <2>7. ListKnown(y)'
    BY <1>4, <2>1, <2>3, <2>5, <2>6 DEF ListKnown
  <2>8. Lands(y)'
    BY <1>10, <1>12, <2>1, <2>3, <2>4, <2>7
  <2>9. h' = [h EXCEPT ![p] = y]
    BY <2>1, <2>2
  <2>. QED  BY <1>7, <2>5, <2>8, <2>9
<1>16. CASE CreateUser(p)
  <2>1. /\ UNCHANGED <<rows, key>> /\ x.pc = "create"
        /\ server' = [server EXCEPT ![c] = [server[c] EXCEPT !.user = TRUE]]
        /\ h' = [h EXCEPT ![p] = [x EXCEPT !.user = UserIdOn(c),
                                           !.pc = IF x.qr = 0 THEN "findCards" ELSE "postQr"]]
    BY <1>1, <1>4, <1>5, <1>16 DEF CreateUser, Effect
  <2>2. PICK y : y = [x EXCEPT !.user = UserIdOn(c),
                               !.pc = IF x.qr = 0 THEN "findCards" ELSE "postQr"]
    OBVIOUS
  <2>3. /\ y.pc = (IF x.qr = 0 THEN "findCards" ELSE "postQr")
        /\ y.conns = x.conns /\ y.job = x.job /\ y.qr = x.qr /\ y.copy = x.copy
        /\ y.user # NoUser /\ y \in Handlers
    <3>1. UserIdOn(c) \in UserIds /\ UserIdOn(c) # NoUser
      BY DEF UserIds, UserIdOn, NoUser
    <3>. QED  BY <2>2, <3>1 DEF Handlers
  <2>4. x.job = "sync" /\ JobOn("sync", x, x.conns)
    BY <1>3, <1>6, <2>1 DEF WorkKnown, JobKnown, Left
  <2>5. /\ server'[c].list = server[c].list /\ server'[c].cards = server[c].cards
        /\ server'[c].user /\ \A d \in Conns \ {c} : server'[d] = server[d]
    BY <1>3, <2>1 DEF RestOK, Servers
  <2>6. JobOn("sync", x, C)
    BY <1>9, <2>4 DEF JobOn
  <2>7. JobOn("sync", y, C)'
    BY <1>2, <2>1, <2>3, <2>5, <2>6, JobOnKept DEF rows
  <2>8. (\A d \in Conns : Tracked(d))' /\ ListsOK'
    BY <1>6, <1>10, <2>1, <2>5 DEF Tracked, QrsOf, ListsOK
  <2>9. y.pc = "postQr" => NoQrOn(c)'
    <3>1. x.conns \in SUBSET Conns /\ x.conns # {}
      BY <1>3 DEF AtWork, Handlers
    <3>2. c \in x.conns
      BY <1>4, <3>1, FirstInSet
    <3>. QED  BY <2>3, <2>4, <2>5, <3>2 DEF JobOn, NoQrOn, QrsOf
  <2>10. ListKnown(y)'
    BY <1>4, <2>3, <2>8, <2>9 DEF ListKnown
  <2>11. Lands(y)'
    <3>1. CASE y.pc = "postQr"
      BY <1>12, <2>3, <2>4, <2>7, <2>10, <3>1
    <3>2. CASE y.pc = "findCards"
      <4>1. Left(y) = C /\ EntityKnown(y)' /\ Works(y)
        BY <1>4, <1>9, <2>3, <3>2 DEF Left, EntityKnown, Works
      <4>2. JobKnown(y)'
        BY <2>3, <2>4, <2>7, <3>2, <4>1 DEF JobKnown
      <4>3. WorkKnown(y)'
        BY <2>10, <4>1, <4>2 DEF WorkKnown
      <4>. QED  BY <3>2, <4>1, <4>3 DEF Lands, Known, Works
    <3>. QED  BY <2>3, <3>1, <3>2
  <2>. QED  BY <1>7, <2>1, <2>2, <2>8, <2>11
<1>17. CASE DropOldQr(p)
  <2>1. /\ UNCHANGED rows /\ x.pc = "dropQr" /\ key' = [key EXCEPT ![c] = 0]
        /\ server' = [server EXCEPT ![c] = [server[c] EXCEPT !.cards = @ \ {x.old},
                                                             !.list = @ \ {x.old}]]
        /\ h' = [h EXCEPT ![p] = [x EXCEPT !.pc = "postQr"]]
    BY <1>1, <1>4, <1>5, <1>17 DEF DropOldQr, Effect
  <2>2. PICK y : y = [x EXCEPT !.pc = "postQr"]
    OBVIOUS
  <2>3. y.pc = "postQr" /\ y.conns = x.conns /\ y.job = x.job /\ y.qr = x.qr /\ y.copy = x.copy /\ y.user = x.user
    BY <2>2 DEF Handlers
  <2>4. /\ server'[c].list = server[c].list \ {x.old} /\ server'[c].user = server[c].user
        /\ server'[c].cards = server[c].cards \ {x.old}
        /\ \A d \in Conns \ {c} : server'[d] = server[d] /\ key'[d] = key[d]
    BY <1>3, <2>1 DEF RestOK, Servers
  <2>5. JobOn(x.job, y, C)'
    BY <1>11, <1>14, <2>1, <2>3, <2>4 DEF rows
  <2>6. OneKind => x.old = key[c]
    BY <1>4, <1>6, <2>1 DEF WorkKnown, ListKnown
  <2>7. NoQrOn(c)'
    BY <1>10, <2>1, <2>4, <2>6 DEF Tracked, NoQrOn, QrsOf
  <2>8. (\A d \in Conns : Tracked(d))' /\ ListsOK'
    BY <1>6, <1>10, <2>1, <2>4, <2>7 DEF Tracked, NoQrOn, QrsOf, ListsOK
  <2>9. ListKnown(y)'
    BY <1>4, <2>3, <2>7, <2>8 DEF ListKnown
  <2>10. Lands(y)'
    BY <1>10, <1>12, <2>1, <2>3, <2>5, <2>9
  <2>11. h' = [h EXCEPT ![p] = y]
    BY <2>1, <2>2
  <2>. QED  BY <1>7, <2>8, <2>10, <2>11
<1>18. CASE PostQr(p)
  <2>1. /\ UNCHANGED <<rows, key>> /\ x.pc = "postQr"
        /\ server' = [server EXCEPT ![c] = [server[c] EXCEPT !.cards = @ \cup {x.qr}]]
        /\ \/ h' = [h EXCEPT ![p] = [x EXCEPT !.pc = "getQr"]]
           \/ h' = [h EXCEPT ![p] = AfterQr(x)]
    BY <1>1, <1>4, <1>5, <1>18 DEF PostQr, Effect
  <2>2. /\ server'[c].list = server[c].list /\ server'[c].user = server[c].user
        /\ server'[c].cards = server[c].cards \cup {x.qr}
        /\ \A d \in Conns \ {c} : server'[d] = server[d]
    BY <1>3, <2>1 DEF RestOK, Servers
  <2>3. /\ (\A d \in Conns : Tracked(d))' /\ ListsOK'
        /\ \A y : y.qr = x.qr /\ y.copy = x.copy => JobOn(x.job, y, C)'
    <3>1. (\A d \in Conns : Tracked(d))' /\ ListsOK'
      BY <1>6, <1>10, <2>1, <2>2 DEF Tracked, QrsOf, ListsOK
    <3>2. ASSUME NEW y, y.qr = x.qr, y.copy = x.copy PROVE JobOn(x.job, y, C)'
      BY <1>11, <2>1, <2>2, <3>2 DEF rows
    <3>. QED  BY <3>1, <3>2
  <2>4. CASE h' = [h EXCEPT ![p] = [x EXCEPT !.pc = "getQr"]]
    <3>1. PICK y : y = [x EXCEPT !.pc = "getQr"]
      OBVIOUS
    <3>2. y.pc = "getQr" /\ y.conns = x.conns /\ y.job = x.job /\ y.qr = x.qr /\ y.copy = x.copy /\ y.user = x.user
      BY <3>1 DEF Handlers
    <3>3. NoQrOn(c)'
      BY <1>4, <1>6, <2>1, <2>2 DEF WorkKnown, ListKnown, NoQrOn, QrsOf
    <3>4. ListKnown(y)'
      BY <1>4, <2>3, <3>2, <3>3 DEF ListKnown
    <3>5. JobOn(x.job, y, C)'
      BY <2>3, <3>2
    <3>6. Lands(y)'
      BY <1>10, <1>12, <2>1, <3>2, <3>4, <3>5
    <3>. QED  BY <1>7, <2>3, <2>4, <3>1, <3>6
  <2>5. CASE h' = [h EXCEPT ![p] = AfterQr(x)]
    <3>1. Done(x)'
      BY <1>13, <2>1, <2>3
    <3>2. Lands(AfterQr(x))'
      BY <1>3, <1>8, <1>10, <3>1 DEF AtWork
    <3>3. PICK y : y = AfterQr(x)
      OBVIOUS
    <3>. QED  BY <1>7, <2>3, <2>5, <3>2, <3>3
  <2>. QED  BY <2>1, <2>4, <2>5
<1>19. CASE GetQr(p)
  <2>1. /\ UNCHANGED <<rows, server, key>> /\ x.pc = "getQr"
        /\ h' = [h EXCEPT ![p] = [x EXCEPT !.pc = "putQr", !.list = CardsOf(p)]]
    BY <1>1, <1>4, <1>5, <1>19 DEF GetQr
  <2>2. PICK y : y = [x EXCEPT !.pc = "putQr", !.list = CardsOf(p)]
    OBVIOUS
  <2>3. /\ y.pc = "putQr" /\ y.conns = x.conns /\ y.job = x.job /\ y.qr = x.qr /\ y.copy = x.copy
        /\ y.user = x.user /\ (y.user = UserIdOn(c) => y.list = server[c].list)
    BY <1>n, <2>2 DEF Handlers
  <2>4. JobOn(x.job, y, C)'
    BY <1>11, <2>1, <2>3 DEF rows
  <2>5. (\A d \in Conns : Tracked(d))' /\ ListsOK'
    BY <1>6, <1>10, <2>1 DEF Tracked, QrsOf, ListsOK
  <2>6. NoQrOn(c)'
    BY <1>4, <1>6, <2>1 DEF WorkKnown, ListKnown, NoQrOn, QrsOf
  <2>7. ListKnown(y)'
    BY <1>4, <2>1, <2>3, <2>5, <2>6 DEF ListKnown
  <2>8. Lands(y)'
    BY <1>10, <1>12, <2>1, <2>3, <2>4, <2>7
  <2>9. h' = [h EXCEPT ![p] = y]
    BY <2>1, <2>2
  <2>. QED  BY <1>7, <2>5, <2>8, <2>9
<1>20. CASE PutQr(p) /\ Found(p)
  <2>1. /\ UNCHANGED <<rows, key>> /\ x.pc = "putQr"
        /\ server' = [server EXCEPT ![c] = Put(c, (x.list \ {x.old}) \cup {x.qr})]
        /\ h' = [h EXCEPT ![p] = [x EXCEPT !.pc = "setKey"]]
    BY <1>1, <1>4, <1>5, <1>20 DEF PutQr, Effect
  <2>2. PICK y : y = [x EXCEPT !.pc = "setKey"]
    OBVIOUS
  <2>3. y.pc = "setKey" /\ y.conns = x.conns /\ y.job = x.job /\ y.qr = x.qr /\ y.copy = x.copy /\ y.user = x.user
    BY <2>2 DEF Handlers
  <2>4. /\ server'[c].list = ((x.list \ {x.old}) \cup {x.qr}) \cap server[c].cards
        /\ server'[c].user = server[c].user /\ server'[c].cards = server[c].cards
        /\ \A d \in Conns \ {c} : server'[d] = server[d]
    BY <1>3, <2>1 DEF RestOK, Servers, Put
  <2>5. x.list = server[c].list /\ NoQrOn(c) /\ server[c].user
    BY <1>4, <1>6, <1>n, <1>20, <2>1 DEF WorkKnown, ListKnown
  <2>6. server[c].list \cap Cards \subseteq server'[c].list
    BY <1>6, <1>14, <2>4, <2>5 DEF ListsOK
  <2>7. JobOn(x.job, y, C)'
    BY <1>11, <2>1, <2>3, <2>4, <2>6 DEF rows
  <2>8. (OneKind => QrsOf(c)' \subseteq {x.qr}) /\ \A d \in Conns \ {c} : Tracked(d)'
    BY <1>10, <2>1, <2>4, <2>5 DEF Tracked, NoQrOn, QrsOf
  <2>9. ListsOK'
    BY <1>6, <2>4, <2>5 DEF ListsOK
  <2>10. ListKnown(y)'
    BY <1>4, <2>3, <2>8 DEF ListKnown
  <2>11. Lands(y)'
    BY <1>10, <1>12, <2>1, <2>3, <2>7, <2>10
  <2>12. h' = [h EXCEPT ![p] = y]
    BY <2>1, <2>2
  <2>. QED  BY <1>7, <2>9, <2>11, <2>12
<1>21. CASE PutQr(p) /\ ~Found(p)
  <2>1. /\ UNCHANGED <<rows, server, key>> /\ x.pc = "putQr"
        /\ h' = [h EXCEPT ![p] = AfterQr(x)]
    BY <1>1, <1>4, <1>5, <1>21 DEF PutQr, Effect
  <2>2. (\A d \in Conns : Tracked(d))' /\ ListsOK'
    BY <1>6, <1>10, <2>1 DEF Tracked, QrsOf, ListsOK
  <2>3. JobOn(x.job, x, C)'
    BY <1>11, <2>1 DEF rows
  <2>4. Lands(AfterQr(x))'
    BY <1>3, <1>8, <1>10, <1>13, <2>1, <2>2, <2>3
  <2>5. PICK y : y = AfterQr(x)
    OBVIOUS
  <2>. QED  BY <1>7, <2>1, <2>2, <2>4, <2>5
<1>22. CASE SetCardKey(p)
  <2>1. /\ UNCHANGED <<rows, server>> /\ x.pc = "setKey" /\ key' = [key EXCEPT ![c] = x.qr]
        /\ h' = [h EXCEPT ![p] = AfterQr(x)]
    BY <1>1, <1>4, <1>22 DEF SetCardKey
  <2>2. key'[c] = x.qr /\ \A d \in Conns \ {c} : key'[d] = key[d]
    BY <1>3, <2>1 DEF RestOK
  <2>3. \A d \in Conns : QrsOf(d)' = QrsOf(d)
    BY <2>1 DEF QrsOf
  <2>4. \A d \in Conns : IF d = c THEN OneKind => QrsOf(d) \subseteq {x.qr}
                         ELSE Tracked(d)
    BY <1>4, <1>6, <2>1 DEF WorkKnown, ListKnown
  <2>5. (\A d \in Conns : Tracked(d))'
    BY <2>2, <2>3, <2>4 DEF Tracked
  <2>6. ListsOK'
    BY <1>6, <2>1 DEF ListsOK
  <2>7. JobOn(x.job, x, C)'
    BY <1>11, <2>1 DEF rows
  <2>8. Lands(AfterQr(x))'
    BY <1>3, <1>8, <1>10, <1>13, <2>1, <2>5, <2>7
  <2>9. PICK y : y = AfterQr(x)
    OBVIOUS
  <2>. QED  BY <1>7, <2>1, <2>6, <2>8, <2>9
<1>23. CASE FindCards(p)
  <2>1. PICK z : z = [x EXCEPT !.todo = {k \in Cards : card[k].sync = "PENDING"},
                               !.stale = {k \in {l \in Cards : card[l].sync = "PENDING"} :
                                              card[k].revoked}]
    OBVIOUS
  <2>2. UNCHANGED <<rows, server, key>> /\ x.pc = "findCards" /\ h' = [h EXCEPT ![p] = NextCard(z)]
    BY <1>1, <1>4, <1>5, <1>23, <2>1 DEF FindCards
  <2>3. /\ z \in Handlers /\ z.conns = x.conns /\ z.job = x.job /\ z.qr = x.qr /\ z.user = x.user
        /\ z.then = x.then /\ z.copy = x.copy
    BY <2>1 DEF Handlers, Badges
  <2>4. (\A d \in Conns : Tracked(d))' /\ ListsOK'
    BY <1>6, <1>10, <2>2 DEF Tracked, QrsOf, ListsOK
  <2>5. JobOn(x.job, z, C)'
    BY <1>11, <2>2, <2>3 DEF rows
  <2>6. Done(z)'
    BY <1>4, <1>9, <1>10, <2>2, <2>3, <2>4, <2>5 DEF Done
  <2>7. Lands(NextCard(z))'
    BY <1>3, <1>8, <1>10, <2>3, <2>6 DEF AtWork
  <2>8. PICK y : y = NextCard(z)
    OBVIOUS
  <2>. QED  BY <1>7, <2>2, <2>4, <2>7, <2>8
\* A call about one card.
<1>24. ASSUME NEW y, y.pc \in {"getCards", "putCard", "verify", "saveCard"},
              y.conns = x.conns, y.job = x.job, y.qr = x.qr, y.copy = x.copy, y.user = x.user,
              x.pc \in {"postCard", "getCards", "putCard", "verify"},
              card' = card, key' = key,
              server'[c].user = server[c].user, \A d \in Conns \ {c} : server'[d] = server[d],
              server[c].list \cap Cards \subseteq server'[c].list,
              QrsOf(c)' = QrsOf(c),
              y.pc = "putCard" /\ y.user = UserIdOn(c) => y.list = server'[c].list,
              y.pc \in {"getCards", "putCard"} => ~y.linked,
              y.pc = "saveCard" /\ y.linked => y.card \in server'[c].list
       PROVE  Lands(y)'
  <2>1. JobOn(x.job, y, C)'
    BY <1>11, <1>24
  <2>2. (\A d \in Conns : Tracked(d))'
    BY <1>10, <1>24 DEF Tracked, QrsOf
  <2>3. ListKnown(y)'
    BY <1>4, <1>24, <2>2 DEF ListKnown
  <2>. QED  BY <1>10, <1>12, <1>24, <2>1, <2>3
<1>25. CASE PostCard(p)
  <2> DEFINE bx == c \in BioStarX
             accepts(k) == bx \/ (Found(p) /\ k \notin server[c].cards)
             after(k) == [server[c] EXCEPT !.cards = @ \cup {k},
                                           !.list = IF bx THEN @ ELSE @ \cup {k}]
             next(k, o) == [x EXCEPT !.todo = @ \ {k}, !.card = k,
                                     !.linked = (o = "ok" /\ accepts(k) /\ ~bx),
                                     !.pc = IF bx /\ o = "ok" THEN "getCards" ELSE "saveCard"]
  <2>0. PICK k \in h[p].todo, o \in Outcomes :
            LET onX == Here(p) \in BioStarX
                accepted == onX \/ (Found(p) /\ k \notin server[Here(p)].cards) IN
            /\ Effect(Here(p), IF accepted THEN o ELSE "failed",
                      [server[Here(p)] EXCEPT !.cards = @ \cup {k},
                                              !.list = IF onX THEN @ ELSE @ \cup {k}])
            /\ Call(o)
            /\ h' = [h EXCEPT ![p].todo = @ \ {k}, ![p].card = k,
                              ![p].linked = (o = "ok" /\ accepted /\ ~onX),
                              ![p].pc = IF onX /\ o = "ok" THEN "getCards" ELSE "saveCard"]
    BY <1>25 DEF PostCard
  <2>0a. /\ k \in x.todo /\ o = "ok" /\ Effect(c, IF accepts(k) THEN o ELSE "failed", after(k))
         /\ h' = [h EXCEPT ![p] = next(k, o)]
    BY <1>1, <1>3, <1>4, <1>5, <2>0
  <2> DEFINE accepted == accepts(k)
  <2>1. /\ server' = IF accepted THEN [server EXCEPT ![c] = after(k)] ELSE server
        /\ h' = [h EXCEPT ![p] = next(k, "ok")]
    BY <2>0a DEF Effect
  <2>2. card' = card /\ key' = key /\ x.pc = "postCard"
    BY <1>1, <1>25 DEF PostCard, rows
  <2>3. PICK y : y = next(k, "ok")
    OBVIOUS
  <2>4. /\ y.pc = (IF bx THEN "getCards" ELSE "saveCard") /\ (y.linked <=> accepted /\ ~bx)
        /\ y.conns = x.conns /\ y.job = x.job /\ y.qr = x.qr /\ y.copy = x.copy /\ y.user = x.user /\ y.card = k
    BY <2>3 DEF Handlers
  <2>5. k \in Cards
    BY <1>3, <2>0a, <2>2 DEF HandlerOK, OnCards
  <2>6. /\ server'[c].list = (IF accepted /\ ~bx THEN server[c].list \cup {k} ELSE server[c].list)
        /\ server'[c].cards = (IF accepted THEN server[c].cards \cup {k} ELSE server[c].cards)
        /\ server'[c].user = server[c].user
        /\ \A d \in Conns \ {c} : server'[d] = server[d]
    BY <1>3, <2>1 DEF RestOK, Servers
  <2>7. ListsOK'
    <3>1. accepted /\ ~bx => server[c].user
      BY <1>n
    <3>. QED  BY <1>6, <2>6, <3>1 DEF ListsOK
  <2>8. QrsOf(c)' = QrsOf(c)
    BY <1>14, <2>5, <2>6 DEF QrsOf
  <2>9. h' = [h EXCEPT ![p] = y]
    BY <2>1, <2>3
  <2>10. /\ server[c].list \cap Cards \subseteq server'[c].list
         /\ y.pc = "saveCard" /\ y.linked => y.card \in server'[c].list
         /\ y.pc = "getCards" => ~y.linked
    BY <2>4, <2>6
  <2>11. y.pc \in {"getCards", "saveCard"}
    BY <2>4
  <2> HIDE DEF bx, accepted, next, after, accepts
  <2>12. Lands(y)'
    BY <1>24, <2>2, <2>4, <2>6, <2>8, <2>10, <2>11
  <2>. QED  BY <1>7, <2>7, <2>9, <2>12
<1>26. CASE GetCards(p)
  <2>1. /\ UNCHANGED <<rows, server, key>> /\ x.pc = "getCards"
        /\ h' = [h EXCEPT ![p] = [x EXCEPT !.pc = "putCard", !.list = CardsOf(p)]]
    BY <1>1, <1>4, <1>5, <1>26 DEF GetCards
  <2>2. PICK y : y = [x EXCEPT !.pc = "putCard", !.list = CardsOf(p)]
    OBVIOUS
  <2>3. /\ y.pc = "putCard" /\ y.conns = x.conns /\ y.job = x.job /\ y.qr = x.qr /\ y.copy = x.copy /\ y.user = x.user
        /\ (y.user = UserIdOn(c) => y.list = server[c].list) /\ y.linked = x.linked
    BY <1>n, <2>2 DEF Handlers
  <2>4. ~x.linked
    BY <1>6, <2>1 DEF WorkKnown, ListKnown
  <2>5. ListsOK' /\ QrsOf(c)' = QrsOf(c) /\ h' = [h EXCEPT ![p] = y]
    BY <1>6, <2>1, <2>2 DEF ListsOK, QrsOf
  <2>6. server' = server /\ card' = card /\ key' = key
    BY <2>1 DEF rows
  <2>7. Lands(y)'
    BY <1>24, <2>1, <2>3, <2>4, <2>5, <2>6
  <2>. QED  BY <1>7, <2>5, <2>7
<1>27. CASE PutCard(p)
  <2>1. PICK to : to = IF Found(p) THEN "verify" ELSE "saveCard"
    OBVIOUS
  <2>2. /\ UNCHANGED <<rows, key>> /\ x.pc = "putCard"
        /\ server' = IF Found(p) THEN [server EXCEPT ![c] = Put(c, x.list \cup {x.card})]
                     ELSE server
        /\ h' = [h EXCEPT ![p] = [x EXCEPT !.pc = to]]
    BY <1>1, <1>4, <1>5, <1>27, <2>1 DEF PutCard, Effect
  <2>3. PICK y : y = [x EXCEPT !.pc = to]
    OBVIOUS
  <2>4. /\ y.pc = to /\ y.conns = x.conns /\ y.job = x.job /\ y.qr = x.qr /\ y.copy = x.copy /\ y.user = x.user
        /\ y.linked = x.linked
    BY <2>3 DEF Handlers
  <2>5. ~x.linked /\ (Found(p) => x.list = server[c].list) /\ x.card \in Cards
    BY <1>3, <1>4, <1>6, <1>n, <2>2 DEF WorkKnown, ListKnown, HandlerOK, OnCard
  <2>6. /\ server'[c].list = IF Found(p) THEN (x.list \cup {x.card}) \cap server[c].cards
                             ELSE server[c].list
        /\ server'[c].user = server[c].user /\ server'[c].cards = server[c].cards
        /\ \A d \in Conns \ {c} : server'[d] = server[d]
    BY <1>3, <2>2 DEF RestOK, Servers, Put
  <2>7. ListsOK' /\ server[c].list \cap Cards \subseteq server'[c].list
    BY <1>6, <1>n, <2>5, <2>6 DEF ListsOK
  <2>8. QrsOf(c)' = QrsOf(c)
    BY <1>6, <1>14, <2>5, <2>6 DEF QrsOf, ListsOK
  <2>9. h' = [h EXCEPT ![p] = y]
    BY <2>2, <2>3
  <2>10. card' = card /\ key' = key /\ x.pc = "putCard"
    BY <2>2 DEF rows
  <2>11. Lands(y)'
    BY <1>24, <2>1, <2>4, <2>5, <2>6, <2>7, <2>8, <2>10
  <2>. QED  BY <1>7, <2>7, <2>9, <2>11
<1>28. CASE VerifyCard(p)
  <2> DEFINE there == x.card \in CardsOf(p)
  <2>0. PICK o : /\ Call(o)
                 /\ h' = [h EXCEPT ![p] = [x EXCEPT !.pc = "saveCard",
                                                    !.linked = (o = "ok" /\ there)]]
    BY <1>1, <1>4, <1>28 DEF VerifyCard
  <2>1. o = "ok"
    BY <1>5, <2>0
  <2>2. server' = server /\ card' = card /\ key' = key /\ x.pc = "verify"
    BY <1>1, <1>28 DEF VerifyCard, rows
  <2>3. PICK y : y = [x EXCEPT !.pc = "saveCard", !.linked = there]
    OBVIOUS
  <2>4. /\ y.pc = "saveCard" /\ y.conns = x.conns /\ y.job = x.job /\ y.qr = x.qr /\ y.copy = x.copy
        /\ y.user = x.user /\ (y.linked <=> there) /\ y.card = x.card
        /\ (there => x.card \in server[c].list)
    BY <1>n, <2>3 DEF Handlers
  <2>5. ListsOK' /\ QrsOf(c)' = QrsOf(c)
    BY <1>6, <2>2 DEF ListsOK, QrsOf
  <2>6. h' = [h EXCEPT ![p] = y]
    BY <2>0, <2>1, <2>3
  <2>7. Lands(y)'
    BY <1>24, <2>2, <2>4, <2>5
  <2>. QED  BY <1>7, <2>5, <2>6, <2>7
<1>29. CASE SaveCard(p)
  <2>1. /\ UNCHANGED <<visit, server, key>> /\ x.pc = "saveCard"
        /\ card' = [card EXCEPT ![x.card] =
                     [revoked |-> x.card \in x.stale,
                      sync    |-> IF x.linked THEN "SYNCED" ELSE "PENDING"]]
        /\ h' = [h EXCEPT ![p] = NextCard(x)]
    BY <1>1, <1>29 DEF SaveCard
  <2>2. x.linked => x.card \in server[c].list
    BY <1>4, <1>6, <2>1 DEF WorkKnown, ListKnown
  <2>3. \A k \in Cards : card'[k].sync = "SYNCED" =>
            card[k].sync = "SYNCED" \/ \E d \in Conns : k \in server'[d].list
    <3> SUFFICES ASSUME NEW k \in Cards, card'[k].sync = "SYNCED", card[k].sync # "SYNCED"
                 PROVE  k \in server'[c].list
      OBVIOUS
    <3>1. k = x.card
      BY <1>3, <2>1 DEF RestOK
    <3>2. card'[k].sync = IF x.linked THEN "SYNCED" ELSE "PENDING"
      BY <1>3, <2>1, <3>1 DEF RestOK
    <3>. QED  BY <2>1, <2>2, <3>1, <3>2
  <2>4. (\A d \in Conns : Tracked(d))' /\ ListsOK'
    BY <1>6, <1>10, <2>1 DEF Tracked, QrsOf, ListsOK
  <2>5. JobOn(x.job, x, C)'
    BY <1>11, <2>1, <2>3
  <2>6. Lands(NextCard(x))'
    BY <1>3, <1>8, <1>10, <1>13, <2>1, <2>4, <2>5
  <2>7. PICK y : y = NextCard(x)
    OBVIOUS
  <2>. QED  BY <1>7, <2>1, <2>4, <2>6, <2>7
<1>. QED  BY <1>15, <1>16, <1>17, <1>18, <1>19, <1>20, <1>21, <1>22, <1>23, <1>25, <1>26, <1>27,
             <1>28, <1>29 DEF ServerStep

\* An operation on the visit begins when nobody is at work, with the row at hand, ...
LEMMA VisitBegins ==
    ASSUME TypeInv, ServerInv, NEW p \in Requests,
           \/ CheckInVisit(p) \/ TemporaryReenableVisit(p) \/ CheckoutVisit(p)
           \/ ReportFalseExit(p) \/ ForceSyncVisit(p)
    PROVE  ServerInv'
<1> SUFFICES ASSUME Calm' PROVE ServerInv'
  BY DEF ServerInv
<1>1. PICK x \in Handlers : x = h[p]
  BY DEF TypeInv
<1>2. /\ UNCHANGED <<rows, server, key>> /\ faults' = faults /\ x.pc = "idle" /\ Enter(p)
  BY <1>1 DEF CheckInVisit, TemporaryReenableVisit, CheckoutVisit, ReportFalseExit, ForceSyncVisit
<1>3. /\ Calm /\ ~Works(x) /\ h \in [Requests -> Handlers] /\ RestOK
      /\ \A q \in Requests : ~Works(h[q])
  BY <1>1, <1>2 DEF Calm, Works, Enter, Working, TypeInv
<1>4. x = Idle /\ ListsOK /\ RestKnown
  BY <1>1, <1>2, <1>3 DEF ServerInv
<1>5. x.qr = 0 /\ x.then = "done"
  BY <1>4 DEF Idle
<1>6. ASSUME NEW y, Works(y), h' = [h EXCEPT ![p] = y], WorkKnown(y)' PROVE ServerInv'
  <2>1. ListsOK'
    BY <1>2, <1>4 DEF ListsOK
  <2>. QED  BY <1>1, <1>2, <1>3, <1>6, <2>1, BeginKnows
<1>7. (\A d \in Conns : Tracked(d))' /\ (NoUserOn(Conns) => NoUserOn(Conns)')
  BY <1>2, <1>4 DEF RestKnown, Tracked, QrsOf, NoUserOn
\* It has the visit's entity, and is about to save it.
<1>8. ASSUME NEW y, y.pc \in {"reset", "save"},
             y.qr = 0, y.copy.ref = visit.ref,
             y.pc = "reset" => y.then = "sync",
             y.copy.status = "CHECKED_OUT" => y.pc = "save" /\ y.then = "checkout",
             y.pc = "save" => \/ y.then = "sync" /\ renewed'
                              \/ y.then \in {"done", "checkout"} /\ y.copy.status # "CHECKED_IN"
      PROVE  Works(y) /\ WorkKnown(y)'
  <2>1. ListKnown(y)'
    BY <1>7, <1>8 DEF ListKnown
  <2>2. EntityKnown(y)'
    BY <1>4, <1>7, <1>8 DEF EntityKnown, RestKnown, RowAccounts
  <2>3. JobKnown(y)' /\ Works(y)
    BY <1>8 DEF JobKnown, OnServer, Works
  <2>. QED  BY <2>1, <2>2, <2>3 DEF WorkKnown
<1>9. visit \in VisitRows
  BY <1>3 DEF RestOK
<1>10. CASE CheckInVisit(p)
  <2>1. PICK y : y = [x EXCEPT !.pc = "reset", !.then = "sync",
                               !.copy = [visit EXCEPT !.status = "CHECKED_IN"]]
    OBVIOUS
  <2>2. /\ y.pc = "reset" /\ y.then = "sync" /\ y.copy.ref = visit.ref
        /\ y.copy.status = "CHECKED_IN" /\ y.qr = x.qr
    BY <1>9, <2>1 DEF Handlers, VisitRows
  <2>3. h' = [h EXCEPT ![p] = y]
    BY <1>1, <1>3, <1>10, <2>1 DEF CheckInVisit
  <2>4. Works(y) /\ WorkKnown(y)'
    BY <1>5, <1>8, <2>2, <2>3
  <2>. QED  BY <1>6, <2>3, <2>4
<1>11. CASE TemporaryReenableVisit(p)
  <2>1. PICK y : y = [x EXCEPT !.pc = "save", !.then = "sync",
                               !.copy = [visit EXCEPT !.status = "CHECKED_IN"]]
    OBVIOUS
  <2>2. /\ y.pc = "save" /\ y.then = "sync" /\ y.copy.ref = visit.ref
        /\ y.copy.status = "CHECKED_IN" /\ y.qr = x.qr
    BY <1>9, <2>1 DEF Handlers, VisitRows
  <2>3. h' = [h EXCEPT ![p] = y] /\ renewed'
    BY <1>1, <1>3, <1>11, <2>1 DEF TemporaryReenableVisit
  <2>4. Works(y) /\ WorkKnown(y)'
    BY <1>5, <1>8, <2>2, <2>3
  <2>. QED  BY <1>6, <2>3, <2>4
<1>12. CASE CheckoutVisit(p)
  <2>1. PICK y : y = [x EXCEPT !.pc = "save", !.then = "checkout",
                               !.copy = [visit EXCEPT !.status = "CHECKED_OUT"]]
    OBVIOUS
  <2>2. /\ y.pc = "save" /\ y.then = "checkout" /\ y.copy.ref = visit.ref
        /\ y.copy.status = "CHECKED_OUT" /\ y.qr = x.qr
    BY <1>9, <2>1 DEF Handlers, VisitRows
  <2>3. h' = [h EXCEPT ![p] = y]
    BY <1>1, <1>3, <1>12, <2>1 DEF CheckoutVisit
  <2>4. Works(y) /\ WorkKnown(y)'
    BY <1>5, <1>8, <2>2, <2>3
  <2>. QED  BY <1>6, <2>3, <2>4
<1>13. CASE ReportFalseExit(p)
  <2>1. PICK y : y = [x EXCEPT !.pc = "save",
                               !.copy = [visit EXCEPT !.status = "FALSE_EXIT_REPORTED"]]
    OBVIOUS
  <2>2. /\ y.pc = "save" /\ y.then = x.then /\ y.copy.ref = visit.ref
        /\ y.copy.status = "FALSE_EXIT_REPORTED" /\ y.qr = x.qr
    BY <1>9, <2>1 DEF Handlers, VisitRows
  <2>3. h' = [h EXCEPT ![p] = y]
    BY <1>1, <1>3, <1>13, <2>1 DEF ReportFalseExit
  <2>4. Works(y) /\ WorkKnown(y)'
    BY <1>5, <1>8, <2>2, <2>3
  <2>. QED  BY <1>6, <2>3, <2>4
<1>14. CASE ForceSyncVisit(p)
  <2>1. PICK z : z = [x EXCEPT !.copy = visit, !.then = "force"]
    OBVIOUS
  <2>2. PICK u : u = visit.ref
    OBVIOUS
  <2>3. u # NoUser /\ u \in UserIds \cup {NoUser}
    BY <1>4, <1>9, <1>14, <2>2 DEF ForceSyncVisit, RestKnown, RowAccounts, VisitRows
  <2>4. PICK y : y = Start(z, "delete", u)
    OBVIOUS
  <2>5. h' = [h EXCEPT ![p] = y]
    BY <1>1, <1>3, <1>14, <2>1, <2>2, <2>3, <2>4 DEF ForceSyncVisit
  <2>6. z \in Handlers /\ z.then = "force" /\ z.copy.status = "CHECKED_IN"
    BY <1>9, <1>14, <2>1 DEF Handlers, ForceSyncVisit
  <2>7. JobOn("delete", z, Conns)'
    BY <1>5, <2>6 DEF JobOn, NoUserOn
  <2>8. Works(y) /\ WorkKnown(y)'
    BY <1>7, <2>3, <2>4, <2>6, <2>7, TargetsKnownLater DEF Targets, Jobs, Works
  <2>. QED  BY <1>6, <2>5, <2>8
<1>. QED  BY <1>10, <1>11, <1>12, <1>13, <1>14

\* ... and goes on with its entity, on the servers and in the row.
LEMMA VisitGoesOn ==
    ASSUME TypeInv, ServerInv, NEW p \in Requests,
           \/ ResetCards(p) \/ ForceReset(p) \/ ForceFind(p) \/ Save(p) \/ AfterSync(p)
           \/ DeleteFromConnection(p) \/ AfterDelete(p)
    PROVE  ServerInv'
<1> SUFFICES ASSUME Calm' PROVE ServerInv'
  BY DEF ServerInv
<1>1. PICK x \in Handlers : x = h[p]
  BY DEF TypeInv
<1>2. /\ x.pc \in {"reset", "forceReset", "forceFind", "save", "synced", "deleteUser", "deleted"}
      /\ UNCHANGED met
  BY <1>1, Zenon DEF ResetCards, ForceReset, ForceFind, Save, AfterSync,
                  DeleteFromConnection, AfterDelete
<1>3. faults = 0 /\ \A o : Call(o) => o = "ok"
  <2>1. \A o : Call(o) => o = "ok" /\ faults = 0
    BY CallCalm DEF Calm
  <2>2. faults' = faults \/ \E o : Call(o)
    BY Zenon DEF ResetCards, ForceReset, ForceFind, Save, AfterSync,
                  DeleteFromConnection, AfterDelete
  <2>. QED  BY <2>1, <2>2 DEF Calm
<1>4. /\ Calm /\ Works(x) /\ ListsOK /\ WorkKnown(x)
      /\ HandlerOK(x) /\ h \in [Requests -> Handlers] /\ RestOK
  BY <1>1, <1>2, <1>3 DEF Calm, ServerInv, Works, TypeInv, met
<1>5. ASSUME NEW y, h' = [h EXCEPT ![p] = y], ListsOK', Lands(y)' PROVE ServerInv'
  BY <1>1, <1>4, <1>5, GoOnKnows DEF Lands
<1>6. \A w \in Handlers :
          /\ AtWork(w) /\ Done(w)' => Lands(NextConn(w))'
          /\ \A j \in Jobs, u \in UserIds \cup {NoUser} :
                 JobOn(j, w, Conns)' /\ (\A d \in Conns : Tracked(d)') =>
                     Lands(Start(w, j, u))'
  BY TargetsKnownLater DEF Targets, AtWork
<1>7. \A d \in Conns : Tracked(d)
  BY <1>2, <1>4 DEF WorkKnown, ListKnown
\* It is still to save its entity.
<1>8. ASSUME UNCHANGED <<server, key>>,
             NEW y, y.pc \in {"save", "forceReset", "forceFind"}, EntityKnown(y)'
      PROVE  ListsOK' /\ Lands(y)'
  <2>1. ListsOK' /\ ListKnown(y)'
    BY <1>4, <1>7, <1>8 DEF ListsOK, ListKnown, Tracked, QrsOf
  <2>2. JobKnown(y)' /\ Works(y) /\ y.pc # "idle"
    BY <1>8 DEF JobKnown, OnServer, Works
  <2>3. WorkKnown(y)'
    BY <1>8, <2>1, <2>2 DEF WorkKnown
  <2>. QED  BY <2>1, <2>2, <2>3 DEF Lands, Known, Works
<1>9. UNCHANGED server => (NoUserOn(Conns) => NoUserOn(Conns)')
  BY DEF NoUserOn
<1>10. CASE ResetCards(p)
  <2>1. PICK y : y = [x EXCEPT !.pc = "save"]
    OBVIOUS
  <2>2. /\ y.pc = "save" /\ y.then = x.then /\ y.copy = x.copy /\ y.qr = x.qr /\ y.user = x.user
    BY <2>1 DEF Handlers
  <2>3. h' = [h EXCEPT ![p] = y] /\ UNCHANGED <<server, key>> /\ x.pc = "reset"
    BY <1>1, <1>4, <1>10, <2>1 DEF ResetCards
  <2>4. NoneSynced'
    BY <1>4, <1>10 DEF ResetCards, NoneSynced, RestOK, CardRows
  <2>5. EntityKnown(y)'
    BY <1>4, <1>9, <2>2, <2>3, <2>4 DEF WorkKnown, EntityKnown
  <2>6. ListsOK' /\ Lands(y)'
    BY <1>8, <2>2, <2>3, <2>5
  <2>. QED  BY <1>5, <2>3, <2>6
<1>11. CASE ForceReset(p)
  <2>1. PICK y : y = [x EXCEPT !.pc = "forceFind"]
    OBVIOUS
  <2>2. /\ y.pc = "forceFind" /\ y.copy = x.copy /\ y.user = x.user
    BY <2>1 DEF Handlers
  <2>3. h' = [h EXCEPT ![p] = y] /\ UNCHANGED <<server, key>> /\ x.pc = "forceReset"
    BY <1>1, <1>4, <1>11, <2>1 DEF ForceReset
  <2>4. NoneSynced'
    BY <1>4, <1>11 DEF ForceReset, NoneSynced, RestOK, CardRows
  <2>5. EntityKnown(y)'
    BY <1>4, <1>9, <2>2, <2>3, <2>4 DEF WorkKnown, EntityKnown
  <2>6. ListsOK' /\ Lands(y)'
    BY <1>8, <2>2, <2>3, <2>5
  <2>. QED  BY <1>5, <2>3, <2>6
<1>12. CASE ForceFind(p)
  <2>1. PICK y : y = [x EXCEPT !.pc = "save", !.qr = LatestQr, !.then = "sync"]
    OBVIOUS
  <2>2. /\ y.pc = "save" /\ y.then = "sync" /\ y.copy = x.copy /\ y.user = x.user
    BY <2>1 DEF Handlers
  <2>3. /\ h' = [h EXCEPT ![p] = y] /\ UNCHANGED <<server, key, rows>>
        /\ x.pc = "forceFind"
    BY <1>1, <1>4, <1>12, <2>1 DEF ForceFind
  <2>4. NoneSynced'
    BY <1>4, <2>3 DEF WorkKnown, EntityKnown, NoneSynced, rows
  <2>5. EntityKnown(y)'
    BY <1>4, <1>9, <2>2, <2>3, <2>4 DEF WorkKnown, EntityKnown
  <2>6. ListsOK' /\ Lands(y)'
    BY <1>8, <2>2, <2>3, <2>5
  <2>. QED  BY <1>5, <2>3, <2>6
<1>13. CASE Save(p)
  <2>0. /\ visit' = x.copy /\ UNCHANGED <<server, key, card, renewed>> /\ x.pc = "save"
        /\ h' = [h EXCEPT ![p] =
             CASE x.then = "sync"  -> Start([x EXCEPT !.then = "done"], "sync", NoUser)
               [] x.then = "force" -> [x EXCEPT !.pc = "forceReset", !.then = "done"]
               [] x.then = "checkout" /\ x.copy.ref # NoUser ->
                                      Start([x EXCEPT !.then = "done"], "delete", x.copy.ref)
               [] OTHER            -> Idle]
    BY <1>1, <1>4, <1>13 DEF Save
  <2>1. EntityKnown(x) /\ x.then \in {"done", "checkout", "sync", "force"}
    BY <1>4, <2>0 DEF WorkKnown, EntityKnown
  <2>2. (\A d \in Conns : Tracked(d))' /\ ListsOK'
    BY <1>4, <1>7, <2>0 DEF Tracked, QrsOf, ListsOK
  <2>3. PICK z : z = [x EXCEPT !.then = "done"]
    OBVIOUS
  <2>4. /\ z \in Handlers /\ z.then = "done" /\ z.copy = x.copy /\ z.qr = x.qr /\ z.user = x.user
    BY <2>3 DEF Handlers
  <2>5. CASE x.then = "sync"
    <3>1. OneKind /\ x.copy.ref = NoUser => \A c \in Conns : server'[c].list = {}
      BY <1>4, <2>0, <2>1 DEF EntityKnown, NoUserOn, ListsOK
    <3>2. renewed' \/ SyncedOpens'
      BY <2>0, <2>1, <2>5 DEF EntityKnown, NoneSynced, SyncedOpens
    <3>3. JobOn("sync", z, Conns)'
      BY <2>0, <2>1, <2>4, <2>5, <3>1, <3>2 DEF EntityKnown, JobOn
    <3>4. Lands(Start(z, "sync", NoUser))'
      BY <1>6, <2>2, <2>4, <3>3 DEF Jobs
    <3>5. PICK y : y = Start(z, "sync", NoUser)
      OBVIOUS
    <3>6. h' = [h EXCEPT ![p] = y]
      BY <2>0, <2>3, <2>5, <3>5
    <3>. QED  BY <1>5, <2>2, <3>4, <3>5, <3>6
  <2>6. CASE x.then = "force"
    <3>1. PICK y : y = [x EXCEPT !.pc = "forceReset", !.then = "done"]
      OBVIOUS
    <3>2. y.pc = "forceReset" /\ y.copy = x.copy /\ y.user = x.user
      BY <3>1 DEF Handlers
    <3>3. h' = [h EXCEPT ![p] = y]
      BY <2>0, <2>6, <3>1
    <3>4. EntityKnown(y)'
      BY <1>9, <2>0, <2>1, <2>6, <3>2 DEF EntityKnown
    <3>5. ListsOK' /\ Lands(y)'
      BY <1>8, <2>0, <3>2, <3>4
    <3>. QED  BY <1>5, <3>3, <3>5
  <2>7. CASE x.then = "checkout" /\ x.copy.ref # NoUser
    <3>0. x.copy.ref \in UserIds \cup {NoUser}
      BY DEF Handlers, VisitRows
    <3>1. JobOn("delete", z, Conns)'
      BY <2>0, <2>1, <2>4, <2>7 DEF EntityKnown, JobOn, NoUserOn
    <3>2. Lands(Start(z, "delete", x.copy.ref))'
      BY <1>6, <2>2, <2>4, <3>0, <3>1 DEF Jobs
    <3>3. PICK y : y = Start(z, "delete", x.copy.ref)
      OBVIOUS
    <3>4. h' = [h EXCEPT ![p] = y]
      BY <2>0, <2>3, <2>7, <3>3
    <3>. QED  BY <1>5, <2>2, <3>2, <3>3, <3>4
  <2>8. CASE x.then = "done" \/ (x.then = "checkout" /\ x.copy.ref = NoUser)
    <3>1. h' = [h EXCEPT ![p] = Idle]
      BY <2>0, <2>8
    <3>2. RowAccounts'
      BY <1>9, <2>0, <2>1, <2>8 DEF EntityKnown, RowAccounts, Admitted
    <3>3. PICK y : y = Idle
      OBVIOUS
    <3>4. Lands(y)'
      BY <2>2, <3>2, <3>3 DEF Lands, Known, RestKnown, Works, Idle
    <3>. QED  BY <1>5, <2>2, <3>1, <3>3, <3>4
  <2>. QED  BY <2>1, <2>5, <2>6, <2>7, <2>8
<1>14. CASE AfterSync(p)
  <2>1. x.user # NoUser /\ (renewed \/ SyncedOpens) /\ x.copy.status # "CHECKED_OUT"
    BY <1>1, <1>4, <1>14 DEF AfterSync, WorkKnown, JobKnown, JobOn
  <2>2. /\ visit' = [x.copy EXCEPT !.ref = x.user] /\ UNCHANGED <<server, key, card, renewed>>
        /\ h' = [h EXCEPT ![p] = Idle]
    BY <1>1, <1>14, <2>1 DEF AfterSync
  <2>3. visit'.ref # NoUser /\ visit'.status # "CHECKED_OUT"
    BY <2>1, <2>2 DEF Handlers, VisitRows
  <2>4. RowAccounts'
    BY <2>1, <2>2, <2>3 DEF RowAccounts, SyncedOpens
  <2>5. (\A d \in Conns : Tracked(d))' /\ ListsOK'
    BY <1>4, <1>7, <2>2 DEF Tracked, QrsOf, ListsOK
  <2>6. PICK y : y = Idle
    OBVIOUS
  <2>7. Lands(y)'
    BY <2>4, <2>5, <2>6 DEF Lands, Known, RestKnown, Works, Idle
  <2>. QED  BY <1>5, <2>2, <2>5, <2>6, <2>7
<1>15. CASE DeleteFromConnection(p)
  <2>1. x.pc = "deleteUser" /\ AtWork(x) /\ Here(p) \in Conns
    BY <1>1, <1>4, <1>15, HereOK DEF DeleteFromConnection, HandlerOK, OnServer
  <2>2. PICK c \in Conns : c = Here(p) /\ c = First(x.conns)
    BY <1>1, <2>1 DEF Here
  <2>n. OneKind => Named(p)
    <3>1. x.user # NoUser
      BY <1>4, <2>1 DEF HandlerOK, Names, OnServer
    <3>2. \E d \in Conns : x.user = UserIdOn(d)
      BY <3>1 DEF Handlers, UserIds
    <3>. QED  BY <1>1, <2>2, <3>2 DEF Named, OneKind, UserIdOn
  <2>3. PICK kept \in {server[c].cards, server[c].cards \ server[c].list} :
            /\ server' = IF Named(p)
                         THEN [server EXCEPT ![c] = [user |-> FALSE, cards |-> kept, list |-> {}]]
                         ELSE server
            /\ key' = IF Named(p) THEN [key EXCEPT ![c] = 0] ELSE key
            /\ h' = [h EXCEPT ![p] = NextConn(x)] /\ UNCHANGED <<rows, renewed>>
    BY <1>1, <1>3, <1>15, <2>2 DEF DeleteFromConnection, Effect
  <2>4. /\ Named(p) => ~server'[c].user /\ server'[c].list = {} /\ key'[c] = 0
        /\ ~Named(p) => server'[c] = server[c] /\ key'[c] = key[c]
        /\ \A d \in Conns \ {c} : server'[d] = server[d] /\ key'[d] = key[d]
    BY <1>4, <2>3 DEF RestOK
  <2>5. (\A d \in Conns : Tracked(d))' /\ ListsOK'
    BY <1>4, <1>7, <2>4 DEF Tracked, QrsOf, ListsOK
  <2>6. x.job = "delete" /\ JobOn("delete", x, x.conns)
    BY <1>4, <2>1 DEF WorkKnown, JobKnown, Left, OnServer
  <2>7. JobOn("delete", x, x.conns \ {c})'
    <3>1. NoUserOn(Conns \ (x.conns \ {c}))'
      BY <2>n, <2>4, <2>6 DEF JobOn, NoUserOn
    <3>. QED  BY <2>3, <2>6, <3>1 DEF JobOn, rows
  <2>8. Done(x)'
    BY <2>2, <2>5, <2>6, <2>7 DEF Done
  <2>9. Lands(NextConn(x))'
    BY <1>6, <2>1, <2>8
  <2>10. PICK y : y = NextConn(x)
    OBVIOUS
  <2>. QED  BY <1>5, <2>3, <2>5, <2>9, <2>10
<1>16. CASE AfterDelete(p)
  <2>1. PICK v : v = [x.copy EXCEPT !.ref = NoUser]
    OBVIOUS
  <2>2. PICK y : y = [x EXCEPT !.pc = "save", !.copy = v, !.job = "none"]
    OBVIOUS
  <2>3. v.ref = NoUser /\ v.status = x.copy.status
    BY <2>1 DEF Handlers, VisitRows
  <2>4. /\ y.pc = "save" /\ y.copy = v /\ y.then = x.then /\ y.user = x.user
    BY <2>2 DEF Handlers
  <2>5. h' = [h EXCEPT ![p] = y] /\ UNCHANGED <<server, key>> /\ x.pc = "deleted"
    BY <1>1, <1>4, <1>16, <2>1, <2>2 DEF AfterDelete
  <2>6. JobOn("delete", x, {})
    BY <1>4, <2>5 DEF WorkKnown, JobKnown
  <2>7. NoUserOn(Conns)'
    BY <2>5, <2>6 DEF JobOn, NoUserOn
  <2>8. EntityKnown(y)'
    BY <2>3, <2>4, <2>6, <2>7 DEF JobOn, EntityKnown
  <2>9. ListsOK' /\ Lands(y)'
    BY <1>8, <2>4, <2>5, <2>8
  <2>. QED  BY <1>5, <2>5, <2>9
<1>. QED  BY <1>10, <1>11, <1>12, <1>13, <1>14, <1>15, <1>16

\* The other requests: they leave the servers alone, or begin to work on them.
LEMMA RequestStepKnows ==
    ASSUME TypeInv, ServerInv, NEW p \in Requests, RequestStep(p)
    PROVE  ServerInv'
<1> SUFFICES ASSUME Calm' PROVE ServerInv'
  BY DEF ServerInv
<1>1. PICK x \in Handlers : x = h[p]
  BY DEF TypeInv
<1>2. ~Works(x) /\ ServersSame /\ faults' = faults /\ (overlapped => overlapped')
  <2>1. x.pc \in {"idle", "findQr", "revokeQr", "issueQr", "portal", "exists", "flag",
                  "insertCard", "burn"}
    BY <1>1 DEF RequestStep, RefreshQrForPortal, AddQr, ReplaceQr, FindQr, RevokeOldQr, IssueQr,
           GetQrForPortal, PortalFind, CheckFlag, SetFlag, AddCard, InsertCard, BurnQrForUser,
           BurnNext
  <2>2. visit' = visit /\ server' = server /\ key' = key
    BY DEF RequestStep, RefreshQrForPortal, AddQr, ReplaceQr, FindQr, RevokeOldQr, IssueQr,
           GetQrForPortal, PortalFind, CheckFlag, SetFlag, AddCard, InsertCard, BurnQrForUser,
           BurnNext, rows
  <2>3. renewed' = renewed /\ faults' = faults
    BY DEF RequestStep, RefreshQrForPortal, AddQr, ReplaceQr, FindQr, RevokeOldQr, IssueQr,
           GetQrForPortal, PortalFind, CheckFlag, SetFlag, AddCard, InsertCard, BurnQrForUser,
           BurnNext
  <2>4. overlapped => overlapped'
    BY DEF RequestStep, RefreshQrForPortal, AddQr, ReplaceQr, FindQr, RevokeOldQr, IssueQr,
           GetQrForPortal, PortalFind, CheckFlag, SetFlag, AddCard, InsertCard, BurnQrForUser,
           BurnNext, Enter, met
  <2>. QED  BY <2>1, <2>2, <2>3, <2>4 DEF Works, ServersSame
<1>3. /\ Calm /\ h \in [Requests -> Handlers] /\ RestOK /\ HandlerOK(x)
  BY <1>1, <1>2 DEF Calm, TypeInv
<1>4. FewerSynced
  <2>1. CASE InsertCard(p)
    BY <1>3, <2>1 DEF InsertCard, FewerSynced, RestOK, CardRows
  <2>2. CASE ~InsertCard(p)
    BY <2>2 DEF RequestStep, RefreshQrForPortal, AddQr, ReplaceQr, FindQr, RevokeOldQr, IssueQr,
                GetQrForPortal, PortalFind, CheckFlag, SetFlag, AddCard, BurnQrForUser,
                BurnNext, FewerSynced, rows
  <2>. QED  BY <2>1, <2>2
<1>5. ASSUME NEW y, h' = [h EXCEPT ![p] = y], ~Works(y), y.pc = "idle" => y = Idle
      PROVE  ServerInv'
  BY <1>1, <1>2, <1>3, <1>4, <1>5, AsideKnows
<1>6. ASSUME NEW y, h' = [h EXCEPT ![p] = y], Enter(p), Works(y), RestKnown => WorkKnown(y)'
      PROVE  ServerInv'
  BY <1>1, <1>2, <1>4, <1>6, SameKnown, BeginKnows
\* A job that only needs what the rows and Redis account for.
<1>7. ASSUME NEW z \in Handlers, NEW j \in {"rotate", "push"}, NEW u \in UserIds \cup {NoUser},
             h' = [h EXCEPT ![p] = Start(z, j, u)], Enter(p)
      PROVE  ServerInv'
  <2>1. RestKnown => JobOn(j, z, Conns)' /\ \A c \in Conns : Tracked(c)'
    BY <1>2, <1>4, SameKnown DEF RestKnown, JobOn
  <2>2. JobOn(j, z, Conns)' /\ (\A c \in Conns : Tracked(c)') =>
            Works(Start(z, j, u)) /\ WorkKnown(Start(z, j, u))'
    BY TargetsKnownLater DEF Targets, Jobs, Works
  <2>3. Start(z, j, u).pc = FirstStep(j) /\ FirstStep(j) \in {"readKey", "findCards"}
    BY DEF Start, Handlers, FirstStep
  <2>4. PICK y : y = Start(z, j, u)
    OBVIOUS
  <2>5. Works(y)
    BY <2>3, <2>4 DEF Works
  <2>6. RestKnown => WorkKnown(y)'
    BY <2>1, <2>2, <2>4
  <2>. QED  BY <1>6, <1>7, <2>4, <2>5, <2>6
\* A request that goes another step, or is done.
<1>8. ASSUME NEW y, h' = [h EXCEPT ![p] = y],
             y = Idle \/ y.pc \in {"findQr", "revokeQr", "issueQr", "portal", "exists",
                                   "flag", "insertCard", "burn"}
      PROVE  ServerInv'
  <2>1. ~Works(y) /\ (y.pc = "idle" => y = Idle)
    BY <1>8 DEF Works, Idle
  <2>. QED  BY <1>5, <1>8, <2>1
<1>u. x.user \in UserIds \cup {NoUser} /\ x.copy.ref \in UserIds \cup {NoUser}
  BY DEF Handlers, VisitRows
<1>9. ASSUME NEW then \in {"rotate", "done"}, ReplaceQr(p, then) PROVE ServerInv'
  <2>1. PICK y : y = [x EXCEPT !.pc = "findQr", !.copy = visit, !.then = then]
    OBVIOUS
  <2>2. y.pc = "findQr" /\ h' = [h EXCEPT ![p] = y]
    BY <1>1, <1>3, <1>9, <2>1 DEF ReplaceQr, Handlers
  <2>. QED  BY <1>8, <2>2
<1>10. CASE FindQr(p)
  <2>1. PICK y : y = [x EXCEPT !.old = LatestQr,
                               !.pc = IF LatestQr = 0 THEN "issueQr" ELSE "revokeQr"]
    OBVIOUS
  <2>2. y.pc \in {"issueQr", "revokeQr"}
    BY <2>1 DEF Handlers
  <2>3. h' = [h EXCEPT ![p] = y]
    BY <1>1, <1>3, <1>10, <2>1 DEF FindQr
  <2>. QED  BY <1>8, <2>2, <2>3
<1>11. CASE RevokeOldQr(p)
  <2>1. PICK y : y = [x EXCEPT !.pc = "issueQr", !.old = 0]
    OBVIOUS
  <2>2. y.pc = "issueQr" /\ h' = [h EXCEPT ![p] = y]
    BY <1>1, <1>3, <1>11, <2>1 DEF RevokeOldQr, Handlers
  <2>. QED  BY <1>8, <2>2
<1>12. CASE IssueQr(p) /\ x.then = "rotate" /\ Admitted(x.copy)
  <2>1. PICK i \in Qrs : h' = [h EXCEPT ![p] = Start([Idle EXCEPT !.qr = i], "rotate", x.copy.ref)]
    BY <1>1, <1>3, <1>12 DEF IssueQr
  <2>2. PICK z : z = [Idle EXCEPT !.qr = i]
    OBVIOUS
  <2>3. z \in Handlers
    <3>1. i \in 0..MaxQrs /\ Idle \in Handlers
      BY CredentialsAssumption, IdleOK DEF Qrs, HandlerOK
    <3>. QED  BY <2>2, <3>1 DEF Handlers
  <2>4. Enter(p)
    BY <1>1, <1>12 DEF IssueQr
  <2>. QED  BY <1>7, <1>u, <2>1, <2>2, <2>3, <2>4
<1>13. CASE IssueQr(p) /\ ~(x.then = "rotate" /\ Admitted(x.copy))
  <2>1. h' = [h EXCEPT ![p] = Idle]
    BY <1>1, <1>3, <1>13 DEF IssueQr
  <2>2. PICK y : y = Idle
    OBVIOUS
  <2>. QED  BY <1>8, <2>1, <2>2
<1>14. CASE GetQrForPortal(p)
  <2>1. PICK y : y = [x EXCEPT !.pc = "portal", !.copy = visit]
    OBVIOUS
  <2>2. y.pc = "portal" /\ h' = [h EXCEPT ![p] = y]
    BY <1>1, <1>3, <1>14, <2>1 DEF GetQrForPortal, Handlers
  <2>. QED  BY <1>8, <2>2
<1>15. CASE PortalFind(p)
  <2>1. PICK z : z = [Idle EXCEPT !.pc = "exists", !.qr = LatestQr, !.user = x.copy.ref]
    OBVIOUS
  <2>2. PICK y : y = IF LatestQr # 0 /\ Admitted(x.copy) THEN z ELSE Idle
    OBVIOUS
  <2>3. z.pc = "exists"
    BY <2>1 DEF Idle
  <2>4. h' = [h EXCEPT ![p] = y]
    BY <1>1, <1>3, <1>15, <2>1, <2>2 DEF PortalFind
  <2>. QED  BY <1>8, <2>2, <2>3, <2>4
<1>16. CASE CheckFlag(p)
  <2>1. PICK y : y = IF flag THEN Idle ELSE [x EXCEPT !.pc = "flag"]
    OBVIOUS
  <2>2. y = Idle \/ y.pc = "flag"
    BY <2>1 DEF Handlers
  <2>3. h' = [h EXCEPT ![p] = y]
    BY <1>1, <1>3, <1>16, <2>1 DEF CheckFlag
  <2>. QED  BY <1>8, <2>2, <2>3
<1>17. CASE SetFlag(p)
  <2>1. h' = [h EXCEPT ![p] = Start(x, "rotate", x.user)] /\ Enter(p)
    BY <1>1, <1>3, <1>17 DEF SetFlag
  <2>. QED  BY <1>7, <1>u, <2>1
<1>18. ASSUME NEW k \in Cards, AddCard(p, k) PROVE ServerInv'
  <2>1. PICK y : y = [x EXCEPT !.pc = "insertCard", !.copy = visit, !.card = k]
    OBVIOUS
  <2>2. y.pc = "insertCard" /\ h' = [h EXCEPT ![p] = y]
    BY <1>1, <1>3, <1>18, <2>1 DEF AddCard, Handlers
  <2>. QED  BY <1>8, <2>2
<1>19. CASE InsertCard(p) /\ Admitted(x.copy)
  <2>1. h' = [h EXCEPT ![p] = Start(Idle, "push", x.copy.ref)] /\ Enter(p)
    BY <1>1, <1>3, <1>19 DEF InsertCard
  <2>2. PICK z : z = Idle
    OBVIOUS
  <2>3. z \in Handlers
    BY <2>2, IdleOK DEF HandlerOK
  <2>. QED  BY <1>7, <1>u, <2>1, <2>2, <2>3
<1>20. CASE InsertCard(p) /\ ~Admitted(x.copy)
  <2>1. h' = [h EXCEPT ![p] = Idle]
    BY <1>1, <1>3, <1>20 DEF InsertCard
  <2>2. PICK y : y = Idle
    OBVIOUS
  <2>. QED  BY <1>8, <2>1, <2>2
<1>21. CASE BurnQrForUser(p)
  <2>1. PICK y : y = [x EXCEPT !.pc = "burn", !.todo = Active]
    OBVIOUS
  <2>2. y.pc = "burn" /\ h' = [h EXCEPT ![p] = y]
    BY <1>1, <1>3, <1>21, <2>1 DEF BurnQrForUser, Handlers
  <2>. QED  BY <1>8, <2>2
<1>22. CASE BurnNext(p)
  <2>1. PICK i \in x.todo :
            h' = [h EXCEPT ![p] = IF x.todo \ {i} = {} THEN Idle
                                  ELSE [x EXCEPT !.todo = x.todo \ {i}]]
    BY <1>1, <1>3, <1>22 DEF BurnNext
  <2>2. PICK y : y = IF x.todo \ {i} = {} THEN Idle ELSE [x EXCEPT !.todo = x.todo \ {i}]
    OBVIOUS
  <2>3. x.pc = "burn"
    BY <1>1, <1>22 DEF BurnNext
  <2>4. y = Idle \/ y.pc = "burn"
    BY <2>2, <2>3 DEF Handlers
  <2>5. h' = [h EXCEPT ![p] = y]
    BY <2>1, <2>2
  <2>. QED  BY <1>8, <2>4, <2>5
<1>. QED  BY <1>9, <1>10, <1>11, <1>12, <1>13, <1>14, <1>15, <1>16, <1>17, <1>18, <1>19, <1>20,
             <1>21, <1>22 DEF RequestStep, RefreshQrForPortal, AddQr

LEMMA ServerNext == TypeInv /\ ServerInv /\ [Next]_vars => ServerInv'
<1> SUFFICES ASSUME TypeInv, ServerInv, [Next]_vars PROVE ServerInv'
  OBVIOUS
<1>1. ASSUME h' = h, ServersSame, FewerSynced, Calm' => Calm PROVE ServerInv'
  <2>1. CASE Calm
    <3>1. ListsOK' /\ (RestKnown => RestKnown')
      BY <1>1, <2>1, SameKnown DEF ServerInv
    <3>2. (\A p \in Requests : Works(h[p]) => WorkKnown(h[p]))'
      <4> SUFFICES ASSUME NEW p \in Requests, Works(h[p]) PROVE WorkKnown(h[p])'
        BY <1>1 DEF Works
      <4>1. PICK x \in Handlers : x = h[p] /\ x = h'[p]
        BY <1>1 DEF TypeInv
      <4>2. WorkKnown(x)'
        BY <1>1, <2>1, <4>1, SameKnown DEF ServerInv
      <4>. QED  BY <4>1, <4>2
    <3>. QED  BY <1>1, <2>1, <3>1, <3>2 DEF ServerInv, Works
  <2>2. CASE ~Calm
    BY <1>1, <2>2 DEF ServerInv
  <2>. QED  BY <2>1, <2>2
<1>2. CASE UNCHANGED vars
  BY <1>1, <1>2 DEF vars, ServersSame, FewerSynced, Calm
<1>3. CASE RevokeQr \/ ExpireFlag
  BY <1>1, <1>3 DEF RevokeQr, ExpireFlag, rows, met, ServersSame, FewerSynced, Calm
<1>4. CASE Crash
  <2>1. ~Calm'
    BY <1>4 DEF Crash, Calm, TypeInv, RestOK
  <2>. QED  BY <2>1 DEF ServerInv
<1>5. ASSUME NEW k \in Cards, RevokeCard(k) PROVE ServerInv'
  <2>1. FewerSynced
    BY <1>5 DEF RevokeCard, FewerSynced, TypeInv, RestOK, CardRows
  <2>. QED  BY <1>1, <1>5, <2>1 DEF RevokeCard, ServersSame, Calm
<1>6. ASSUME NEW p \in Requests, VisitStep(p) PROVE ServerInv'
  BY <1>6, VisitBegins, VisitGoesOn DEF VisitStep
<1>. QED  BY <1>2, <1>3, <1>4, <1>5, <1>6, ServerStepKnows, RequestStepKnows DEF Next

LEMMA ServerInit == Init => ServerInv
<1> SUFFICES ASSUME Init PROVE ServerInv
  OBVIOUS
<1>1. (\A p \in Requests : h[p] = Idle) /\ ~Works(Idle)
  BY DEF Init, Works, Idle
<1>2. /\ \A c \in Conns : ~server[c].user /\ server[c].list = {} /\ server[c].cards = {}
      /\ visit.status = "SCHEDULED"
  BY DEF Init, NoVisit
<1>. QED  BY <1>1, <1>2 DEF ServerInv, ListsOK, RestKnown, Tracked, QrsOf, RowAccounts,
                            NoUserOn, Admitted

\* On servers of one kind, the QR card on every server is the one that Redis knows when no
\* handler is at work, for any handlers, servers and cards, as long as no two were at work
\* at once and nothing failed.
THEOREM QrCardIsTracked == Spec => [](OneKind => QrCardTracked)
<1>1. ServerInv => (OneKind => QrCardTracked)
  BY DEF ServerInv, Calm, QrCardTracked, Settled, Working, Works, RestKnown, Tracked, QrsOf
<1>. QED  BY <1>1, InitOK, NextOK, ServerInit, ServerNext, PTL DEF Spec

\* ... and on servers of any kind every physical card that is shown as SYNCED opens doors.
THEOREM SyncedCardsOpen == Spec => []SyncedCardOpens
<1>1. ServerInv => SyncedCardOpens
  BY DEF ServerInv, Calm, SyncedCardOpens, Settled, Working, Works, RestKnown, RowAccounts,
         SyncedOpens
<1>. QED  BY <1>1, InitOK, NextOK, ServerInit, ServerNext, PTL DEF Spec

\* ... and on servers of one kind a checkout leaves the visitor's user on none of them.
THEOREM UsersGoAtCheckout == Spec => [](OneKind => UserGoesAtCheckout)
<1>1. ServerInv => (OneKind => UserGoesAtCheckout)
  BY DEF ServerInv, Calm, UserGoesAtCheckout, Settled, Working, Works, RestKnown, RowAccounts,
         NoUserOn
<1>. QED  BY <1>1, InitOK, NextOK, ServerInit, ServerNext, PTL DEF Spec
=============================================================================
