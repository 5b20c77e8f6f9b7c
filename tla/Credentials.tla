---------------------------- MODULE Credentials ----------------------------
(***************************************************************************)
(* The credentials of one visit: QR codes and physical cards, their rows   *)
(* in access_credentials and what the BioStar servers know of them.        *)
(*                                                                         *)
(* As in VisitSync a process is a handler (an HTTP request, an event or a  *)
(* setImmediate callback) and an action is what it does between two        *)
(* awaits.  Here the calls to a server are modelled one by one: a QR code  *)
(* or a card becomes usable by a POST of the card, a GET of the user's     *)
(* list of cards and a PUT of the whole list, and whoever puts a list      *)
(* loses what was added to it since it was read.  The sources are          *)
(* visitors.service.ts, suprema-sync.service.ts, biostar-ws.service.ts and *)
(* qr-engine.service.ts.                                                   *)
(***************************************************************************)
EXTENDS Naturals, FiniteSets

CONSTANTS
    Requests,   \* the handlers
    NumConns,   \* active BioStar connections, numbered by createdAt
    BioStarX,   \* those of them whose server is a BioStar X
    Cards,      \* the visit's physical cards (RFID, SMART_CARD), by number
    NoCard,     \* a handler that works on no card
    MaxQrs,     \* bound: QR codes generated for the visit
    MaxFaults   \* bound: calls that go wrong, and crashes

Conns == 1..NumConns
Qrs   == 1..MaxQrs      \* the tokens (jti) in the order of createdAt; 0: none

ASSUME CredentialsAssumption ==
    /\ NumConns \in Nat \ {0} /\ MaxQrs \in Nat \ {0} /\ MaxFaults \in Nat
    /\ BioStarX \subseteq Conns
    /\ NoCard \notin Cards /\ Cards \cap Nat = {}

Badges == Qrs \cup Cards   \* what POST /api/cards registers

\* The id of the visitor's user depends on the kind of the server: the visitor's
\* UUID on a BioStar 2, the document number on a BioStar X.
UserIdOn(c) == IF c \in BioStarX THEN "document" ELSE "uuid"
UserIds == {UserIdOn(c) : c \in Conns}
NoUser == "none"

\* The columns of the visit that decide what happens to its credentials; ref is
\* the one id that supremaUserRefId keeps.
VisitRows == [status : {"SCHEDULED", "CHECKED_IN", "CHECKED_OUT", "FALSE_EXIT_REPORTED"},
              ref : UserIds \cup {NoUser}]
CardRows == [revoked : BOOLEAN, sync : {"absent", "null", "PENDING", "SYNCED"}]

\* A BioStar server: whether the visitor's user exists, the cards registered
\* in the system, and the list of cards of the user.
Servers == [user : BOOLEAN, cards : SUBSET Badges, list : SUBSET Badges]

\* What a handler keeps: its program counter and the job it does on each of
\* the remaining connections; its entity of the visit and what follows its
\* save; the QR code to enrol and the one to replace; the user's list of cards
\* it read; the user it names to the servers (in a sync the one of the last server
\* that succeeded); the cards (or QR codes) left to work on, the revoked ones among
\* the entities of the cards, and the card at hand.
Handlers == [pc   : {"idle", "reset", "save", "forceReset", "forceFind",
                     "create", "findCards", "postCard", "getCards", "putCard",
                     "verify", "saveCard", "synced", "deleteUser", "deleted",
                     "readKey", "dropQr", "postQr", "getQr", "putQr", "setKey",
                     "findQr", "revokeQr", "issueQr", "portal", "exists", "flag",
                     "insertCard", "burn"},
             job  : {"none", "sync", "rotate", "push", "delete"},
             copy : VisitRows,
             then : {"done", "sync", "checkout", "force", "rotate"},
             qr   : 0..MaxQrs,
             old  : 0..MaxQrs,
             list : SUBSET Badges,
             user : UserIds \cup {NoUser},
             conns: SUBSET Conns,
             todo : SUBSET Badges,
             stale: SUBSET Cards,
             card : Cards \cup {NoCard},
             linked : BOOLEAN]

NoVisit == [status |-> "SCHEDULED", ref |-> NoUser]

Idle == [pc |-> "idle", job |-> "none", copy |-> NoVisit, then |-> "done",
         qr |-> 0, old |-> 0, list |-> {}, user |-> NoUser, conns |-> {},
         todo |-> {}, stale |-> {}, card |-> NoCard, linked |-> FALSE]

VARIABLES
    visit,     \* the visit's row
    qr,        \* the QR_JWT rows: none yet, active, or revoked
    card,      \* the rows of the physical cards
    server,    \* the BioStar servers
    key,       \* Redis biostar:qrcard: the QR card to delete at the next rotation
    flag,      \* Redis qr:biostar:enrolled
    h,         \* the handlers
    raced,     \* ghost: two handlers were replacing the QR code at once
    overlapped,\* ghost: two handlers were working on the servers at once
    faults,    \* calls that went wrong, and crashes
    renewed    \* ghost: the visit was last admitted by a temporary re-enablement

rows == <<visit, qr, card>>
met  == <<raced, overlapped>>
vars == <<visit, qr, card, server, key, flag, h, raced, overlapped, faults, renewed>>

----------------------------------------------------------------------------
(* Helpers *)

Active == {i \in Qrs : qr[i] = "active"}

\* findOne of the unrevoked QR_JWT row, order createdAt DESC.
LatestQr == IF Active = {} THEN 0 ELSE CHOOSE i \in Active : \A j \in Active : j <= i

First(S) == CHOOSE c \in S : \A d \in S : c <= d
Here(p)  == First(h[p].conns)      \* the connection p is working on

Admitted(v) == v.status = "CHECKED_IN" /\ v.ref # NoUser

\* The user that p names to the server at hand: whether it is the visitor's there,
\* whether it exists, and the cards a GET of it finds.
Named(p)   == h[p].user = UserIdOn(Here(p))
Found(p)   == Named(p) /\ server[Here(p)].user
CardsOf(p) == IF Named(p) THEN server[Here(p)].list ELSE {}

\* The first step of a job on a connection, and what follows the last one.
FirstStep(job) == CASE job = "sync"   -> "create"
                    [] job = "rotate" -> "readKey"
                    [] job = "push"   -> "findCards"
                    [] job = "delete" -> "deleteUser"

Start(hp, job, user) == [hp EXCEPT !.job = job, !.pc = FirstStep(job), !.conns = Conns,
                                   !.user = user]

NextConn(hp) ==
    LET rest == hp.conns \ {First(hp.conns)}
        next == [hp EXCEPT !.conns = rest, !.old = 0, !.list = {}, !.todo = {},
                           !.stale = {}, !.card = NoCard, !.linked = FALSE]
    IN  IF rest # {} THEN [next EXCEPT !.pc = FirstStep(hp.job)]
        ELSE CASE hp.job = "sync"   -> [next EXCEPT !.pc = "synced"]
               [] hp.job = "delete" -> [next EXCEPT !.pc = "deleted"]
               [] OTHER             -> Idle

\* After the QR code of a sync come the cards; a rotation goes on to the next server.
AfterQr(hp) == IF hp.job = "sync"
               THEN [hp EXCEPT !.pc = "findCards", !.old = 0, !.list = {}]
               ELSE NextConn(hp)

\* p is replacing the QR code; p is at work on the visit's row or on the servers.
Replacing(p) == h[p].pc \in {"findQr", "revokeQr", "issueQr"}
Working(p) == h[p].pc \notin {"idle", "findQr", "revokeQr", "issueQr", "portal", "exists",
                              "flag", "insertCard", "burn"}

\* Work begins, while that of another handler may be under way.
Enter(p) == /\ overlapped' = (overlapped \/ \E q \in Requests \ {p} : Working(q))
            /\ UNCHANGED raced

\* A call is answered, fails, or is carried out while its answer is lost.
Outcomes == {"ok", "failed", "lost"}
Call(o) == IF o = "ok" THEN UNCHANGED faults ELSE faults < MaxFaults /\ faults' = faults + 1
Effect(c, o, s) == server' = IF o = "failed" THEN server ELSE [server EXCEPT ![c] = s]

----------------------------------------------------------------------------
(* Operations on the visit *)

\* checkInVisit up to the reset of the cards.
CheckInVisit(p) ==
    /\ h[p].pc = "idle"
    /\ visit.status # "CHECKED_IN"
    /\ h' = [h EXCEPT ![p].pc = "reset", ![p].then = "sync",
                      ![p].copy = [visit EXCEPT !.status = "CHECKED_IN"]]
    /\ Enter(p)
    /\ UNCHANGED <<rows, server, key, flag, faults, renewed>>

\* Mutant: the rows of the cards are made anew.
ResetCardsAnew(p) ==
    /\ h[p].pc = "reset"
    /\ card' = [k \in Cards |-> IF card[k].sync = "absent" THEN card[k]
                                ELSE [revoked |-> FALSE, sync |-> "PENDING"]]
    /\ h' = [h EXCEPT ![p].pc = "save"]
    /\ renewed' = FALSE
    /\ UNCHANGED <<visit, qr, server, key, flag, faults, met>>

\* Every physical card is to be synchronised again.
ResetCards(p) ==
    /\ h[p].pc = "reset"
    /\ card' = [k \in Cards |-> IF card[k].sync = "absent" THEN card[k]
                                ELSE [card[k] EXCEPT !.sync = "PENDING"]]
    /\ h' = [h EXCEPT ![p].pc = "save"]
    /\ renewed' = FALSE
    /\ UNCHANGED <<visit, qr, server, key, flag, faults, met>>

\* temporaryReenableVisit: the cards are not reset.
TemporaryReenableVisit(p) ==
    /\ h[p].pc = "idle"
    /\ visit.status = "FALSE_EXIT_REPORTED"
    /\ h' = [h EXCEPT ![p].pc = "save", ![p].then = "sync",
                      ![p].copy = [visit EXCEPT !.status = "CHECKED_IN"]]
    /\ renewed' = TRUE
    /\ Enter(p)
    /\ UNCHANGED <<rows, server, key, flag, faults>>

\* checkoutVisit, whoever calls it.
CheckoutVisit(p) ==
    /\ h[p].pc = "idle"
    /\ visit.status # "CHECKED_OUT"
    /\ h' = [h EXCEPT ![p].pc = "save", ![p].then = "checkout",
                      ![p].copy = [visit EXCEPT !.status = "CHECKED_OUT"]]
    /\ Enter(p)
    /\ UNCHANGED <<rows, server, key, flag, faults, renewed>>

\* reportFalseExit.
ReportFalseExit(p) ==
    /\ h[p].pc = "idle"
    /\ visit.status = "CHECKED_OUT"
    /\ h' = [h EXCEPT ![p].pc = "save",
                      ![p].copy = [visit EXCEPT !.status = "FALSE_EXIT_REPORTED"]]
    /\ Enter(p)
    /\ UNCHANGED <<rows, server, key, flag, faults, renewed>>

\* forceSyncVisit: a visit with a user loses it first.
ForceSyncVisit(p) ==
    /\ h[p].pc = "idle"
    /\ visit.status = "CHECKED_IN"
    /\ h' = [h EXCEPT ![p] =
             LET hp == [@ EXCEPT !.copy = visit, !.then = "force"]
             IN  IF visit.ref # NoUser THEN Start(hp, "delete", visit.ref)
                 ELSE [hp EXCEPT !.pc = "forceFind"]]
    /\ Enter(p)
    /\ UNCHANGED <<rows, server, key, flag, faults, renewed>>

\* The cards that were synchronised with the deleted user.
ForceReset(p) ==
    /\ h[p].pc = "forceReset"
    /\ card' = [k \in Cards |-> IF card[k].sync = "SYNCED"
                                THEN [card[k] EXCEPT !.sync = "PENDING"] ELSE card[k]]
    /\ h' = [h EXCEPT ![p].pc = "forceFind"]
    /\ renewed' = FALSE
    /\ UNCHANGED <<visit, qr, server, key, flag, faults, met>>

\* The active QR code goes with the new user.
ForceFind(p) ==
    /\ h[p].pc = "forceFind"
    /\ h' = [h EXCEPT ![p].pc = "save", ![p].qr = LatestQr, ![p].then = "sync"]
    /\ UNCHANGED <<rows, server, key, flag, faults, renewed, met>>

\* visitRepository.save and what the handler does next.
Save(p) ==
    /\ h[p].pc = "save"
    /\ visit' = h[p].copy
    /\ h' = [h EXCEPT ![p] =
             CASE @.then = "sync"  -> Start([@ EXCEPT !.then = "done"], "sync", NoUser)
               [] @.then = "force" -> [@ EXCEPT !.pc = "forceReset", !.then = "done"]
               [] @.then = "checkout" /\ @.copy.ref # NoUser ->
                                      Start([@ EXCEPT !.then = "done"], "delete", @.copy.ref)
               [] OTHER            -> Idle]
    /\ UNCHANGED <<qr, card, server, key, flag, faults, renewed, met>>

\* Mutant: the id of the user that was created is not stored in the visit.
AfterSyncForgets(p) ==
    /\ h[p].pc = "synced"
    /\ visit' = h[p].copy
    /\ h' = [h EXCEPT ![p] = Idle]
    /\ UNCHANGED <<qr, card, server, key, flag, faults, renewed, met>>

\* The end of syncVisit: updateVisitSyncStatus saves the entity.
AfterSync(p) ==
    /\ h[p].pc = "synced"
    /\ visit' = IF h[p].user = NoUser THEN h[p].copy ELSE [h[p].copy EXCEPT !.ref = h[p].user]
    /\ h' = [h EXCEPT ![p] = Idle]
    /\ UNCHANGED <<qr, card, server, key, flag, faults, renewed, met>>

\* deleteUserFromBioStar on one connection: first the key of the QR card, then
\* the user.  The server may keep the user's cards registered or not.
DeleteFromConnection(p) ==
    /\ h[p].pc = "deleteUser"
    /\ LET c == Here(p) IN
       \E o \in Outcomes, login \in BOOLEAN :
           /\ login \/ o = "failed"
           /\ key' = IF login /\ Named(p) THEN [key EXCEPT ![c] = 0] ELSE key
           /\ \E kept \in {server[c].cards, server[c].cards \ server[c].list} :
                 Effect(c, IF Named(p) THEN o ELSE "failed",
                        [user |-> FALSE, cards |-> kept, list |-> {}])
           /\ Call(o)
    /\ h' = [h EXCEPT ![p] = NextConn(@)]
    /\ UNCHANGED <<rows, flag, renewed, met>>

\* The reference to the user is cleared whatever the servers answered.
AfterDelete(p) ==
    /\ h[p].pc = "deleted"
    /\ h' = [h EXCEPT ![p].pc = "save", ![p].copy.ref = NoUser, ![p].job = "none"]
    /\ UNCHANGED <<rows, server, key, flag, faults, renewed, met>>

----------------------------------------------------------------------------
(* QR codes on a server: updateQrCredential and enrollQrCard *)

\* createBioStarUser creates the user or updates the one that exists.
CreateUser(p) ==
    /\ h[p].pc = "create"
    /\ LET c == Here(p) IN
       \E o \in Outcomes :
           /\ Effect(c, o, [server[c] EXCEPT !.user = TRUE])
           /\ Call(o)
           /\ h' = [h EXCEPT ![p] =
                    IF o # "ok" THEN NextConn(@)
                    ELSE [@ EXCEPT !.user = UserIdOn(c),
                                   !.pc = IF h[p].qr = 0 THEN "findCards" ELSE "postQr"]]
    /\ UNCHANGED <<rows, key, flag, renewed, met>>

\* Mutant: the QR card is looked for under another key.
ReadNoCardKey(p) ==
    /\ h[p].pc = "readKey"
    /\ h' = [h EXCEPT ![p].pc = "postQr"]
    /\ UNCHANGED <<rows, server, key, flag, faults, renewed, met>>

\* A rotation reads from Redis which QR card the user has, unless it cannot log in.
ReadCardKey(p) ==
    /\ h[p].pc = "readKey"
    /\ \E login \in BOOLEAN :
           LET known == IF Named(p) THEN key[Here(p)] ELSE 0 IN
           /\ Call(IF login THEN "ok" ELSE "failed")
           /\ h' = [h EXCEPT ![p] =
                    IF ~login THEN NextConn(@)
                    ELSE [@ EXCEPT !.old = known,
                                   !.pc = IF known = 0 THEN "postQr" ELSE "dropQr"]]
    /\ UNCHANGED <<rows, server, key, flag, renewed, met>>

\* deleteBioStarCard never throws, and the key is deleted in any case.
DropOldQr(p) ==
    /\ h[p].pc = "dropQr"
    /\ LET c == Here(p)
           gone == {h[p].old} IN
       \E o \in Outcomes :
           /\ Effect(c, o, [server[c] EXCEPT !.cards = @ \ gone, !.list = @ \ gone])
           /\ Call(o)
           /\ key' = [key EXCEPT ![c] = 0]
    /\ h' = [h EXCEPT ![p].pc = "postQr"]
    /\ UNCHANGED <<rows, flag, renewed, met>>

\* enrollQrCard, step 1: the server refuses a card that it has already.
PostQr(p) ==
    /\ h[p].pc = "postQr"
    /\ LET c == Here(p)
           known == h[p].qr \in server[c].cards IN
       \E o \in Outcomes :
           /\ Effect(c, o, [server[c] EXCEPT !.cards = @ \cup {h[p].qr}])
           /\ Call(o)
           /\ h' = [h EXCEPT ![p] = IF o = "ok" /\ ~known THEN [@ EXCEPT !.pc = "getQr"]
                                    ELSE AfterQr(@)]
    /\ UNCHANGED <<rows, key, flag, renewed, met>>

\* Step 2 reads the user's list; an error answer counts as an empty list.
GetQr(p) ==
    /\ h[p].pc = "getQr"
    /\ \E o \in {"ok", "error", "failed"} :
           /\ Call(o)
           /\ h' = [h EXCEPT ![p] =
                    CASE o = "ok"    -> [@ EXCEPT !.pc = "putQr", !.list = CardsOf(p)]
                      [] o = "error" -> [@ EXCEPT !.pc = "putQr"]
                      [] OTHER       -> AfterQr(@)]
    /\ UNCHANGED <<rows, server, key, flag, renewed, met>>

\* The list of the user becomes this one; cards deleted meanwhile drop out of it.
Put(c, list) == [server[c] EXCEPT !.list = list \cap server[c].cards]

\* Mutant: only the QR code is put, the other cards are lost.
PutQrAlone(p) ==
    /\ h[p].pc = "putQr"
    /\ LET c == Here(p) IN
       \E o \in Outcomes :
           /\ Effect(c, IF Found(p) THEN o ELSE "failed", Put(c, {h[p].qr}))
           /\ Call(o)
           /\ h' = [h EXCEPT ![p] = IF o = "ok" /\ Found(p)
                                    THEN [@ EXCEPT !.pc = "setKey"] ELSE AfterQr(@)]
    /\ UNCHANGED <<rows, key, flag, renewed, met>>

\* ... and puts it back with the new QR code instead of the old one.
PutQr(p) ==
    /\ h[p].pc = "putQr"
    /\ LET c == Here(p)
           list == (h[p].list \ {h[p].old}) \cup {h[p].qr} IN
       \E o \in Outcomes :
           /\ Effect(c, IF Found(p) THEN o ELSE "failed", Put(c, list))
           /\ Call(o)
           /\ h' = [h EXCEPT ![p] = IF o = "ok" /\ Found(p)
                                    THEN [@ EXCEPT !.pc = "setKey"] ELSE AfterQr(@)]
    /\ UNCHANGED <<rows, key, flag, renewed, met>>

\* Mutant: the key is not stored.
SetNoCardKey(p) ==
    /\ h[p].pc = "setKey"
    /\ h' = [h EXCEPT ![p] = AfterQr(@)]
    /\ UNCHANGED <<rows, server, key, flag, faults, renewed, met>>

SetCardKey(p) ==
    /\ h[p].pc = "setKey"
    /\ key' = [key EXCEPT ![Here(p)] = h[p].qr]
    /\ h' = [h EXCEPT ![p] = AfterQr(@)]
    /\ UNCHANGED <<rows, server, flag, faults, renewed, met>>

----------------------------------------------------------------------------
(* Physical cards on a server: syncCardCredentials *)

\* The next of the cards that were found, or the next connection.
NextCard(hp) ==
    LET next == [hp EXCEPT !.card = NoCard, !.list = {}, !.linked = FALSE]
    IN  IF hp.todo = {} THEN NextConn(next) ELSE [next EXCEPT !.pc = "postCard"]

\* The PENDING ones, revoked or not.  A push logs in first.
FindCards(p) ==
    /\ h[p].pc = "findCards"
    /\ \E login \in BOOLEAN :
           /\ login \/ h[p].job = "push"
           /\ Call(IF login THEN "ok" ELSE "failed")
           /\ LET found == {k \in Cards : card[k].sync = "PENDING"} IN
              h' = [h EXCEPT ![p] =
                    IF ~login THEN NextConn(@)
                    ELSE NextCard([@ EXCEPT !.todo = found,
                                            !.stale = {k \in found : card[k].revoked}])]
    /\ UNCHANGED <<rows, server, key, flag, renewed, met>>

\* A BioStar X registers the card, or has it already.  A BioStar 2 also assigns
\* it to the user named in the request, and refuses a card that it has.
PostCard(p) ==
    /\ h[p].pc = "postCard"
    /\ LET c == Here(p)
           x == c \in BioStarX IN
       \E k \in h[p].todo, o \in Outcomes :
           LET accepted == x \/ (Found(p) /\ k \notin server[c].cards) IN
           /\ Effect(c, IF accepted THEN o ELSE "failed",
                     [server[c] EXCEPT !.cards = @ \cup {k},
                                       !.list = IF x THEN @ ELSE @ \cup {k}])
           /\ Call(o)
           /\ h' = [h EXCEPT ![p].todo = @ \ {k}, ![p].card = k,
                             ![p].linked = (o = "ok" /\ accepted /\ ~x),
                             ![p].pc = IF x /\ o = "ok" THEN "getCards" ELSE "saveCard"]
    /\ UNCHANGED <<rows, key, flag, renewed, met>>

GetCards(p) ==
    /\ h[p].pc = "getCards"
    /\ \E o \in {"ok", "error", "failed"} :
           /\ Call(o)
           /\ h' = [h EXCEPT ![p].pc = IF o = "failed" THEN "saveCard" ELSE "putCard",
                             ![p].list = IF o = "ok" THEN CardsOf(p) ELSE {}]
    /\ UNCHANGED <<rows, server, key, flag, renewed, met>>

PutCard(p) ==
    /\ h[p].pc = "putCard"
    /\ LET c == Here(p) IN
       \E o \in Outcomes :
           /\ Effect(c, IF Found(p) THEN o ELSE "failed",
                     Put(c, h[p].list \cup {h[p].card}))
           /\ Call(o)
           /\ h' = [h EXCEPT ![p].pc = IF o = "ok" /\ Found(p)
                                       THEN "verify" ELSE "saveCard"]
    /\ UNCHANGED <<rows, key, flag, renewed, met>>

\* The list is read once more: an HTTP success is not believed.
VerifyCard(p) ==
    /\ h[p].pc = "verify"
    /\ \E o \in {"ok", "failed"} :
           /\ Call(o)
           /\ h' = [h EXCEPT ![p].pc = "saveCard",
                             ![p].linked = (o = "ok" /\ h[p].card \in CardsOf(p))]
    /\ UNCHANGED <<rows, server, key, flag, renewed, met>>

\* Mutant: a card that could not be assigned becomes FAILED, which no row of a
\* physical card ever is.
SaveCardFailed(p) ==
    /\ h[p].pc = "saveCard"
    /\ card' = [card EXCEPT ![h[p].card] =
                [revoked |-> h[p].card \in h[p].stale,
                 sync    |-> IF h[p].linked THEN "SYNCED" ELSE "FAILED"]]
    /\ h' = [h EXCEPT ![p] = NextCard(@)]
    /\ UNCHANGED <<visit, qr, server, key, flag, faults, renewed, met>>

\* credentialRepo.save writes the whole entity, isRevoked as it was read included.
SaveCard(p) ==
    /\ h[p].pc = "saveCard"
    /\ card' = [card EXCEPT ![h[p].card] =
                [revoked |-> h[p].card \in h[p].stale,
                 sync    |-> IF h[p].linked THEN "SYNCED" ELSE "PENDING"]]
    /\ h' = [h EXCEPT ![p] = NextCard(@)]
    /\ UNCHANGED <<visit, qr, server, key, flag, faults, renewed, met>>

----------------------------------------------------------------------------
(* The visitor's portal, the operator and the access events *)

QrsLeft == Cardinality({i \in Qrs : qr[i] = "none"})
             > Cardinality({q \in Requests : h[q].pc \in {"findQr", "revokeQr", "issueQr"}})

\* refreshQrForPortal (then = "rotate") and addCredentialToVisit of a QR_JWT
\* (then = "done") replace the QR code in the same steps.
ReplaceQr(p, then) ==
    /\ h[p].pc = "idle"
    /\ QrsLeft
    /\ h' = [h EXCEPT ![p].pc = "findQr", ![p].copy = visit, ![p].then = then]
    /\ raced' = (raced \/ \E q \in Requests : Replacing(q))
    /\ UNCHANGED <<rows, server, key, flag, overlapped, faults, renewed>>

RefreshQrForPortal(p) == ReplaceQr(p, "rotate")
AddQr(p) == ReplaceQr(p, "done")

FindQr(p) ==
    /\ h[p].pc = "findQr"
    /\ h' = [h EXCEPT ![p].old = LatestQr,
                      ![p].pc = IF LatestQr = 0 THEN "issueQr" ELSE "revokeQr"]
    /\ UNCHANGED <<rows, server, key, flag, faults, renewed, met>>

\* Mutant: the old QR code is taken out of Redis and stays active in its row.
RevokeOldToken(p) ==
    /\ h[p].pc = "revokeQr"
    /\ h' = [h EXCEPT ![p].pc = "issueQr", ![p].old = 0]
    /\ UNCHANGED <<rows, server, key, flag, faults, renewed, met>>

RevokeOldQr(p) ==
    /\ h[p].pc = "revokeQr"
    /\ qr' = [qr EXCEPT ![h[p].old] = "revoked"]
    /\ h' = [h EXCEPT ![p].pc = "issueQr", ![p].old = 0]
    /\ UNCHANGED <<visit, card, server, key, flag, faults, renewed, met>>

\* generateQr and the insert; a refresh goes on in the background if the visit
\* that it loaded has a user.
IssueQr(p) ==
    /\ h[p].pc = "issueQr"
    /\ \E i \in Qrs :
           /\ qr[i] = "none" /\ \A j \in 1..(i - 1) : qr[j] # "none"
           /\ qr' = [qr EXCEPT ![i] = "active"]
           /\ h' = [h EXCEPT ![p] = IF @.then = "rotate" /\ Admitted(@.copy)
                                    THEN Start([Idle EXCEPT !.qr = i], "rotate", @.copy.ref)
                                    ELSE Idle]
    /\ IF h[p].then = "rotate" /\ Admitted(h[p].copy) THEN Enter(p) ELSE UNCHANGED met
    /\ UNCHANGED <<visit, card, server, key, flag, faults, renewed>>

\* getQrForPortal enrols the QR code when the portal is opened for the first time.
GetQrForPortal(p) ==
    /\ h[p].pc = "idle"
    /\ h' = [h EXCEPT ![p].pc = "portal", ![p].copy = visit]
    /\ UNCHANGED <<rows, server, key, flag, faults, renewed, met>>

PortalFind(p) ==
    /\ h[p].pc = "portal"
    /\ h' = [h EXCEPT ![p] = IF LatestQr # 0 /\ Admitted(@.copy)
                             THEN [Idle EXCEPT !.pc = "exists", !.qr = LatestQr,
                                               !.user = h[p].copy.ref]
                             ELSE Idle]
    /\ UNCHANGED <<rows, server, key, flag, faults, renewed, met>>

CheckFlag(p) ==
    /\ h[p].pc = "exists"
    /\ h' = [h EXCEPT ![p] = IF flag THEN Idle ELSE [@ EXCEPT !.pc = "flag"]]
    /\ UNCHANGED <<rows, server, key, flag, faults, renewed, met>>

SetFlag(p) ==
    /\ h[p].pc = "flag"
    /\ flag' = TRUE
    /\ h' = [h EXCEPT ![p] = Start(@, "rotate", @.user)]
    /\ Enter(p)
    /\ UNCHANGED <<rows, server, key, faults, renewed>>

\* The flag lives for seven days.
ExpireFlag ==
    /\ flag
    /\ flag' = FALSE
    /\ UNCHANGED <<rows, server, key, h, faults, renewed, met>>

\* addCredentialToVisit of a card: loads the visit; then inserts the row and
\* pushes the PENDING cards if the visit that it loaded has a user.
AddCard(p, k) ==
    /\ h[p].pc = "idle"
    /\ card[k].sync = "absent"
    /\ \A q \in Requests : h[q].card # k
    /\ h' = [h EXCEPT ![p].pc = "insertCard", ![p].copy = visit, ![p].card = k]
    /\ UNCHANGED <<rows, server, key, flag, faults, renewed, met>>

InsertCard(p) ==
    /\ h[p].pc = "insertCard"
    /\ card' = [card EXCEPT ![h[p].card].sync = "PENDING"]
    /\ h' = [h EXCEPT ![p] = IF Admitted(@.copy) THEN Start(Idle, "push", @.copy.ref) ELSE Idle]
    /\ IF Admitted(h[p].copy) THEN Enter(p) ELSE UNCHANGED met
    /\ UNCHANGED <<visit, qr, server, key, flag, faults, renewed>>

\* revokeCredential changes the row only.
RevokeQr ==
    /\ \E i \in Active : qr' = [qr EXCEPT ![i] = "revoked"]
    /\ UNCHANGED <<visit, card, server, key, flag, h, faults, renewed, met>>

\* A handler at work may hold an older entity of the card.
RevokeCard(k) ==
    /\ card[k].sync # "absent"
    /\ card' = [card EXCEPT ![k] = [revoked |-> TRUE, sync |-> "PENDING"]]
    /\ overlapped' = (overlapped \/ \E p \in Requests : Working(p))
    /\ UNCHANGED <<visit, qr, server, key, flag, h, faults, renewed, raced>>

\* burnQrForUser: the visit is found by its user; the QR codes are revoked one by one.
BurnQrForUser(p) ==
    /\ h[p].pc = "idle"
    /\ visit.ref # NoUser /\ Active # {}
    /\ h' = [h EXCEPT ![p].pc = "burn", ![p].todo = Active]
    /\ UNCHANGED <<rows, server, key, flag, faults, renewed, met>>

BurnNext(p) ==
    /\ h[p].pc = "burn"
    /\ \E i \in h[p].todo :
           /\ qr' = [qr EXCEPT ![i] = "revoked"]
           /\ LET left == h[p].todo \ {i} IN
              h' = [h EXCEPT ![p] = IF left = {} THEN Idle ELSE [@ EXCEPT !.todo = left]]
    /\ UNCHANGED <<visit, card, server, key, flag, faults, renewed, met>>

\* The process stops: its handlers are gone.
Crash ==
    /\ faults < MaxFaults
    /\ \E p \in Requests : h[p] # Idle
    /\ h' = [p \in Requests |-> Idle]
    /\ faults' = faults + 1
    /\ UNCHANGED <<rows, server, key, flag, renewed, met>>

----------------------------------------------------------------------------
(* Specification *)

Init ==
    /\ visit = NoVisit
    /\ qr \in {[i \in Qrs |-> "none"], [i \in Qrs |-> IF i = 1 THEN "active" ELSE "none"]}
    /\ card \in [Cards -> {[revoked |-> FALSE, sync |-> s] : s \in {"absent", "null"}}]
    /\ server = [c \in Conns |-> [user |-> FALSE, cards |-> {}, list |-> {}]]
    /\ key = [c \in Conns |-> 0]
    /\ flag = FALSE
    /\ h = [p \in Requests |-> Idle]
    /\ raced = FALSE /\ overlapped = FALSE /\ faults = 0 /\ renewed = FALSE

VisitStep(p) ==
    \/ CheckInVisit(p) \/ ResetCards(p) \/ TemporaryReenableVisit(p) \/ CheckoutVisit(p)
    \/ ReportFalseExit(p) \/ ForceSyncVisit(p) \/ ForceReset(p) \/ ForceFind(p) \/ Save(p)
    \/ AfterSync(p) \/ DeleteFromConnection(p) \/ AfterDelete(p)

ServerStep(p) ==
    \/ CreateUser(p) \/ ReadCardKey(p) \/ DropOldQr(p) \/ PostQr(p) \/ GetQr(p) \/ PutQr(p)
    \/ SetCardKey(p) \/ FindCards(p) \/ PostCard(p) \/ GetCards(p) \/ PutCard(p)
    \/ VerifyCard(p) \/ SaveCard(p)

RequestStep(p) ==
    \/ RefreshQrForPortal(p) \/ AddQr(p) \/ FindQr(p) \/ RevokeOldQr(p) \/ IssueQr(p)
    \/ GetQrForPortal(p) \/ PortalFind(p) \/ CheckFlag(p) \/ SetFlag(p)
    \/ (\E k \in Cards : AddCard(p, k)) \/ InsertCard(p) \/ BurnQrForUser(p) \/ BurnNext(p)

Next == \/ \E p \in Requests : VisitStep(p) \/ ServerStep(p) \/ RequestStep(p)
        \/ RevokeQr \/ ExpireFlag \/ Crash
        \/ \E k \in Cards : RevokeCard(k)

Spec == Init /\ [][Next]_vars

----------------------------------------------------------------------------
(* Properties *)

TypeOK ==
    /\ visit \in VisitRows
    /\ qr \in [Qrs -> {"none", "active", "revoked"}]
    /\ card \in [Cards -> CardRows]
    /\ server \in [Conns -> Servers]
    /\ key \in [Conns -> 0..MaxQrs]
    /\ flag \in BOOLEAN
    /\ h \in [Requests -> Handlers]
    /\ raced \in BOOLEAN /\ overlapped \in BOOLEAN
    /\ faults \in 0..MaxFaults /\ renewed \in BOOLEAN

\* No handler is at work on the servers, and so far none met another one there
\* or a fault.
Settled == ~overlapped /\ faults = 0 /\ \A p \in Requests : ~Working(p)

\* Replacing the QR code revokes only the latest one, and the check and the
\* insert are awaits apart: still there is never a second active QR code, unless
\* two replacements overlap.  Crashes and failing servers do not matter.
OneActiveQr == ~raced => \A i, j \in Active : i = j

\* The servers are all of one kind: then the one reference of a visit is the id of
\* its user on each of them.
OneKind == BioStarX \in {{}, Conns}

\* The QR card on a server is the one that Redis knows, and there is no other:
\* otherwise no later rotation would delete it and a replaced QR code would open
\* the doors until the check-out.  On servers of both kinds this does not hold.
QrCardTracked == Settled => \A c \in Conns : server[c].list \cap Qrs \subseteq {key[c]}

\* A physical card that the backend shows as SYNCED opens doors: it is in the
\* list of the admitted visitor's user on some server.  Rotations, force syncs and
\* re-admissions all rewrite the list or the user.
SyncedCardOpens ==
    Settled /\ Admitted(visit) /\ ~renewed =>
        \A k \in Cards : card[k].sync = "SYNCED" => \E c \in Conns : k \in server[c].list

\* With the check-out the whole user is deleted from BioStar, says the comment of
\* updateQrCredential (line 610): from every server, if no call failed.  It holds
\* with servers of one kind; of a BioStar 2 and a BioStar X one keeps the user.
UserGoesAtCheckout ==
    Settled /\ visit.status = "CHECKED_OUT" => \A c \in Conns : ~server[c].user

\* A credential that was revoked stays revoked, unless the revocation overlaps
\* work on the cards: that work writes back the isRevoked it has read.
RevocationLasts ==
    [][/\ \A i \in Qrs : qr[i] = "revoked" => qr'[i] = "revoked"
       /\ ~overlapped' => \A k \in Cards : card[k].revoked => card'[k].revoked]_vars
=============================================================================
