# BioVisitor in TLA+

BioVisitor is a visitor management system: a NestJS backend
(`src/biovisitor-backend/src`), a Next.js frontend, and tools to install and
run them on Windows. The backend keeps visits in PostgreSQL (TypeORM), short-lived
tokens in Redis, and a user for every admitted visitor on one or more Suprema
BioStar servers, whose devices open the doors. This directory models the parts of
the system where several activities work on the same state at once, and proves
and model-checks what keeps visits, BioStar users, credentials, sessions, the
purge and the administration tool right.

Paths below are relative to `src/biovisitor-backend/src` unless they begin with `src/`.

## 1. Inventory

Every HTTP request, `@Cron` tick, WebSocket event and `setImmediate` callback is
a *handler* of one Node.js process: it runs alone between two `await`s, and any
other handler may run at an `await`. Almost all of them do the same thing: load a
row into an entity, await, change the entity, `repository.save(entity)`. There is
no row lock, no version column and, but for the insert of a visit, no transaction.

| Component (code) | State | Operations | Hard behaviour | What makes it correct |
|---|---|---|---|---|
| Visits (`modules/visitors/visitors.service.ts`, `visitors.controller.ts`) | table `visits`: status, checkedInAt, checkedOutAt, temporaryReenableUntil, supremaUserRefId, syncStatus | schedule, invite, pre-register, check-in, no-show, checkout (one, selected, tenant), temporary re-enablement, false exit report and dismissal, exit survey | stale entities written back; check-then-insert; work that goes on after the answer | the columns agree with each other; a visit never goes back to SCHEDULED; an admission is not forgotten; one active visit per visitor |
| BioStar synchronisation (`suprema-sync.service.ts`) | users on each server; the visit's supremaUserRefId and syncStatus | syncVisit, forceSyncVisit, deleteUserFromBioStar, deleteUserByIdFromBioStar | one of several servers fails; the answer is lost; a crash in the loop; the entity it saves is old | nobody inside: no user; SYNCED: a user |
| Auto-checkout crons (`auto-checkout.service.ts`) | settings in Redis | nightly bulk checkout, closing of expired temporary re-enablements | a list read once and worked off across awaits | what expires is closed; a later admission is not |
| Exit device listener (`biostar-ws.service.ts`) | `exitCheckoutScheduled`, WebSocket, poll timer | checkoutOnExitDevice, delayed checkout, survey mail; reconnect; poll; burn the QR | the same event twice; delay; reconnection | one checkout per exit; it keeps listening |
| Exit links (`exit-links.service.ts`) | `false_exit` keys in Redis | issue, validate and spend | two reports with one link | a link is spent once |
| Pre-registration (`pre-registration.service.ts`) | pre-registration rows | send, read, complete | two submissions | completes a SCHEDULED visit only |
| Invitations and onboarding (`visitors.service.ts:2740-3000`) | placeholder visitors, onboarding token | inviteVisitors, completeOnboarding | two submissions; merge of two visitor rows | the visit ends with one visitor |
| Enroller devices (`modules/settings/enroller-devices.service.ts`) | device lists and the BioStar session in Redis | captures, previews, lists of devices and events | a session shared with the listener, dropped by BioStar at any time | a dead session does not stay |
| Circuit breaker (`modules/suprema-gateway/circuit-breaker`) | state, failureCount, two time stamps | execute, onSuccess, onFailure | outcomes of concurrent calls in any order | opens after consecutive failures, closes after an outage |
| BioStar clients (`biostar2.client.ts`, `biostarx.client.ts`), gateway | session id in Redis | login, retry after 401 | two retries at once | no call with a session known dead |
| QR engine and portal (`qr-engine.service.ts`, `visitors.service.ts:2560-2740`) | QR keys in Redis, credential rows | generate, validate and burn, refresh, lazy enrolment | two refreshes; enrolment that fails | one active QR |
| Cards and other credentials | credential rows: PENDING, SYNCED, FAILED | add, sync, remove, burn | reset on force sync | a SYNCED card is on the server |
| Equipment (`equipment.service.ts`) | equipment entries | create, authorise, exit, overtime cron | check-then-insert, stale cron list | a serial number is inside once |
| Data retention (`data-retention.service.ts`) | visits, visitors, photos, credentials | nightly purge | requests between its queries; cut off half way | who has no visit goes, and his photo with him; only closed visits go; old visits go |
| BioStar connections (`suprema-connections.service.ts`) | connections, isActive | CRUD, switch on and off, test | switched while a loop runs | – |
| Authentication, operators, hosts, reports, notifications, audit, events gateway, encryption, settings | – | CRUD, mails, queries | small | – |
| Job queue | – | – | disabled (`app.module.ts:213` is a comment) | – |
| Port manager (`src/port-manager/src`, Rust) | services, three configuration files, command and event queues, busy flags | change ports, start and stop services, backup, restore | a program of calls that fails anywhere; services that change by themselves | success means the new values are in the files and in the services; the files agree; the window comes free |
| Frontend, Windows supervisor | – | start requests; restart the backend | – | – |

`PROJECT.json` lists the same components with what is and is not modelled, and
under `hazards` every place where the code can go wrong in a way a test would
hardly reach, with the property that watches it or the reason why none does.

How they interact: the controllers, the crons and the exit device listener all call
`VisitorsService.checkoutVisit`; check-in and re-enablement hand their entity to
`SupremaSyncService.syncVisit` in the background; checkout and force sync await
`deleteUserFromBioStar`; the exit device listener finds the visit by the
`supremaUserRefId` that `syncVisit` stored, and shares a BioStar session in Redis with
`EnrollerDevicesService`. The circuit breaker guards the gateway's clients
(`SupremaGatewayService`), not `SupremaSyncService`. The purge deletes rows under all of
them. The port manager stops, reconfigures and starts the processes from outside.

## 2. Modules

| Module | Models | Proofs |
|---|---|---|
| `VisitLifecycle` | abstract: what the backend promises of a visit | in `VisitSync_proofs` (VisitSync implements it) |
| `VisitSync` | the life cycle of visits with the handlers, crons, exit device events, exit links and BioStar loops that touch it | `VisitSync_proofs` (types, coherence, the refinement, admissions, access revoked and granted) |
| `Credentials` | the QR codes and cards of one visit, call by call on the servers | `Credentials_proofs` (types, one active QR code, revocations, the QR card tracked on servers of one kind, SYNCED cards that open) |
| `ExitDevice` | exit events by WebSocket and poller, the delayed checkout and its survey mail | `ExitDevice_proofs` |
| `BiostarLink` | the shared BioStar session, the REST calls and the listener's connection | `BiostarLink_proofs` |
| `CircuitBreaker` | `CircuitBreakerService` | `CircuitBreaker_proofs` |
| `Gateway` | the gateway's calls: breaker (an INSTANCE of `CircuitBreaker`), session, retry | `Gateway_proofs` (types, retries heal, its breaker implements `CircuitBreaker`) |
| `Retention` | the purge against the requests that use the same rows | `Retention_proofs` |
| `AdminTool` | the port manager: commands, services, files, window | `AdminTool_proofs` (types, the values the tool writes agree, success means they are applied) |
| `MC...` | one per module that has runs: instances and symmetry | |

### VisitLifecycle

The abstract specification: `stage` of every visit moves along one `Diagram` (booked, registered,
missed, inside, left, disputed). A visit is `disturbed` once two handlers worked on its visitor at a
time; then a stale copy may put it anywhere but back to the booking. `VisitSync` instantiates it
with `StageOf` the status and `disturbed` the visits of `overlapped` visitors.

### VisitSync

*State.* `row` is the table `visits`. `in` and `out` say whether checkedInAt and
checkedOutAt are set; `reenable` is the instant temporaryReenableUntil (0: null); `ref`
is supremaUserRefId; `sync` is syncStatus with the values the modelled code writes.
`biostar[c]` are the users stored on server `c`, `active` the connections with isActive,
`links[v]` the unspent false-exit keys of a visit, `surveyed` the visits whose visitor
holds a survey link, `now` the clock. `h[p]` is what handler `p` keeps between two
awaits: its program counter, its entity (`copy`), the remaining connections, the
remaining visits of a bulk loop, what comes after its save. `overlapped` and `faulted`
are history variables for stating properties; no action reads them.

*Actions* are the code between two awaits, in the order of the code:

| Action | Code |
|---|---|
| `ScheduleVisit`, `InviteVisitors`, `InsertVisit` | `scheduleVisit` (check; then insert), `inviteVisitors` |
| `CompletePreRegistration`, `MarkAsNoShow` | same names |
| `CheckInVisit`, `TemporaryReenableVisit`, `ForceSyncVisit` | load, checks and assignments, up to the save (`ForceSyncVisit`: up to the delete loop, for a visit with a user) |
| `CheckoutVisit`, `BulkCheckoutTenant`, `BulkCheckoutSelected`, `CloseExpiredTemporaryReenablements`, `SweepNext`, `LoadCheckout` | the five ways into `checkoutVisit`: three read a list once, then close it visit by visit |
| `CheckoutOnExitDevice`, `RunCheckout`, `SendExitSurveyEmail` | `biostar-ws.service.ts:375-502` |
| `SubmitExitSurvey`, `SpendFalseExitLink`, `ReportFalseExit`, `DismissFalseExit` | same names; the link is spent (Redis DEL) before the visit is read |
| `Save` (with `Compare`) | `repository.save` |
| `ResolveConnections`, `SyncWithConnection`, `AfterSync` | `syncVisit`: connections in order of createdAt, one call at a time |
| `DeleteFromConnection`, `AfterDelete` | `deleteUserFromBioStar` and what `checkoutVisit` and `forceSyncVisit` do after it |
| `DeleteOrphanedBioStarUser`, `SwitchConnection` | the operator's and the administrator's interventions |
| `Tick`, `Crash` | the clock; the process stops and starts again, its handlers are gone |

*save.* TypeORM's `save` selects the stored row, compares, and updates the columns that
differ. `Spec` makes that one step, so the entity replaces the row. `SplitSpec` adds
`Compare`: a handler may compare now and update later, then it writes only the columns
that differed from the row it compared with. `NeverBackToScheduled` is checked under `Spec`
(two handlers under `SplitSpec` have too many states) and proved under `SplitSpec`. `RowsCoherent` is a fact of `Spec` only: with two steps two handlers may
each write half of a transition, and TLC finds that quickly.

*Calls to a server* succeed, fail, or are carried out while their answer is lost
(then the code reports a failure). A failed delete is logged and swallowed, as in the code.

*Abstractions.* Left out: columns that no property reads (names, notes, survey answers,
host, vehicles); errors of PostgreSQL and Redis; a request that a server carries out only
after the backend has given up on it and gone on; expiry of links (a link may be used at
any time); the no-show, survey, auto-checkout and exit device *settings*, which only decide
whether an operation is offered (modelled as a free choice); `importVisitorsFromCsv` and
`bulkCheckInVisits`, which loop over modelled operations. `CANCELLED` is a status that no
code writes; only the guards know it. A cron is skipped while its previous run of the
model's `Closer` goes on; a second run would be a second `CheckoutVisit`, which a request models.

### Credentials

`VisitSync` looks at users and takes a call to a server as one step. `Credentials` looks at one visit
and takes apart what becomes of its QR codes and cards: to make one usable the backend POSTs the card,
GETs the user's list of cards and PUTs the whole list back. `visit` keeps only the columns that decide
about credentials: the status and `ref`, the one user id that supremaUserRefId keeps. The visitor's user has
another id on a BioStar X than on a BioStar 2 (`UserIdOn`); a sync leaves the id of the last server that answered, and checkout,
force sync and rotation name that id to every server (`Named`).

*State.* `qr` are the QR_JWT rows in the order of createdAt, `card` the RFID and smart card rows
(isRevoked, syncStatus; `absent`: no row). `server[c]` has the user, the registered cards, and the
user's list. `key[c]` is the Redis key `biostar:qrcard`, the QR card that the next rotation deletes;
`flag` is `qr:biostar:enrolled`. `h[p]` is a handler: a `job` (sync, rotate, push, delete) and the
connections it has left, the QR code to enrol and the old one, the list it read, the cards it found
which of these entities say revoked, and the user it names to the servers. `raced`, `overlapped` and `renewed` are history variables.

| Action | Code |
|---|---|
| `CheckInVisit`, `ResetCards`, `TemporaryReenableVisit`, `CheckoutVisit`, `ReportFalseExit`, `ForceSyncVisit`, `ForceReset`, `ForceFind`, `Save`, `AfterSync`, `DeleteFromConnection`, `AfterDelete` | the operations of `VisitSync` as far as credentials depend on them |
| `CreateUser` | `createBioStarUser` (create, or update the user that exists) |
| `ReadCardKey`, `DropOldQr`, `PostQr`, `GetQr`, `PutQr`, `SetCardKey` | `updateQrCredential`, `enrollQrCard`; a force sync takes the last four |
| `FindCards`, `PostCard`, `GetCards`, `PutCard`, `VerifyCard`, `SaveCard` | `syncCardCredentials`; a BioStar 2 takes card and user in one POST |
| `RefreshQrForPortal`, `AddQr`, `FindQr`, `RevokeOldQr`, `IssueQr` | `refreshQrForPortal`, `addCredentialToVisit` of a QR code |
| `GetQrForPortal`, `PortalFind`, `CheckFlag`, `SetFlag`, `ExpireFlag` | the lazy enrolment in `getQrForPortal` |
| `AddCard`, `InsertCard` | `addCredentialToVisit` of a card, `pushNewPhysicalCredential` |
| `RevokeQr`, `RevokeCard`, `BurnQrForUser`, `BurnNext` | `revokeCredential`, `burnQrForUser` |

A call succeeds, fails, or is carried out while its answer is lost; a GET may also answer with an
error, which the code takes for an empty list. A server refuses a list for a user it does not have,
and may keep or drop the registered cards of a deleted user.

*Abstractions.* One visit, whose connections stay active; a card number occurs once (the loop over
duplicates only copies the outcome); no face or fingerprint; the card key does not expire (30 days);
the token keys of `QrEngineService` in Redis are left out: `validateQr`, which would burn a token, is
called by nobody. `dismissFalseExit` leads back to CHECKED_OUT and touches no credential.

### CircuitBreaker

`Begin` is `execute` up to `await fn()`; `onSuccess` and `onFailure` are the two ends of
the call. Between them any caller may run. The two time stamps are kept as ages
(`failureAge`, `stateAge`) that stop growing where no comparison can tell them apart;
`failureCount` and the history variable `streak` stop at the threshold for the same reason.

### ExitDevice

What `VisitSync` takes for one action, `CheckoutOnExitDevice`, is here the code of `biostar-ws.service.ts`
from the event to the survey mail. A visit is reduced to "inside" and the number of its admission.

*State.* `age[e]` is the time since an access event on an exit device, `seen[e]` what is left of its key
`bv:exitevent:seen`, `h[x]` a handler (one per event and way it arrives, and one for an event the poller takes
again), `scheduled` the set `exitCheckoutScheduled`, `inFlight`, `page`, `current` the poller. `owed`, `polls`, `surveys`,
`spoiled`, and `outlived` (the key expired while a round that had read the event was busy with the rows before) are history variables.

| Action | Code |
|---|---|
| `ExitEvent` | the event, and `handleMessage` if the socket delivers it |
| `ReadAll`, `ReadSome`, `TakeEvent`, `SkipEvent`, `SeenFails` | `pollExitDeviceEvents`: events/search with all rows or the latest of them, SET NX of each event, the finally block |
| `FindVisit`, `Recheck`, `Checkout`, `SendSurvey`, `Fail` | `checkoutOnExitDevice` and its `runCheckout`, at once (the poller waits) or by a timer |
| `Admit`, `CheckoutVisit`, `Tick`, `Crash` | everybody else, time, restart |

`Tick` may come at any time, also while a round awaits a checkout: nothing bounds a round.

*Abstractions.* The delay is any time; one exit device, as the loop over devices only concatenates answers. The
code asks once for the 50 latest rows of all devices in the last five minutes and picks those of the device, so the older
events of the device may be missing: `ReadSome`.

### BiostarLink

The session `bv:bsession:conn`, which the REST calls of `enroller-devices.service.ts` and the listener
share. A session is known by what BioStar would say of it: `ok` or `ended`. `task` holds what the
listener has under way (a run of `tryConnect`, a socket, a timer) in slots, so that two at once could exist.

| Action | Code |
|---|---|
| `StartCall`, `Login`, `Store`, `Answered`, `Refused`, `CallFails` | `getSession` (cache, login, setex), the request, and `invalidateSession` after a 401, which the previews omit |
| `Connect`, `ListenerLogin`, `ListenerStore` | `tryConnect`, `getSessionId` |
| `Opened`, `HandshakeRefused`, `Closed`, `TimerFires` | the events of the socket, `registerFailureAndReconnect`, `scheduleReconnect` |
| `GoDown`, `ComeUp`, `Configure`, `EndSessions`, `CacheExpires`, `Restart` | network, database, BioStar, Redis, `onModuleInit` |

*Abstractions.* What a call asks for; the several login paths (they end the same); messages on the open socket
(`ExitDevice`). `failures` is counted up to `MaxFailures`; the code compares it only modulo 10, for its log.

### Gateway

One tenant of `SupremaGatewayService`. `Start` is `execute` of the breaker (`Breaker!Begin`); a call is an
operation on a user, a door or events (`executeWithRetry`), a face check or a capture. The outcome goes to
`Breaker!onSuccess` or `Breaker!onFailure` with the last step of the call, as in `execute`.

| Action | Code |
|---|---|
| `GetSession`, `Login`, `LoginFails`, `Store` | `getSessionId`, `login` (an error of the login is a new one, without a response: no retry) |
| `Accepted`, `ServerErrs`, `Unreachable`, `Unauthorized`, `DeleteSession` | the request; `executeWithRetry`; `validateFaceTemplate`, which turns every error into a result; the captures |
| `Poll`, `PollTimesOut` | `pollForScanPicture`; it is awaited inside the loop over the two endpoints, so an error or its last vain poll at the first one leads to the second, where it may poll as often again |
| `HealthCheck` | the health check, which bypasses the breaker: if Redis has no session it goes through the same `Login` and `Store`, one await each; its request changes nothing and is left out |
| `GoDown`, `ComeUp`, `EndSessions`, `CacheExpires`, `Tick` | BioStar, Redis, time |

*Abstractions.* The payloads; the maps per tenant; errors of Redis; the pauses of the polls.

### Retention

`runPurge` is one query per action: `ListVisits`, `DeleteCredentials`, `DeleteVisits`, `FindRemaining`,
`UnlinkPhoto`, `DeleteVisitors`; its local variables are in `purge`. `visit`, `visitor`, `creds`, `links` are
the tables with their foreign keys (a DELETE of several rows is all or none), `photos` the visitors with a file in
uploads/photos. `UnlinkPhoto` removes none of them: the purge looks for the file in uploads. `Held` are visitors named by the
tables blacklist and visitor_documents, whose foreign keys refuse their deletion (`Refused`); no code of the backend writes these tables. Between the queries run
`CreateOrUpdateVisitor`, `ScheduleChecks` and `InviteFinds` with `InsertVisit`, `ReadVisit` with `SaveVisit` (check-in,
checkout, no-show), `GenerateToken`, `RefreshQrForPortal` and `Age`. `SaveVisit` inserts the row again when a
purge has deleted it, as TypeORM does.

*Abstractions.* One tenant; the retention period is over or not; one request at a time is caught between its
read and its write (two of them are the subject of `VisitSync`); PRE_REGISTERED counts as SCHEDULED.

### AdminTool

The port manager. A command is a program of calls (`Program`), each with its target and what its failure
means: `must` ends the operation, `may` is ignored, `later` is reported at the next check or at the
end. The worker (`TakeCommand`, then one action per call) runs it against services whose state the
service manager, crashes and NSSM change at any time (`ServiceSettles`, `ServiceFails`). The frontend's service
depends on the backend's (`DependsOn`): the service manager refuses to stop the backend under a running frontend (`HeldUp`,
`Released`) and starts it with the frontend. `CallFails`
is a file, a program or a password that fails, `CloseTool` the window closed in the middle.

*State.* `status` and `listen` of the services, `fresh` (started after its configuration was last
written), the three files `env`, `nginx`, `pgConf` with every port they hold (also the backend's port in `nginx.proxy` and the
HTTPS port in `env.origin`, which the installer writes and the tool never does), the key `dbKey` of the stored passwords, `queue`, `work`
and `events` between window and worker, `busy`, `scanning`, `conflict` of the window. `warned` and `keyless` are history variables.

*Abstractions.* The bytes of the files (a writer replaces one value and keeps the rest); uploads and
certificates; the polls of the services' state that only refresh the display; the wait of "start all" and of
the restore for the backend's port, whose outcome the code ignores; a timeout is any moment.

## 3. Properties and runs

| Run | Question | Instance | Properties |
|---|---|---|---|
| `VisitSync_race` | Two handlers, any two operations, on one visit | 1 visit, 2 requests and the cron's handler, 1 server, no clock, 1 link | `TypeOK`, `RowsCoherent`, `AccessRevoked`, `NeverBackToScheduled`, `FollowsLifecycle` |
| `VisitSync_reenable` | Temporary re-enablements that expire, are renewed, are overtaken by a check-in | 1 visit, 1 request, the cron, 1 server, 2 ticks, fairness | `AdmissionKept`, `ReenablementEnds` |
| `VisitSync_visits` | Two visits share one user on two servers; saves compare early | 2 visits of one visitor, 1 request, the cron's handler, 2 servers, `SplitSpec` | `AccessRevoked`, `AccessGranted` |
| `Credentials_mixed` | Every order of operations on a visit with a card and QR codes, where the user has two ids | 1 handler at a time, BioStar 2 and BioStar X, 1 card, 2 QR codes, 1 fault or crash | `TypeOK`, `SyncedCardOpens`, `RevocationLasts` |
| `Credentials_handlers` | Two handlers on the QR codes of a visit | 2 handlers, 1 BioStar 2, no card, 2 QR codes | `OneActiveQr`, `QrCardTracked`, `UserGoesAtCheckout` |
| `ExitDevice_checkouts` | Two swipes of one visitor, each arriving once, twice or late, with restarts | 2 events, 1 visit, 2 admissions; units of five minutes: search window 1, key 2, rounds of any length; fairness | `TypeOK`, `ScheduledIsOwned`, `PolledOnce`, `SurveyOnce`, `ExitEndsVisit` |
| `BiostarLink_session` | Outages, dropped sessions, switched connections, restarts | the poller, a scan and a preview; 2 slots of the listener; 5 failures; fairness | `TypeOK`, `OneListener`, `BackoffFollowsFailures`, `EndedSessionGoes`, `ListenerReopens` |
| `CircuitBreaker_calls` | Outcomes in any order | 4 calls, threshold 3, window 2, reset timeout 1 (units of 30 s: the gateway's options), fairness | `TypeOK`, `ClosedBelowThreshold`, `OpensOnConsecutiveFailures`, `RecoversFromOutage` |
| `Gateway_calls` | Breaker and session together | 2 calls of any kind beside a health check, either platform, threshold 1, window 0, reset timeout 1, 2 polls; fairness | `TypeOK`, `SessionHeals`, `RecoversFromTrouble` |
| `Retention_purges` | A purge between requests, cut off anywhere | 2 visits, 2 visitors, one of them on the blacklist, 1 renewed QR code, 1 fault; fairness | `TypeOK`, `PurgeIsThorough`, `OldVisitsGo` |
| `AdminTool_operations` | Two commands, one thing that goes wrong | 2 ports, 2 keys, 2 commands, 1 fault; fairness | `TypeOK`, `ManagedFilesAgree`, `SuccessMeansApplied`, `BusyEnds` |

One run refutes what a comment says (see "What the code does not keep"): `VisitSync_duplicate`, with 2 visits of one
visitor and 2 requests, violates `OneActiveVisit`.

`CHECK_DEADLOCK FALSE` is said in the runs of two modules: the purge of a database whose ids are used up (`Retention`), and the tool
whose operator has no commands left (`AdminTool`), stop.

Visits:

- `RowsCoherent`: a deadline of a re-enablement belongs to a checked-in visit only; an exit
  time is set exactly in CHECKED_OUT and FALSE_EXIT_REPORTED; a checked-in visit was admitted
  or re-enabled; a visit whose visitor has not come has no trace of an admission. The fields
  are written by seven handlers from stale copies, so this is not a matter of one assignment.
- `NeverBackToScheduled`: stale copies undo a checkout (see below), but none makes a
  visit SCHEDULED again, where its registration link would be good a second time.
- `FollowsLifecycle`: `VisitSync` implements `VisitLifecycle`: without overlapping handlers no order of
  requests, crons, device events, crashes and failed calls leaves the diagram.
- `AdmissionKept`: checkedInAt survives everything, if handlers of one visitor do not overlap.
- `AccessRevoked` and `AccessGranted`: once the handlers are at rest, a visitor with no
  checked-in visit has no BioStar user, and one with a SYNCED visit has one. They speak of
  visitors whose handlers did not overlap and whose calls did not go wrong (`overlapped`,
  `faulted`): the code has no reconciliation, so nothing stronger is true.
- `ReenablementEnds`: once the process stays up, an expired re-enablement is closed.

Credentials:

- `OneActiveQr`: find, revoke, generate and insert are four awaits; still only overlapping
  replacements give a visit a second active QR code.
- `QrCardTracked`: the QR card on a server is the one under `key`. The key is written, read and deleted by
  four functions; an untracked card would open the doors with a QR code that was replaced. It speaks of servers of one
  kind (`OneKind`): on the server whose id of the user the visit has not kept, a rotation finds neither key nor user.
- `SyncedCardOpens`: every rotation and every card rewrites the user's whole list, and every check-in
  makes a new user; the card that the backend shows as SYNCED stays in the list on some server, with servers of one kind or of both.
- `UserGoesAtCheckout`: a checkout deletes the user from every server, as long as the stored id fits each of them (`OneKind`). Check-in, force
  sync, re-enablement and rotation each keep or renew that id.
- `RevocationLasts`: no reset, rotation or re-admission makes a revoked credential valid again.
- `QrCardTracked`, `SyncedCardOpens` and `UserGoesAtCheckout` speak of handlers at rest that never overlapped and calls that
  never failed (`Settled`): there is no lock on a user's list and no reconciliation. What `Settled`
  excludes is listed under the hazards.

The exit device and the link to BioStar:

- `ScheduledIsOwned`: `exitCheckoutScheduled` holds a visit exactly while one handler works on its
  checkout. An entry left behind would switch its auto-checkout off for good.
- `PolledOnce`: the poller takes an event twice only when the key expired while a round that had read the event was
  busy with the rows before it, each of which awaits a checkout (`outlived`); never because a later search returns it.
- `SurveyOnce`: one survey mail for an admission, whichever way and however often events arrive.
- `ExitEndsVisit`: the exit of a visitor with auto-checkout closes the visit, by the poller if not by the socket,
  unless a call about this visit failed or the entry was held from before (`spoiled`).
- `OneListener`: attempts, sockets and timers form one chain, which ends only where the code loses it (`lost`).
- `BackoffFollowsFailures`: the delay is 5, 10, 20, 40, 60 seconds by the number of failures in a row.
- `EndedSessionGoes`: a session BioStar has dropped does not stay in the cache. `ListenerReopens`: after an outage
  the listener opens again, unless `lost`.

The gateway:

- `ClosedBelowThreshold`, `OpensOnConsecutiveFailures`, `RecoversFromOutage`: the breaker neither
  misses the threshold nor opens without failures in a row, and closes for good after an outage.
- `SessionHeals`: a retry after a 401 has a session BioStar accepts, whatever other calls and health checks did to the
  shared one, unless BioStar ended sessions while the call ran, or somebody who had logged in before was still to store a
  session that was dead by then (login and setex are two awaits, so a late store can replace a good session).
- `RecoversFromTrouble`: breaker and session together: when BioStar is well again the circuit closes for good. A dead
  session could keep a breaker open that lets only captures through; its 25 minutes end that.

The purge:

- `PurgeIsThorough`: when a purge comes to its end each owner of the visits it deleted is gone or has a visit. One
  that is cut short, or that the database refuses (a new visit, a credential, a link, the blacklist, a document), is excepted.
- `OldVisitsGo`: a closed visit past its retention goes in the end; only a closed visit with a pre-registration
  link holds the purge up, for all visits of the tenant.

The port manager:

- `ManagedFilesAgree`: while no operation failed or was cut off, an idle tool leaves what it writes in agreement: the
  database's port, the redirect, the encryption key, and the services that run on them. It does not speak of `nginx.proxy` and
  `env.origin`, which drift.
- `SuccessMeansApplied`: when a command is reported as done, its values are in the files it writes, and the service it
  restarts is up on them. After a restore only the data, the key and a backend that is not older than them are promised.
- `BusyEnds`: the window learns the end of every operation it learnt the start of.

*Why the bounds are enough.* Handlers interfere only through rows of one visitor: two handlers
on one visit give every order of two loads and two saves, and the cron's handler is a third.
Two visits and two servers are the least for a shared user and a partial failure. Two ticks let
a deadline be set, expire, and be set again. `MaxLinks` bounds the unspent links of one visit,
`MaxTime` the clock. Handlers are reused, so sequences of operations have no bound. Two QR
codes are the least for a replacement; two servers are the least for one id that may fit one of them and not the other
(what holds on servers of one kind only is checked with one server and proved for any number), and
as a second card is handled after the first in the same loop, it adds no order of calls. Four calls
are one more than the threshold: three failures open the circuit while a fourth call is under way.
Two events of one visitor over two admissions let a late copy of the first meet the second admission and let the
checkout of one delay the other; with window 1 and key 2 the key outlives the window by one unit, the least margin and the code's own. Three REST calls are one of each
behaviour after a 401; five failures reach the longest delay. Two gateway calls let one drop the session the other
has just stored; a health check beside them lets a session be stored late that BioStar has ended. The breaker's thresholds are the
subject of `CircuitBreaker_calls`. Two visits of one or two visitors let a purge meet the row it listed, a newer visit of the same
visitor, and somebody else's, who may be `Held`. Two commands let the second find what the first left behind. `MaxRenewals`,
`MaxFaults`, `MaxCommands`, `MaxPolls`, `MaxAdmissions` and `MaxFailures` bound what would grow or repeat without end.

*Fairness.* `VisitSync`: `WF` of the closing cron (it fires every minute) and of every step of a
handler under way (an awaited call ends: each HTTP call has a timeout). Requests, events and
outcomes are not fair. `ReenablementEnds` assumes that crashes stop. `ExitDevice`: `SF` of the
poller's read of all rows (BioStar answers now and then, and not always with 50 later rows), `WF` of its loop and of every handler; `ExitEndsVisit` assumes that
crashes stop. `BiostarLink`: `WF` of every step of the listener but the close of an open socket, and of the poller's
call, `SF` of its being answered; both properties assume that BioStar is reachable from some moment on.
`CircuitBreaker` and `Gateway`: time passes, calls end (a health check need not), a session in Redis has its TTL, and the application goes
on making calls; without further calls an open circuit stays open, as in the code. `Retention`: `WF` of the purge
(every night). `AdminTool`: `WF` of the worker and of the window's frames: the waits for a
state or a port have timeouts; pg_dump and pg_restore are waited for without one (`backup_restore.rs:55`) and are assumed to end. Nothing is assumed of operators.

### What the code does not keep

`VisitSync_duplicate` refutes a comment (`visitors.service.ts:988`): two requests pass the check for an active visit
before either inserts, and `inviteVisitors` does not check: a visitor has two active visits.

Departures from comments and documents that are in the models, where the properties above name them as
exceptions or say nothing of them, and no run is spent on:

*Visits and crons.* The cron closes a visit that was checked out and admitted again, or renewed, after the cron had
read its list (`visitors.service.ts:1297-1302` sets out to prevent it). A checkout during the background sync of the check-in
finds no user to delete; then the user is created and stays (`src/PROJECT_CONTEXT.md:35`). The sync saves its old
entity: a checked-out visit is CHECKED_IN again (`visitors.service.ts:1229`). The runs of `VisitSync` give the servers one kind
of id, its `UserIdOn` allows both. The reference to a user is cleared although its delete failed (`:1310`).
`bulkCheckoutTenant` also closes SCHEDULED and PRE_REGISTERED visits (`visitors.service.ts:608` says CHECKED_IN).

*Credentials.* A temporary re-enablement creates the user anew but leaves the cards' rows SYNCED: a card that worked
before is not assigned again (`visitors.service.ts:1555`). The flag of the lazy enrolment outlives the user: after a
second check-in the portal shows a QR code that no server has (`:2622`). `revokeCredential` never takes a card off a server,
and a later check-in assigns it again (`access-credential.entity.ts:133` speaks of its deletion). With two servers a
card is assigned on the first only, being SYNCED when the second has its turn. A rotation that fails half-way
leaves a QR card nobody knows of (`suprema-sync.service.ts:1095` speaks of a guarantee). With a BioStar 2 and a
BioStar X the user has two ids (`:1220`) and the visit keeps one (`:215`): a checkout leaves the user of the other server, with whatever
cards he has there (`:610` says that the whole user is deleted), and a QR card replaced meanwhile stays on that server. TLC finds both in
an instance like `Credentials_mixed` with `UserGoesAtCheckout` or `QrCardTracked` as the invariant.

*Listener.* It is lost when no active connection is found, or the database errs, at the moment it reconnects
(`biostar-ws.service.ts:175-179`), and when the handshake is refused: with a handler for `unexpected-response` the ws library
reports no close (`:235-240`); line 9 speaks of an automatic reconnection. A survey mail that is still being sent holds the entry
of `exitCheckoutScheduled` and swallows the exit from a new admission (`:398`). A preview leaves a dead session in the cache.

*Gateway.* A HALF_OPEN circuit lets every call through, not one (`circuit-breaker.service.ts:11`); a probe that
fails later than the failure window counts as the first failure and leaves the circuit HALF_OPEN (line 13 says OPEN); a late
success closes an open circuit before its cooling down is over (`:150`). The face check turns a 401 into a negative
answer and a BioStar X capture does not drop a dead session, so neither heals by itself.

*Purge.* Photos are saved in uploads/photos (`visitors.service.ts:2033`) and looked for in uploads (`data-retention.service.ts:158`), so
none is ever deleted (line 154 and the settings page say they are). A visit admitted again since it was listed is deleted by its id,
its visitor inside (line 46 speaks of final states only). A pre-registration link holds up the deletion of every visit of its tenant. A purge that is cut short
leaves visitors without visits that no later purge finds, and so does one visitor on the blacklist, for all who were
to be deleted with him. A request that had read the visit saves it as a new row.

*Port manager.* The header of `src/windows-deployment/assets/nginx.conf.template` says to change ports with the tool. But the
backend's port stays in the proxy_pass directives (lines 50, 59), the HTTPS port in FRONTEND_URL and CORS_ALLOWED_ORIGINS, and both
changes are reported as done. Changing the backend's port does not restart it (`ui/ports_panel.rs:19`): the service manager does not stop
the backend under a running frontend, and the change ends half done, with a failure reported. A start that meets a service still
stopping counts as done, and the service stays stopped after a reported success (`service_control.rs:134` speaks of sequences that wait for
each step). A restore stops the services and does not wait for it (`ui/backup_panel.rs:67` says they are stopped
before); when it fails it leaves them stopped, and a file `.env` cut off while it is replaced is not restored. Restoring a `.env` of
another installation brings its port and password, with which the restore itself may no longer connect. A failed scan
of the ports reports no end through `busy`, only through its own event.

## 4. Proofs

All checked by TLAPS, for every value of the constants that satisfies the assumption of the module
(`ConstantsAssumption`, `CredentialsAssumption`, `OptionsAssumption`, `ExitAssumption`, `LinkAssumption`,
`GatewayAssumption`, `RetentionAssumption`, `InstallationAssumption`, `BoundsAssumption`); no finiteness of the sets of handlers, cards, calls or visits is assumed.

- `VisitSync_proofs`: `TypeCorrect == SplitSpec => []TypeOK`. `TypeOK` is not inductive: a
  handler that saves must have a visit, one that loops must have connections left. `TypeInv` adds
  this (`HandlerOK`). `SplitSpec` has every behaviour of `Spec`.
  `RowsStayCoherent == Spec => []RowsCoherent`. A row is overwritten by the
  copy of some handler, so `CoherentInv` says that the copies are coherent, too, and that a
  handler that has a loop over the connections to go works on an admitted visit (it will write `ref`
  and `sync`). The lemma `MergeIsCopy` is where the one-step save is used.
  `ScheduledOnce == SplitSpec => NeverBackToScheduled`. `BegunInv` says that a handler with an
  entity works on a visit that exists and whose copy has left SCHEDULED; that if the row it compared
  with had left SCHEDULED, so has the stored one; that every visit in a bulk list exists and every
  visit with a survey link has begun; and that no two handlers insert the same visit.
  `ImplementsLifecycle == SplitSpec => FollowsLifecycle`, the refinement: initial states map
  to initial states, every step to a step of `VisitLifecycle` or a stutter. The invariant says that a visitor whose
  handlers never overlapped has at most one handler at work, whose copy has the status of the row or one the diagram leads to
  from it. With it every save of an undisturbed visit is a step of `Diagram`; what
  `BegunInv` says about the others makes their saves steps of `Derail`.
  `AdmissionIsKept == SplitSpec => AdmissionKept`: only saves write a row, and the copy they write has the admission
  of the row, since the same invariant holds of `checkedInAt`.
  `AccessIsRevoked == OneIdEach => (SplitSpec => []AccessRevoked)`, where `OneIdEach` says that a visitor has one user id on
  all servers and nobody else has it (servers of one kind do so; a BioStar 2 and a BioStar X give two ids, and a visit
  remembers only one). `AccountInv` accounts for the user of an undisturbed visitor: when nobody works on him and a server
  has his user, a checked-in visit refers to it, so its checkout will have it deleted; when a handler does, its entity has the
  reference, or its loop the id just created, or the servers it has been to have none.
  `AccessIsGranted == OneIdEach => (SplitSpec => []AccessGranted)`. The user of a checked-in visit could only be taken away by
  the checkout of another visit of the visitor that has it too, and the property excuses it when that visit was admitted. So the proof
  needs the trail an admission leaves: `TrailInv` says that a row or an entity with a user, with a status after
  the admission, with an exit event or a false-exit link under way has its admission time; `OwnInv` that no visit refers to
  another visitor's user. With them `GrantInv` says what holds of the users of an undisturbed visitor at each point of the handler
  that works on him, and that everything is `Settled` as soon as its entity is to be saved for good. The actions are first
  sorted by what they do (`MovesAside`, `Starts`, `GoesOn`), so that each invariant is proved over three kinds and not over
  forty actions.
- `Credentials_proofs`: `TypeCorrect == Spec => []TypeOK`. `HandlerOK` says what a handler has at each
  program counter: on a server, a connection and a job; with a code to enrol, that code; with cards at hand,
  cards and no QR codes. `OneQr == Spec => []OneActiveQr`. `QrInv` says that at most one handler is
  replacing the code; that when it is about to revoke, every active code is the one it found; and
  that when it is about to insert, there is none. `Quiet` sums up the thirty-odd actions that do not replace a code.
  `RevocationIsKept == Spec => RevocationLasts`. A handler at work on the cards saves each with the `isRevoked` it has
  read, so `CardInv` says that what it has read is still so, unless a revocation overlapped its work.
  `QrCardIsTracked == Spec => [](OneKind => QrCardTracked)`, `UsersGoAtCheckout == Spec => [](OneKind =>
  UserGoesAtCheckout)` and `SyncedCardsOpen == Spec => []SyncedCardOpens`, all three from `ServerInv`. The
  properties speak of the time when no handler is at work, and nothing about the servers is stable before that: a handler
  puts back a list it has read, deletes the user on one server after the other, has a card registered that is in no
  list yet. So `ServerInv` says, for as long as handlers took turns and every call succeeded, that one handler at most is at
  work, and what it knows at each program counter: of the list it is about to put (`ListKnown`), of the users when it has the
  visit's entity to save (`EntityKnown`: an entity without a reference means no user on any server), and in the middle of a job, of
  the connections before it (`JobOn`). Where it speaks of users and QR cards it does so for servers of one kind; what it says of physical cards
  holds for any mix, as a handler that names a user the server does not know changes nothing there. Of the servers it also says that a card in a list is registered and that only a user has a
  list; else a put could lose a physical card or give one to nobody. `Targets` says once for all where a handler lands
  that is done with a connection, a QR code or a card.
- `ExitDevice_proofs`: `TypesOfListener`. `EventsTakenOnce == Spec => []PolledOnce`: the poller's key of an event is younger
  than it lives as long as the event is in the window of a search (`KeyOutlives`), where `Window < SeenTTL` is used; an event in the list
  of the round under way has its key, or is still to be taken for the first time, or is `outlived`. No bound on a round is assumed. `EntriesHaveOneOwner == Spec =>
  []ScheduledIsOwned`: the invariant is the property, with what a handler awaits. `OneSurvey == Spec => []SurveyOnce`: a mail is
  about an admission that is over, and a visit about which one was sent is checked out with no checkout under way.
- `BiostarLink_proofs`: `TypesOfLink`, `ListenerIsOne`, `DelayFollowsFailures`. The delay has to be tied to the
  failures both before and after the timer fires: the invariant says that a pending timer has counted a failure
  the delay does not know of yet.
- `CircuitBreaker_proofs`: `TypeCorrect`; the inductive invariant `IInv` adds to it that a
  closed circuit is below the threshold and that `failureCount <= streak` (every counted failure
  belongs to the current run of failures). From it `ClosedIsBelowThreshold` and `OpeningIsJustified`.
- `Gateway_proofs`: `RetryHeals == Spec => []SessionHeals`. While a retry is not troubled, no call and no health check is about to store
  a session that BioStar has ended, and once it has dropped the session of Redis, whatever it finds there is good.
  `GatewayTypes == Spec => []TypeOK`: the breaker's counters stay within the bounds its own type names, whichever call
  reports to it, and a capture polls fewer than `MaxPolls` times in vain at an endpoint. `GatewayRefinesBreaker == Spec => Breaker!Spec`: every step of the gateway is a step of `CircuitBreaker` or
  leaves its variables alone, so what `CircuitBreaker_proofs` says holds of the gateway's breaker.
- `Retention_proofs`: `TypesOfRetention`. `PurgesAreThorough == Spec => PurgeIsThorough`: an owner the purge spares has a visit, and a request that saves a visit it
  had read makes it again for the same owner.

- `AdminTool_proofs`: `OperationsInvariant == Spec => [](Types /\ Inv)`, and from it `ToolTypes`, `ToolFilesAgree ==
  Spec => []ManagedFilesAgree` and `ToolSuccessMeansApplied == Spec => SuccessMeansApplied`. The worker runs a command call by
  call, and between two calls files and services rightly disagree, so the invariant reads the programs: `InProgram` says that
  the calls left are the end of the command's program, `Done` what a command with so many calls left has done
  (whatever failed before it), `Agreement` which disagreements it has yet to remove, as long as no failure was reported.
  At the last call `Done` is the success and `Agreement` has no exception left. Not promised, as the code does not keep it: the
  backend's port in nginx.conf, the origins in .env, services that are up after a restore.

TLC checked every property on the instances of section 3 before it was proved.

*Only model-checked.* Liveness under fairness (`ReenablementEnds`, `ExitEndsVisit`, `EndedSessionGoes`,
`ListenerReopens`, `RecoversFromOutage`, `RecoversFromTrouble`, `OldVisitsGo`, `BusyEnds`) is out of the prover's reach, as are ENABLED
and induction over data. Every invariant and action property of the passing runs is the statement of a theorem.

## 5. Not modelled

- *Frontend* (half of the lines of the repository): pages that start the requests modelled here and show what comes back. Its
  own state is that of forms.
- *Equipment, authentication, operators, hosts, visitor types, notifications, audit, reports, events gateway,
  encryption*: single-row CRUD, queries, mails, pure functions over bytes. Two hazards of them (a stale list of the
  overtime cron, a counter of failed logins) are listed; they repeat the pattern of `VisitSync` on tables nothing else reads.
- *Onboarding*: `completeOnboarding` merges two rows of visitors in one request; no other operation works on a placeholder.
- *Job queue*: no producer, the module is not imported (`app.module.ts:213`). *Windows supervisor*: one loop
  around one process.
- *Wording, layout, formats*: mails, PDF and CSV files, labels, OCR, images, fields of BioStar's answers.
- In the modelled components, what the abstractions of each section name.
