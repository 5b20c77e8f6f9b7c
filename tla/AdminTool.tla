------------------------------ MODULE AdminTool ------------------------------
(***************************************************************************)
(* The Windows administration tool (port-manager): a window that queues    *)
(* commands, one worker thread that runs them against the service manager, *)
(* three configuration files and the database, and the events it sends     *)
(* back.  Every command is a short program of calls; a call may find its   *)
(* service in the wrong state, time out or fail, and what then happens is  *)
(* the call's own error policy.  The services change state by themselves   *)
(* between any two calls, and the window may be closed at any moment.      *)
(***************************************************************************)
EXTENDS Naturals, Sequences

CONSTANTS Ports,        \* TCP ports the operator can type
          Keys,         \* encryption keys of installations
          OwnPort,      \* the port each server was installed with
          OwnKey,       \* the encryption key of this installation
          MaxCommands,  \* bound: commands the operator issues
          MaxFaults     \* bound: service crashes, failed calls, closed windows

ASSUME InstallationAssumption == OwnPort \in Ports /\ OwnKey \in Keys
ASSUME BoundsAssumption == MaxCommands \in Nat /\ MaxFaults \in Nat

VARIABLES status,    \* the state of each service, as the service manager has it
          fresh,     \* its process was started after its configuration was last written
          listen,    \* the port PostgreSQL opened when it last started
          env,       \* backend\.env: APP_PORT, DB_PORT, the HTTPS port of FRONTEND_URL and
                     \* CORS_ALLOWED_ORIGINS, the key, and whether the file is whole
          nginx,     \* nginx.conf: the two listen directives, the redirect to the HTTPS
                     \* port and the backend port of the two proxy_pass directives
          pgConf,    \* the port in postgresql.conf
          dbKey,     \* the key the stored BioStar passwords are encrypted with
          queue,     \* commands sent and not yet taken by the worker
          work,      \* the command in hand and the calls it has left
          events,    \* events sent and not yet drained by the window
          busy, scanning, conflict,   \* the window: busy_all, scanning_ports, pending_conflict
          warned,    \* history: an operation reported a failure, or was cut off
          keyless,   \* history: another installation's data was restored without its .env
          issued, faults              \* bounded counters

services == <<status, fresh, listen>>
files == <<env, nginx, pgConf, dbKey>>
window == <<busy, scanning, conflict>>
history == <<warned, keyless>>
vars == <<services, files, queue, work, events, window, history, issued, faults>>

Backend == "Backend"    Frontend == "Frontend"
Postgres == "Postgres"  Redis == "Redis"
Services == {Backend, Frontend, Postgres, Redis}
Statuses == {"Running", "Stopped", "StartPending", "StopPending", "Paused"}
None == [op |-> "none"]
Idle == [cmd |-> None, todo |-> <<>>, late |-> FALSE]

PortCommands == [op : {"ApplyBackendPort", "ApplyPostgresPort"}, port : Ports]
                \cup [op : {"ApplyFrontendPorts"}, port : Ports, http : Ports]
ServiceCommands == [op : {"StartService", "StopService", "RestartService"}, svc : Services]
OtherCommands == [op : {"StartAll", "StopAll", "ScanPorts", "CreateBackup"}]
                 \cup [op : {"RestoreBackup"}, withEnv : BOOLEAN, port : Ports, key : Keys]
Commands == PortCommands \cup ServiceCommands \cup OtherCommands

-----------------------------------------------------------------------------
(* The programs the worker runs.  A call that fails ends the operation      *)
(* ("must"), is ignored ("may"), or is remembered and reported at the next  *)
(* check or at the end ("later").                                           *)

Call(name, on, fail) == [call |-> name, on |-> on, fail |-> fail]

restart_service(s) == << Call("stop", s, "must"), Call("awaitStopped", s, "must"),
                         Call("start", s, "must"), Call("awaitRunning", s, "must") >>

apply_postgres_port(p) ==
  << Call("setPgPort", p, "must"), Call("setDbPort", p, "must") >>
  \o restart_service(Postgres) \o << Call("awaitPort", p, "must") >>
  \o restart_service(Backend)

run_start_all ==
  << Call("start", Postgres, "later"), Call("start", Redis, "later"), Call("check", None, "must"),
     Call("awaitRunning", Postgres, "may"), Call("awaitRunning", Redis, "may"),
     Call("start", Backend, "must"), Call("start", Frontend, "must") >>

run_stop_all == << Call("stop", Frontend, "later"), Call("stop", Backend, "later") >>

restore_backup(withEnv) ==
  << Call("extractDump", None, "must") >>
  \o (IF withEnv THEN << Call("truncateEnv", None, "must"), Call("copyEnv", None, "must") >>
                 ELSE <<>>)
  \o << Call("pgRestore", None, "must") >>

run_restore_sequence(withEnv) ==
  << Call("stop", Frontend, "must"), Call("stop", Backend, "must"), Call("dump", None, "may") >>
  \o restore_backup(withEnv)
  \o << Call("start", Backend, "must"), Call("start", Frontend, "must") >>

Program(c) ==
  CASE c.op = "StartService"   -> << Call("startOne", c.svc, "must") >>
    [] c.op = "StopService"    -> << Call("stopOne", c.svc, "must") >>
    [] c.op = "RestartService" -> restart_service(c.svc)
    [] c.op = "StartAll"       -> run_start_all
    [] c.op = "StopAll"        -> run_stop_all
    [] c.op = "ScanPorts"      -> << Call("scan", None, "must") >>
    [] c.op = "CreateBackup"   -> << Call("dump", None, "must") >>
    [] c.op = "RestoreBackup"  -> run_restore_sequence(c.withEnv)
    [] c.op = "ApplyBackendPort"   -> << Call("setAppPort", c.port, "must") >>
                                      \o restart_service(Backend)
    [] c.op = "ApplyFrontendPorts" -> << Call("setHttps", c.port, "must"),
                                         Call("setHttp", c.http, "must") >>
                                      \o restart_service(Frontend)
    [] c.op = "ApplyPostgresPort"  -> apply_postgres_port(c.port)

Init ==
  /\ status = [s \in Services |-> "Running"]
  /\ fresh = [s \in Services |-> TRUE]
  /\ listen = OwnPort /\ pgConf = OwnPort
  /\ env = [app |-> OwnPort, db |-> OwnPort, origin |-> OwnPort, key |-> OwnKey,
            whole |-> TRUE]
  /\ nginx \in [https : {OwnPort}, redirect : {OwnPort}, http : Ports \ {OwnPort},
                proxy : {OwnPort}]
  /\ dbKey = OwnKey
  /\ queue = <<>> /\ work = Idle /\ events = <<>>
  /\ busy = FALSE /\ scanning = FALSE /\ conflict = None
  /\ warned = FALSE /\ keyless = FALSE
  /\ issued = 0 /\ faults = 0

-----------------------------------------------------------------------------
(* The window.                                                              *)

Send(c) == queue' = Append(queue, c)

\* services_panel and backup_panel: their buttons are disabled while busy_all.
PressButton(c) ==
  /\ issued < MaxCommands /\ issued' = issued + 1
  /\ c.op = "ScanPorts" \/ ~busy
  /\ Send(c)
  /\ scanning' = (scanning \/ c.op = "ScanPorts")
  /\ UNCHANGED <<services, files, work, events, busy, conflict, history, faults>>

\* check_and_apply: a port somebody listens on opens a dialog first.  The
\* ports panel does not look at busy_all.
SavePorts(c) ==
  /\ issued < MaxCommands /\ issued' = issued + 1
  /\ c.op = "ApplyFrontendPorts" => c.port # c.http
  /\ \/ Send(c) /\ UNCHANGED conflict
     \/ conflict' = c /\ UNCHANGED queue
  /\ UNCHANGED <<services, files, work, events, busy, scanning, history, faults>>

AnswerConflict ==
  /\ conflict # None /\ conflict' = None
  /\ Send(conflict) \/ UNCHANGED queue
  /\ UNCHANGED <<services, files, work, events, busy, scanning, history, issued, faults>>

\* drain_events, at the start of a frame: everything received so far.
DrainEvents ==
  LET marks == SelectSeq(events, LAMBDA e : e # "scanned") IN
  /\ events # <<>> /\ events' = <<>>
  /\ busy' = IF marks = <<>> THEN busy ELSE marks[Len(marks)] = "started"
  /\ scanning' = (scanning /\ \A i \in DOMAIN events : events[i] # "scanned")
  /\ UNCHANGED <<services, files, queue, work, conflict, history, issued, faults>>

-----------------------------------------------------------------------------
(* The worker.                                                              *)

\* run_loop takes the next command; only a scan starts without announcing it.
TakeCommand ==
  /\ work = Idle /\ queue # <<>>
  /\ queue' = Tail(queue)
  /\ work' = [cmd |-> Head(queue), todo |-> Program(Head(queue)), late |-> FALSE]
  /\ events' = IF Head(queue).op = "ScanPorts" THEN events ELSE Append(events, "started")
  /\ UNCHANGED <<services, files, window, history, issued, faults>>

\* report_and_log: the operation ends and says how.
Report(outcome) ==
  /\ work' = Idle
  /\ events' = Append(events, outcome)
  /\ warned' = (warned \/ outcome = "failed")

\* Mutant: the last call of a program does not end the operation.
ProceedForever(more, late) ==
  /\ work' = [work EXCEPT !.todo = more \o Tail(work.todo), !.late = late]
  /\ UNCHANGED <<events, warned>>

\* The call in hand is done, and `more` calls come before the rest.
ProceedWith(more, late) ==
  LET rest == more \o Tail(work.todo) IN
  IF rest # <<>> THEN /\ work' = [work EXCEPT !.todo = rest, !.late = late]
                      /\ UNCHANGED <<events, warned>>
  ELSE IF late THEN Report("failed")
  ELSE Report(IF work.cmd.op = "ScanPorts" THEN "scanned" ELSE "succeeded")

Proceed == ProceedWith(<<>>, work.late)

Fail ==
  CASE Head(work.todo).fail = "must"  -> Report("failed")
    [] Head(work.todo).fail = "may"   -> Proceed
    [] Head(work.todo).fail = "later" -> ProceedWith(<<>>, TRUE)

InHand(name) == work.todo # <<>> /\ Head(work.todo).call = name
On == Head(work.todo).on

\* "Already in that state" is an error of StartService and StopService only;
\* every other caller takes it for done.
AlreadyThere(name) == IF InHand(name) THEN Proceed ELSE Fail

\* DependOnService: the frontend needs the backend.  The service manager starts
\* a stopped backend with the frontend, and refuses to stop the backend while
\* the frontend is up; of a frontend on its way down it may still say so.
DependsOn(s, t) == s = Frontend /\ t = Backend
HeldUp(s) == \E d \in Services : DependsOn(d, s) /\ status[d] # "Stopped"
Released(s) == \A d \in Services : DependsOn(d, s) => status[d] \in {"Stopped", "StopPending"}

Launch(s) ==
  LET Started(t) == t = s \/ (DependsOn(s, t) /\ status[t] = "Stopped") IN
  /\ status' = [t \in Services |-> IF Started(t) THEN "StartPending" ELSE status[t]]
  /\ fresh' = [t \in Services |-> Started(t) \/ fresh[t]]
  /\ Proceed

stop_service ==
  /\ InHand("stop") \/ InHand("stopOne")
  /\ \/ /\ status[On] = "Stopped"
        /\ AlreadyThere("stop") /\ UNCHANGED status
     \/ /\ status[On] \in {"Running", "Paused"} /\ Released(On)
        /\ status' = [status EXCEPT ![On] = "StopPending"]
        /\ Proceed
     \/ /\ status[On] # "Stopped"
        /\ status[On] \in {"StartPending", "StopPending"} \/ HeldUp(On)
        /\ Fail /\ UNCHANGED status
  /\ UNCHANGED <<fresh, listen, files, queue, window, keyless, issued, faults>>

\* A paused service is stopped and waited for before it is launched.  A start
\* is an error while the service is stopping, or counts as already running; so
\* may one whose dependency is stopping.
start_service ==
  /\ InHand("start") \/ InHand("startOne")
  /\ \/ /\ status[On] \in {"Running", "StartPending", "StopPending"}
        /\ AlreadyThere("start")
        /\ UNCHANGED <<status, fresh>>
     \/ /\ status[On] = "StopPending" \/ (On = Frontend /\ status[Backend] = "StopPending")
        /\ Fail /\ UNCHANGED <<status, fresh>>
     \/ /\ status[On] = "Paused" /\ HeldUp(On)
        /\ Fail /\ UNCHANGED <<status, fresh>>
     \/ /\ status[On] = "Paused" /\ Released(On)
        /\ status' = [status EXCEPT ![On] = "StopPending"]
        /\ ProceedWith(<< Call("relaunch", On, Head(work.todo).fail) >>, work.late)
        /\ UNCHANGED fresh
     \/ /\ status[On] = "Stopped"
        /\ Launch(On)
  /\ UNCHANGED <<listen, files, queue, window, keyless, issued, faults>>

relaunch ==
  /\ InHand("relaunch")
  /\ \/ status[On] = "Stopped" /\ Launch(On)
     \/ status[On] # "Stopped" /\ Fail /\ UNCHANGED <<status, fresh>>
  /\ UNCHANGED <<listen, files, queue, window, keyless, issued, faults>>

\* wait_for_status and wait_for_tcp_port: reached, or given up after the
\* timeout.  On the new port another program may be the one that answers.
Reached == \/ InHand("awaitStopped") /\ status[On] = "Stopped"
           \/ InHand("awaitRunning") /\ status[On] = "Running"

\* Mutant: a wait that times out goes on as if the state had been reached.
WaitAndGoOn ==
  /\ InHand("awaitStopped") \/ InHand("awaitRunning")
  /\ Proceed
  /\ UNCHANGED <<services, files, queue, window, keyless, issued, faults>>

wait_for_status ==
  /\ InHand("awaitStopped") \/ InHand("awaitRunning")
  /\ IF Reached THEN Proceed ELSE Fail
  /\ UNCHANGED <<services, files, queue, window, keyless, issued, faults>>

wait_for_tcp_port ==
  /\ InHand("awaitPort")
  /\ Proceed \/ (Fail /\ ~(status[Postgres] = "Running" /\ listen = On))
  /\ UNCHANGED <<services, files, queue, window, keyless, issued, faults>>

\* Mutant: the early return of StartAll forgets its OperationFailed.
ReturnUnreported ==
  /\ InHand("check")
  /\ IF work.late THEN work' = Idle /\ UNCHANGED <<events, warned>> ELSE Proceed
  /\ UNCHANGED <<services, files, queue, window, keyless, issued, faults>>

\* StartAll looks at the two results only after both calls.
check_results ==
  /\ InHand("check")
  /\ IF work.late THEN Report("failed") ELSE Proceed
  /\ UNCHANGED <<services, files, queue, window, keyless, issued, faults>>

\* The configuration writers replace one value and leave the rest (nobody writes
\* the origin and the proxy_pass port); a service that is up keeps what it read
\* when it started.
Written(s) == fresh' = [fresh EXCEPT ![s] = FALSE]

set_backend_port ==
  /\ InHand("setAppPort")
  /\ env' = [env EXCEPT !.app = On] /\ Written(Backend)
  /\ UNCHANGED <<nginx, pgConf>>

set_db_port ==
  /\ InHand("setDbPort")
  /\ env' = [env EXCEPT !.db = On] /\ Written(Backend)
  /\ UNCHANGED <<nginx, pgConf>>

set_port ==
  /\ InHand("setPgPort")
  /\ pgConf' = On /\ Written(Postgres)
  /\ UNCHANGED <<env, nginx>>

\* Mutant: only the listen directive is rewritten, not the redirect.
SetListenOnly ==
  /\ InHand("setHttps")
  /\ nginx' = [nginx EXCEPT !.https = On] /\ Written(Frontend)
  /\ UNCHANGED <<env, pgConf>>

set_https_port ==
  /\ InHand("setHttps")
  /\ nginx' = [nginx EXCEPT !.https = On, !.redirect = On] /\ Written(Frontend)
  /\ UNCHANGED <<env, pgConf>>

set_http_port ==
  /\ InHand("setHttp")
  /\ nginx' = [nginx EXCEPT !.http = On] /\ Written(Frontend)
  /\ UNCHANGED <<env, pgConf>>

\* Restoring .env creates the file anew and then copies into it.
restore_env ==
  /\ \/ InHand("truncateEnv") /\ env' = [env EXCEPT !.whole = FALSE]
     \/ /\ InHand("copyEnv")
        /\ \E a, o \in Ports :
             env' = [app |-> a, db |-> work.cmd.port, origin |-> o, key |-> work.cmd.key,
                     whole |-> TRUE]
  /\ Written(Backend)
  /\ UNCHANGED <<nginx, pgConf>>

WriteConfiguration ==
  /\ set_backend_port \/ set_db_port \/ set_port \/ set_https_port \/ set_http_port
     \/ restore_env
  /\ Proceed
  /\ UNCHANGED <<status, listen, dbKey, queue, window, keyless, issued, faults>>

\* pg_dump and pg_restore connect with the port and password of .env.
Connects == status[Postgres] = "Running" /\ listen = env.db /\ env.whole

\* create_backup and list_tcp_listeners change nothing the model keeps.
ReadOnlyCall ==
  /\ \/ InHand("dump") /\ (IF Connects THEN Proceed ELSE Fail)
     \/ InHand("scan") /\ Proceed
     \/ InHand("extractDump") /\ Proceed
  /\ UNCHANGED <<services, files, queue, window, keyless, issued, faults>>

\* pg_restore --clean; the password of another installation may be refused.
pg_restore ==
  /\ InHand("pgRestore")
  /\ \/ /\ Connects
        /\ dbKey' = work.cmd.key
        /\ keyless' = (keyless \/ env.key # work.cmd.key)
        /\ Proceed
     \/ /\ ~Connects \/ env.key # OwnKey
        /\ Fail /\ UNCHANGED <<dbKey, keyless>>
  /\ UNCHANGED <<services, env, nginx, pgConf, queue, window, issued, faults>>

WorkerStep ==
  \/ TakeCommand \/ stop_service \/ start_service \/ relaunch
  \/ wait_for_status \/ wait_for_tcp_port \/ check_results
  \/ WriteConfiguration \/ ReadOnlyCall \/ pg_restore

-----------------------------------------------------------------------------
(* What happens around the tool.                                            *)

\* The service manager carries out what it accepted; PostgreSQL reads its
\* configuration when it comes up.
ServiceSettles(s) ==
  /\ \/ status[s] = "StartPending" /\ status' = [status EXCEPT ![s] = "Running"]
     \/ status[s] = "StopPending" /\ status' = [status EXCEPT ![s] = "Stopped"]
  /\ listen' = IF s = Postgres /\ status'[s] = "Running" THEN pgConf ELSE listen
  /\ UNCHANGED <<fresh, files, queue, work, events, window, history, issued, faults>>

\* A process dies; the two that NSSM wraps may end up paused in a crash loop.
ServiceFails(s) ==
  /\ faults < MaxFaults /\ faults' = faults + 1
  /\ status[s] \in {"Running", "StartPending"}
  /\ \/ status' = [status EXCEPT ![s] = "Stopped"]
     \/ s \in {Backend, Frontend} /\ status' = [status EXCEPT ![s] = "Paused"]
  /\ UNCHANGED <<fresh, listen, files, queue, work, events, window, history, issued>>

\* A file cannot be read or written, a program cannot be run, a password is
\* wrong.  pg_restore may stop half way.
CallFails ==
  /\ faults < MaxFaults /\ faults' = faults + 1
  /\ work.todo # <<>>
  /\ Head(work.todo).call \notin {"check", "awaitStopped", "awaitRunning", "awaitPort"}
  /\ dbKey' \in (IF InHand("pgRestore") THEN {dbKey, "mixed"} ELSE {dbKey})
  /\ Fail
  /\ UNCHANGED <<services, env, nginx, pgConf, queue, window, keyless, issued>>

\* The window is closed, which ends the worker wherever it is; opened again,
\* the tool starts empty.
CloseTool ==
  /\ faults < MaxFaults /\ faults' = faults + 1
  /\ warned' = (warned \/ work # Idle)
  /\ queue' = <<>> /\ work' = Idle /\ events' = <<>>
  /\ busy' = FALSE /\ scanning' = FALSE /\ conflict' = None
  /\ UNCHANGED <<services, files, keyless, issued>>

Next ==
  \/ \E c \in ServiceCommands \cup OtherCommands : PressButton(c)
  \/ \E c \in PortCommands : SavePorts(c)
  \/ AnswerConflict \/ DrainEvents
  \/ WorkerStep
  \/ \E s \in Services : ServiceSettles(s) \/ ServiceFails(s)
  \/ CallFails \/ CloseTool

Spec == Init /\ [][Next]_vars

\* The waits for a state or a port have timeouts; pg_dump and pg_restore, which
\* the worker waits for without one, are taken to end.  The window draws a frame
\* at least twice a second; nothing is assumed of the operator.
FairSpec == Spec /\ WF_vars(WorkerStep) /\ WF_vars(DrainEvents)

-----------------------------------------------------------------------------
(* Properties.                                                              *)

\* Every variable has its type: in particular only known calls are in hand.
TypeOK ==
  /\ status \in [Services -> Statuses] /\ fresh \in [Services -> BOOLEAN]
  /\ listen \in Ports /\ pgConf \in Ports
  /\ env \in [app : Ports, db : Ports, origin : Ports, key : Keys, whole : BOOLEAN]
  /\ nginx \in [https : Ports, redirect : Ports, http : Ports, proxy : Ports]
  /\ dbKey \in Keys \cup {"mixed"}
  /\ queue \in Seq(Commands) /\ work.cmd \in Commands \cup {None}
  /\ work.late \in BOOLEAN /\ (work.todo = <<>> <=> work.cmd = None)
  /\ events \in Seq({"started", "succeeded", "failed", "scanned"})
  /\ busy \in BOOLEAN /\ scanning \in BOOLEAN /\ conflict \in PortCommands \cup {None}
  /\ warned \in BOOLEAN /\ keyless \in BOOLEAN
  /\ issued \in 0..MaxCommands /\ faults \in 0..MaxFaults

\* While no operation has failed or been cut off, an idle tool leaves what it
\* manages together in agreement: the backend connects to the port PostgreSQL is
\* configured for, the redirect leads to the HTTPS port, which is not the HTTP
\* one, .env is whole and holds the key of the stored passwords (unless data of
\* another installation was restored without its .env), and no service runs on
\* a configuration older than its file.  It says nothing of the two values that no
\* command writes: a change of the backend's port leaves nginx.proxy behind, one
\* of the HTTPS port env.origin.
ManagedFilesAgree ==
  work = Idle /\ ~warned =>
    /\ env.db = pgConf /\ env.whole
    /\ nginx.redirect = nginx.https /\ nginx.http # nginx.https
    /\ keyless \/ env.key = dbKey
    /\ \A s \in Services : status[s] = "Running" => fresh[s]

\* When the worker reports that a command succeeded, the files that command
\* writes hold its values and the service it restarts is up and has been started
\* since; after a restore the data and the key are there and a backend that runs
\* was started on them.  Whether the services come up again is not promised: a
\* start that finds one still stopping is taken for done.
UpWithNewest(s) == status[s] = "Running" /\ fresh[s]

Accomplished(c) ==
  CASE c.op = "ApplyBackendPort"   -> env.app = c.port /\ UpWithNewest(Backend)
    [] c.op = "ApplyFrontendPorts" -> /\ nginx.https = c.port /\ nginx.redirect = c.port
                                      /\ nginx.http = c.http
                                      /\ UpWithNewest(Frontend)
    [] c.op = "ApplyPostgresPort"  -> /\ env.db = c.port /\ pgConf = c.port
                                      /\ fresh[Postgres] /\ UpWithNewest(Backend)
    [] c.op = "RestartService"     -> UpWithNewest(c.svc)
    [] c.op = "RestoreBackup"      -> /\ dbKey = c.key
                                      /\ c.withEnv => env.key = c.key /\ env.whole
                                      /\ status[Backend] = "Running" => fresh[Backend]
    [] OTHER -> TRUE

Succeeds(c) == work.cmd = c /\ events' = Append(events, "succeeded")
SuccessMeansApplied == [][\A c \in Commands : Succeeds(c) => Accomplished(c)']_vars

\* The buttons do not stay disabled: whatever fails, times out or is cut off,
\* the window learns the end of every operation it learnt the start of.
BusyEnds == busy ~> ~busy
=============================================================================
