--------------------------- MODULE AdminTool_proofs ---------------------------
(***************************************************************************)
(* Proofs about AdminTool, for any ports, keys and bounds: its types, that *)
(* an idle tool which has reported no failure leaves the values it manages *)
(* in agreement, and that a command reported as succeeded has applied the  *)
(* values it writes.  What the tool leaves stale or stopped after a        *)
(* reported success is shown by the violation runs of AdminTool.           *)
(*                                                                         *)
(* The invariant reads the programs: from the number of calls a command    *)
(* has left it says what the command has done (Done) and which             *)
(* disagreements it has yet to remove (Agreement).                         *)
(***************************************************************************)
EXTENDS AdminTool, SequenceTheorems, TLAPS

\* A command for the frontend names two different ports, wherever it waits.
IsSane(c) == c.op = "ApplyFrontendPorts" => c.port # c.http

SaneInv ==
    /\ \A j \in DOMAIN queue : IsSane(queue[j])
    /\ IsSane(work.cmd) /\ IsSane(conflict)

\* The calls left are the end of the command's program; only, a paused service
\* may have to be launched once more in place of its start.
Left == Len(work.todo)
Starts == {"start", "startOne"}
IsEndOf(todo, program) ==
    LET done == Len(program) - Len(todo)
        next == program[done + 1] IN
    /\ 0 < Len(todo) /\ Len(todo) <= Len(program)
    /\ \/ todo[1] = next
       \/ next.call \in Starts /\ todo[1] = Call("relaunch", next.on, next.fail)
    /\ \A j \in 2..Len(todo) : todo[j] = program[done + j]

InProgram ==
    IF work.cmd = None THEN work = Idle ELSE IsEndOf(work.todo, Program(work.cmd))

\* PostgreSQL listens on the port it is configured for, unless it runs on an
\* older configuration; the redirect always leads to the HTTPS port.
ListenInv ==
    /\ status[Postgres] = "Running" /\ fresh[Postgres] => listen = pgConf
    /\ nginx.redirect = nginx.https

Down(s) == status[s] \in {"Stopped", "StopPending"}
Stale(s) == ~fresh[s] /\ status[s] \in {"Running", "StartPending"}

\* The restart of s at the end of a program: nobody else starts s, so it is
\* stopped when it is started.
Restarted(s, left) ==
    /\ left = 3 => Down(s)
    /\ left = 2 => status[s] = "Stopped"
    /\ left <= 1 => fresh[s]
    /\ left = 0 => status[s] = "Running"

\* What command c has done when so many of its calls are left, whether or not
\* commands before it failed.
Done(c, left) ==
    CASE c.op = "RestartService"     -> Restarted(c.svc, left)
      [] c.op = "ApplyBackendPort"   -> /\ left <= 4 => env.app = c.port
                                        /\ Restarted(Backend, left)
      [] c.op = "ApplyFrontendPorts" -> /\ left <= 5 => nginx.https = c.port
                                        /\ left <= 4 => nginx.http = c.http
                                        /\ Restarted(Frontend, left)
      [] c.op = "ApplyPostgresPort"  -> /\ left <= 10 => pgConf = c.port
                                        /\ left <= 9 => env.db = c.port
                                        /\ left = 8 => Down(Postgres)
                                        /\ left = 7 => status[Postgres] = "Stopped"
                                        /\ left <= 6 => fresh[Postgres]
                                        /\ Restarted(Backend, left)
      [] c.op = "RestoreBackup"      -> /\ 2 <= left /\ left <= (IF c.withEnv THEN 7 ELSE 5) =>
                                             Down(Backend)
                                        /\ left <= 1 => ~Stale(Backend)
                                        /\ c.withEnv /\ left <= 3 => env.key = c.key /\ env.whole
                                        /\ left <= 2 => dbKey = c.key
      [] OTHER -> TRUE

\* The services that wait for their restart when command c has so many calls
\* left, and the files it has left in disagreement between two of its writes.
WaitsForRestart(s, c, left) ==
    \/ s = Backend /\ c.op = "ApplyBackendPort" /\ left = 4
    \/ s = Backend /\ c.op = "ApplyPostgresPort" /\ 4 <= left /\ left <= 9
    \/ s = Frontend /\ c.op = "ApplyFrontendPorts" /\ left \in {4, 5}
    \/ s = Postgres /\ c.op = "ApplyPostgresPort" /\ left \in {9, 10}
Restoring(c, left, n) == c.op = "RestoreBackup" /\ c.withEnv /\ left = n

Agreement(c, left) ==
    /\ env.db = pgConf \/ (c.op = "ApplyPostgresPort" /\ left = 10) \/ Restoring(c, left, 3)
    /\ env.whole \/ Restoring(c, left, 4)
    /\ nginx.http # nginx.https \/ (c.op = "ApplyFrontendPorts" /\ left = 5)
    /\ keyless \/ env.key = dbKey \/ Restoring(c, left, 3)
    /\ \A s \in Services : Stale(s) => WaitsForRestart(s, c, left)

\* While nothing has failed, that is all the disagreement there is.
InOrder(c, left) == Done(c, left) /\ (warned \/ Agreement(c, left))

Inv == InProgram /\ SaneInv /\ ListenInv /\ InOrder(work.cmd, Left)

\* The types, and that the calls left are calls.
CallNames == {"stop", "stopOne", "start", "startOne", "relaunch", "check", "dump", "scan",
              "awaitStopped", "awaitRunning", "awaitPort", "extractDump", "truncateEnv",
              "copyEnv", "pgRestore", "setAppPort", "setDbPort", "setPgPort", "setHttps",
              "setHttp"}
Calls == [call : CallNames, on : Services \cup Ports \cup {None},
          fail : {"must", "may", "later"}]
Types ==
    /\ status \in [Services -> Statuses] /\ fresh \in [Services -> BOOLEAN]
    /\ listen \in Ports /\ pgConf \in Ports
    /\ env \in [app : Ports, db : Ports, origin : Ports, key : Keys, whole : BOOLEAN]
    /\ nginx \in [https : Ports, redirect : Ports, http : Ports, proxy : Ports]
    /\ dbKey \in Keys \cup {"mixed"}
    /\ queue \in Seq(Commands)
    /\ work \in [cmd : Commands \cup {None}, todo : Seq(Calls), late : BOOLEAN]
    /\ events \in Seq({"started", "succeeded", "failed", "scanned"})
    /\ busy \in BOOLEAN /\ scanning \in BOOLEAN /\ conflict \in PortCommands \cup {None}
    /\ warned \in BOOLEAN /\ keyless \in BOOLEAN
    /\ issued \in 0..MaxCommands /\ faults \in 0..MaxFaults

-----------------------------------------------------------------------------
(* The programs, call by call.                                              *)

LEMMA RestartProgram ==
  ASSUME NEW s
  PROVE  /\ Len(restart_service(s)) = 4
         /\ restart_service(s)[1] = Call("stop", s, "must")
         /\ restart_service(s)[2] = Call("awaitStopped", s, "must")
         /\ restart_service(s)[3] = Call("start", s, "must")
         /\ restart_service(s)[4] = Call("awaitRunning", s, "must")
  BY DEF restart_service

LEMMA BackendPortProgram ==
  ASSUME NEW c \in Commands, c.op = "ApplyBackendPort"
  PROVE  /\ Len(Program(c)) = 5
         /\ Program(c)[1] = Call("setAppPort", c.port, "must")
         /\ Program(c)[2] = Call("stop", Backend, "must")
         /\ Program(c)[3] = Call("awaitStopped", Backend, "must")
         /\ Program(c)[4] = Call("start", Backend, "must")
         /\ Program(c)[5] = Call("awaitRunning", Backend, "must")
<1>1. Program(c) = << Call("setAppPort", c.port, "must") >> \o restart_service(Backend)
  BY DEF Program
<1> QED BY <1>1 DEF restart_service

LEMMA FrontendPortsProgram ==
  ASSUME NEW c \in Commands, c.op = "ApplyFrontendPorts"
  PROVE  /\ Len(Program(c)) = 6
         /\ Program(c)[1] = Call("setHttps", c.port, "must")
         /\ Program(c)[2] = Call("setHttp", c.http, "must")
         /\ Program(c)[3] = Call("stop", Frontend, "must")
         /\ Program(c)[4] = Call("awaitStopped", Frontend, "must")
         /\ Program(c)[5] = Call("start", Frontend, "must")
         /\ Program(c)[6] = Call("awaitRunning", Frontend, "must")
<1>1. Program(c) = << Call("setHttps", c.port, "must"), Call("setHttp", c.http, "must") >>
                     \o restart_service(Frontend)
  BY DEF Program
<1> QED BY <1>1 DEF restart_service

LEMMA PostgresPortProgram ==
  ASSUME NEW c \in Commands, c.op = "ApplyPostgresPort"
  PROVE  /\ Len(Program(c)) = 11
         /\ Program(c)[1] = Call("setPgPort", c.port, "must")
         /\ Program(c)[2] = Call("setDbPort", c.port, "must")
         /\ Program(c)[3] = Call("stop", Postgres, "must")
         /\ Program(c)[4] = Call("awaitStopped", Postgres, "must")
         /\ Program(c)[5] = Call("start", Postgres, "must")
         /\ Program(c)[6] = Call("awaitRunning", Postgres, "must")
         /\ Program(c)[7] = Call("awaitPort", c.port, "must")
         /\ Program(c)[8] = Call("stop", Backend, "must")
         /\ Program(c)[9] = Call("awaitStopped", Backend, "must")
         /\ Program(c)[10] = Call("start", Backend, "must")
         /\ Program(c)[11] = Call("awaitRunning", Backend, "must")
<1> DEFINE p == c.port
<1>1. Program(c) = apply_postgres_port(p)
  BY DEF Program
<1> QED BY <1>1 DEF apply_postgres_port, restart_service

LEMMA StartAllProgram ==
  ASSUME NEW c \in Commands, c.op = "StartAll"
  PROVE  /\ Len(Program(c)) = 7
         /\ Program(c)[1] = Call("start", Postgres, "later")
         /\ Program(c)[2] = Call("start", Redis, "later")
         /\ Program(c)[3] = Call("check", None, "must")
         /\ Program(c)[4] = Call("awaitRunning", Postgres, "may")
         /\ Program(c)[5] = Call("awaitRunning", Redis, "may")
         /\ Program(c)[6] = Call("start", Backend, "must")
         /\ Program(c)[7] = Call("start", Frontend, "must")
<1>1. Program(c) = run_start_all
  BY DEF Program
<1> QED BY <1>1 DEF run_start_all

LEMMA RestoreProgram ==
  ASSUME NEW c \in Commands, c.op = "RestoreBackup"
  PROVE  /\ c.withEnv =>
              /\ Len(Program(c)) = 9
              /\ Program(c)[5] = Call("truncateEnv", None, "must")
              /\ Program(c)[6] = Call("copyEnv", None, "must")
              /\ Program(c)[7] = Call("pgRestore", None, "must")
              /\ Program(c)[8] = Call("start", Backend, "must")
              /\ Program(c)[9] = Call("start", Frontend, "must")
         /\ ~c.withEnv =>
              /\ Len(Program(c)) = 7
              /\ Program(c)[5] = Call("pgRestore", None, "must")
              /\ Program(c)[6] = Call("start", Backend, "must")
              /\ Program(c)[7] = Call("start", Frontend, "must")
         /\ Program(c)[1] = Call("stop", Frontend, "must")
         /\ Program(c)[2] = Call("stop", Backend, "must")
         /\ Program(c)[3] = Call("dump", None, "may")
         /\ Program(c)[4] = Call("extractDump", None, "must")
<1>1. Program(c) = run_restore_sequence(c.withEnv)
  BY DEF Program
<1>2. CASE c.withEnv
  BY <1>1, <1>2 DEF run_restore_sequence, restore_backup
<1>3. CASE ~c.withEnv
  BY <1>1, <1>3 DEF run_restore_sequence, restore_backup
<1> QED BY <1>2, <1>3

\* The programs of the other commands.
LEMMA ShortPrograms ==
  ASSUME NEW c \in Commands
  PROVE  /\ c.op = "StartService" => Program(c) = << Call("startOne", c.svc, "must") >>
         /\ c.op = "StopService" => Program(c) = << Call("stopOne", c.svc, "must") >>
         /\ c.op = "RestartService" => Program(c) = restart_service(c.svc)
         /\ c.op = "StopAll" =>
              Program(c) = << Call("stop", Frontend, "later"), Call("stop", Backend, "later") >>
         /\ c.op = "ScanPorts" => Program(c) = << Call("scan", None, "must") >>
         /\ c.op = "CreateBackup" => Program(c) = << Call("dump", None, "must") >>
  BY DEF Program, run_stop_all

\* A program is a sequence of calls, and it does something.
Targets == Services \cup Ports \cup {None}

LEMMA CallsAreCalls ==
  ASSUME NEW name \in CallNames, NEW on \in Targets, NEW fail \in {"must", "may", "later"}
  PROVE  Call(name, on, fail) \in Calls
  BY DEF Call, Calls, Targets

LEMMA ProgramsAreCalls ==
  ASSUME NEW c \in Commands
  PROVE  Program(c) \in Seq(Calls) /\ Len(Program(c)) > 0
<1>1. /\ \A name \in CallNames, on \in Targets :
           /\ Call(name, on, "must") \in Calls
           /\ Call(name, on, "may") \in Calls
           /\ Call(name, on, "later") \in Calls
      /\ {None, Backend, Frontend, Postgres, Redis} \subseteq Targets
      /\ Services \subseteq Targets /\ Ports \subseteq Targets
  BY CallsAreCalls DEF Targets, Services
<1>2. ASSUME NEW s \in Services PROVE restart_service(s) \in Seq(Calls)
  BY <1>1, <1>2 DEF restart_service, CallNames
<1>3. CASE c.op \in {"StartService", "StopService", "RestartService"}
  <2>1. c.svc \in Services
    BY <1>3 DEF Commands, PortCommands, ServiceCommands, OtherCommands
  <2>2. /\ << Call("startOne", c.svc, "must") >> \in Seq(Calls)
        /\ << Call("stopOne", c.svc, "must") >> \in Seq(Calls)
        /\ restart_service(c.svc) \in Seq(Calls)
        /\ \A x : Len(<< x >>) = 1
    BY <1>1, <1>2, <2>1 DEF CallNames
  <2>3. CASE c.op = "RestartService"
    BY <2>2, <2>3, ShortPrograms, RestartProgram
  <2>4. CASE c.op = "StartService"
    <3>1. Program(c) = << Call("startOne", c.svc, "must") >>
      BY <2>4, ShortPrograms
    <3> QED BY <2>2, <3>1
  <2>5. CASE c.op = "StopService"
    <3>1. Program(c) = << Call("stopOne", c.svc, "must") >>
      BY <2>5, ShortPrograms
    <3> QED BY <2>2, <3>1
  <2> QED BY <1>3, <2>3, <2>4, <2>5
<1>4. CASE c.op = "StartAll"
  <2>1. run_start_all \in Seq(Calls) /\ Len(run_start_all) > 0
    BY <1>1 DEF run_start_all, CallNames
  <2> QED BY <1>4, <2>1 DEF Program
<1>5. CASE c.op \in {"StopAll", "ScanPorts", "CreateBackup"}
  <2>1. /\ << Call("stop", Frontend, "later"), Call("stop", Backend, "later") >> \in Seq(Calls)
        /\ << Call("scan", None, "must") >> \in Seq(Calls)
        /\ << Call("dump", None, "must") >> \in Seq(Calls)
        /\ \A x, y : Len(<< x >>) = 1 /\ Len(<< x, y >>) = 2
    BY <1>1 DEF CallNames
  <2>2. CASE c.op = "StopAll"
    <3>1. Program(c) = << Call("stop", Frontend, "later"), Call("stop", Backend, "later") >>
      BY <2>2, ShortPrograms
    <3> QED BY <2>1, <3>1
  <2>3. CASE c.op = "ScanPorts"
    <3>1. Program(c) = << Call("scan", None, "must") >>
      BY <2>3, ShortPrograms
    <3> QED BY <2>1, <3>1
  <2>4. CASE c.op = "CreateBackup"
    <3>1. Program(c) = << Call("dump", None, "must") >>
      BY <2>4, ShortPrograms
    <3> QED BY <2>1, <3>1
  <2> QED BY <1>5, <2>2, <2>3, <2>4
<1>6. CASE c.op = "RestoreBackup"
  <2>1. restore_backup(c.withEnv) \in Seq(Calls)
    <3> DEFINE copied == << Call("truncateEnv", None, "must"), Call("copyEnv", None, "must") >>
    <3>1. copied \in Seq(Calls) /\ << >> \in Seq(Calls)
      BY <1>1 DEF CallNames
    <3>2. /\ << Call("extractDump", None, "must") >> \in Seq(Calls)
          /\ << Call("pgRestore", None, "must") >> \in Seq(Calls)
      BY <1>1 DEF CallNames
    <3> QED BY <3>1, <3>2 DEF restore_backup
  <2>2. run_restore_sequence(c.withEnv) \in Seq(Calls)
    <3>1. /\ << Call("stop", Frontend, "must"), Call("stop", Backend, "must"),
                Call("dump", None, "may") >> \in Seq(Calls)
          /\ << Call("start", Backend, "must"), Call("start", Frontend, "must") >> \in Seq(Calls)
      BY <1>1 DEF CallNames
    <3> QED BY <2>1, <3>1 DEF run_restore_sequence
  <2>3. Program(c) = run_restore_sequence(c.withEnv)
    BY <1>6 DEF Program
  <2> QED BY <1>6, <2>2, <2>3, RestoreProgram
<1>7. CASE c.op \in {"ApplyBackendPort", "ApplyPostgresPort", "ApplyFrontendPorts"}
  <2>1. c.port \in Ports /\ (c.op = "ApplyFrontendPorts" => c.http \in Ports)
    BY <1>7 DEF Commands, PortCommands, ServiceCommands, OtherCommands
  <2>2. /\ restart_service(Backend) \in Seq(Calls)
        /\ restart_service(Frontend) \in Seq(Calls)
        /\ restart_service(Postgres) \in Seq(Calls)
    BY <1>2 DEF Services
  <2>3. CASE c.op = "ApplyBackendPort"
    <3>1. << Call("setAppPort", c.port, "must") >> \in Seq(Calls)
      BY <1>1, <2>1 DEF CallNames
    <3>2. Program(c) = << Call("setAppPort", c.port, "must") >> \o restart_service(Backend)
      BY <2>3 DEF Program
    <3> QED BY <2>2, <2>3, <3>1, <3>2, BackendPortProgram
  <2>4. CASE c.op = "ApplyFrontendPorts"
    <3>1. << Call("setHttps", c.port, "must"), Call("setHttp", c.http, "must") >> \in Seq(Calls)
      BY <1>1, <2>1, <2>4 DEF CallNames
    <3>2. Program(c) = << Call("setHttps", c.port, "must"), Call("setHttp", c.http, "must") >>
                         \o restart_service(Frontend)
      BY <2>4 DEF Program
    <3> QED BY <2>2, <2>4, <3>1, <3>2, FrontendPortsProgram
  <2>5. CASE c.op = "ApplyPostgresPort"
    <3>1. /\ << Call("setPgPort", c.port, "must"), Call("setDbPort", c.port, "must") >>
               \in Seq(Calls)
          /\ << Call("awaitPort", c.port, "must") >> \in Seq(Calls)
      BY <1>1, <2>1 DEF CallNames
    <3>2. apply_postgres_port(c.port) \in Seq(Calls)
      BY <2>2, <3>1 DEF apply_postgres_port
    <3>3. Program(c) = apply_postgres_port(c.port)
      BY <2>5 DEF Program
    <3> QED BY <2>5, <3>2, <3>3, PostgresPortProgram
  <2> QED BY <1>7, <2>3, <2>4, <2>5
<1> QED BY <1>3, <1>4, <1>5, <1>6, <1>7
        DEF Commands, PortCommands, ServiceCommands, OtherCommands

-----------------------------------------------------------------------------
(* How a call may end.                                                      *)

LEMMA TailFacts ==
  ASSUME NEW S, NEW t \in Seq(S), t # << >>
  PROVE  /\ Len(t) \in Nat \ {0} /\ Head(t) = t[1] /\ t[1] \in S
         /\ Tail(t) \in Seq(S) /\ Len(Tail(t)) = Len(t) - 1
         /\ \A j \in 1..(Len(t) - 1) : Tail(t)[j] = t[j + 1]
         /\ << >> \o Tail(t) = Tail(t)
         /\ Tail(t) = << >> <=> Len(t) = 1
<1>1. /\ Len(t) \in Nat \ {0} /\ Head(t) = t[1] /\ t[1] \in S
      /\ Tail(t) \in Seq(S) /\ Len(Tail(t)) = Len(t) - 1
      /\ \A j \in 1..(Len(t) - 1) : Tail(t)[j] = t[j + 1]
  BY HeadTailProperties
<1>2. << >> \o Tail(t) = Tail(t)
  BY <1>1, ConcatEmptySeq
<1>3. Tail(t) = << >> <=> Len(Tail(t)) = 0
  BY <1>1, EmptySeq
<1>4. ASSUME NEW n \in Nat \ {0}, NEW m, m = n - 1 PROVE m = 0 <=> n = 1
  BY <1>4
<1> QED BY <1>1, <1>2, <1>3, <1>4

\* The operation goes on with the next call, ends well, or ends reporting a
\* failure.
Advances == /\ Left > 1
            /\ work' = [work EXCEPT !.todo = Tail(work.todo), !.late = work'.late]
            /\ work'.late \in BOOLEAN
            /\ UNCHANGED <<events, warned>>
Ends == /\ Left = 1 /\ work' = Idle /\ warned' = warned
        /\ events' \in {Append(events, "succeeded"), Append(events, "scanned")}
Gives == /\ work' = Idle /\ warned' = TRUE
         /\ events' = Append(events, "failed")
Outcome == Advances \/ Ends \/ Gives

LEMMA ProceedOutcome ==
  ASSUME Types, work.todo # <<>>, NEW late \in BOOLEAN, ProceedWith(<<>>, late)
  PROVE  Outcome
<1>1. /\ work.todo \in Seq(Calls) /\ Left \in Nat \ {0}
      /\ <<>> \o Tail(work.todo) = Tail(work.todo)
      /\ Tail(work.todo) = <<>> <=> Left = 1
  BY TailFacts DEF Types, Left
<1>2. CASE Left > 1
  <2>1. work' = [work EXCEPT !.todo = Tail(work.todo), !.late = late] /\ UNCHANGED <<events, warned>>
    BY <1>1, <1>2 DEF ProceedWith
  <2>2. work'.late = late
    BY <2>1 DEF Types
  <2> QED BY <1>2, <2>1, <2>2 DEF Outcome, Advances
<1>3. CASE Left = 1
  BY <1>1, <1>3 DEF ProceedWith, Outcome, Ends, Gives, Report, Types
<1> QED BY <1>1, <1>2, <1>3

LEMMA FailOutcome ==
  ASSUME Types, work.todo # <<>>, Fail
  PROVE  Outcome /\ (work.todo[1].fail = "must" => Gives)
<1>1. /\ Head(work.todo) = work.todo[1] /\ work.todo[1] \in Calls
  BY DEF Types
<1>2. CASE work.todo[1].fail = "must"
  BY <1>1, <1>2 DEF Fail, Report, Outcome, Gives, Types
<1>3. CASE work.todo[1].fail \in {"may", "later"}
  BY <1>1, <1>3, ProceedOutcome DEF Fail, Proceed, Types
<1> QED BY <1>1, <1>2, <1>3 DEF Calls

-----------------------------------------------------------------------------
(* The call in hand, by the number of calls left.                           *)

IsHead(x, next) == \/ x = next
                   \/ next.call \in Starts /\ x = Call("relaunch", next.on, next.fail)

Is(x, name, on) == x.call = name /\ x.on = on /\ x.fail = "must"
IsStart(x, on) == x.call \in {"start", "relaunch"} /\ x.on = on /\ x.fail = "must"

LEMMA HeadCall ==
  ASSUME NEW name, NEW on, NEW fail, NEW x, IsHead(x, Call(name, on, fail))
  PROVE  /\ x.on = on /\ x.fail = fail
         /\ x.call = name \/ (name \in Starts /\ x.call = "relaunch")
  BY DEF IsHead, Call

LEMMA HeadIs ==
  ASSUME NEW name, NEW on, NEW x, IsHead(x, Call(name, on, "must"))
  PROVE  IF name \in Starts THEN name = "start" => IsStart(x, on) ELSE Is(x, name, on)
  BY HeadCall DEF Is, IsStart, Starts

\* The call in hand, x, when a command has k calls left.
RestartCall(s, k, x) == \/ k = 4 /\ Is(x, "stop", s)
                        \/ k = 3 /\ Is(x, "awaitStopped", s)
                        \/ k = 2 /\ IsStart(x, s)
                        \/ k = 1 /\ Is(x, "awaitRunning", s)
BackendPortCall(c, k, x) == \/ k = 5 /\ Is(x, "setAppPort", c.port)
                            \/ RestartCall(Backend, k, x)
FrontendPortsCall(c, k, x) == \/ k = 6 /\ Is(x, "setHttps", c.port)
                              \/ k = 5 /\ Is(x, "setHttp", c.http)
                              \/ RestartCall(Frontend, k, x)
PostgresPortCall(c, k, x) == \/ k = 11 /\ Is(x, "setPgPort", c.port)
                             \/ k = 10 /\ Is(x, "setDbPort", c.port)
                             \/ k = 9 /\ Is(x, "stop", Postgres)
                             \/ k = 8 /\ Is(x, "awaitStopped", Postgres)
                             \/ k = 7 /\ IsStart(x, Postgres)
                             \/ k = 6 /\ Is(x, "awaitRunning", Postgres)
                             \/ k = 5 /\ Is(x, "awaitPort", c.port)
                             \/ RestartCall(Backend, k, x)
RestoreCall(c, k, x) == \/ k = (IF c.withEnv THEN 9 ELSE 7) /\ Is(x, "stop", Frontend)
                        \/ k = (IF c.withEnv THEN 8 ELSE 6) /\ Is(x, "stop", Backend)
                        \/ k = (IF c.withEnv THEN 7 ELSE 5) /\ x.call = "dump"
                        \/ k = (IF c.withEnv THEN 6 ELSE 4) /\ Is(x, "extractDump", None)
                        \/ c.withEnv /\ k = 5 /\ Is(x, "truncateEnv", None)
                        \/ c.withEnv /\ k = 4 /\ Is(x, "copyEnv", None)
                        \/ k = 3 /\ Is(x, "pgRestore", None)
                        \/ k = 2 /\ IsStart(x, Backend)
                        \/ k = 1 /\ IsStart(x, Frontend)

LEMMA EndHead ==
  ASSUME NEW t \in Seq(Calls), NEW program, NEW n \in Nat, Len(program) = n,
         IsEndOf(t, program)
  PROVE  \E left \in 1..n : Len(t) = left /\ IsHead(t[1], program[n - left + 1])
<1>1. PICK left \in Nat : left = Len(t)
  OBVIOUS
<1>2. 0 < left /\ left <= n
  BY <1>1 DEF IsEndOf
<1> QED BY <1>1, <1>2 DEF IsEndOf, IsHead

LEMMA RestartHeads ==
  ASSUME NEW c \in Commands, c.op = "RestartService", NEW t \in Seq(Calls), IsEndOf(t, Program(c))
  PROVE  RestartCall(c.svc, Len(t), t[1])
<1>1. PICK left \in 1..4 : Len(t) = left /\ IsHead(t[1], Program(c)[4 - left + 1])
  <2>1. Program(c) = restart_service(c.svc)
    BY ShortPrograms
  <2> QED BY <2>1, RestartProgram, EndHead
<1>2. \/ left = 4 /\ IsHead(t[1], Call("stop", c.svc, "must"))
      \/ left = 3 /\ IsHead(t[1], Call("awaitStopped", c.svc, "must"))
      \/ left = 2 /\ IsHead(t[1], Call("start", c.svc, "must"))
      \/ left = 1 /\ IsHead(t[1], Call("awaitRunning", c.svc, "must"))
  BY <1>1, ShortPrograms, RestartProgram
<1> QED BY <1>1, <1>2, HeadIs DEF Starts, RestartCall

LEMMA BackendPortHeads ==
  ASSUME NEW c \in Commands, c.op = "ApplyBackendPort", NEW t \in Seq(Calls), IsEndOf(t, Program(c))
  PROVE  BackendPortCall(c, Len(t), t[1])
<1>1. PICK left \in 1..5 : Len(t) = left /\ IsHead(t[1], Program(c)[5 - left + 1])
  BY BackendPortProgram, EndHead
<1>2. \/ left = 5 /\ IsHead(t[1], Call("setAppPort", c.port, "must"))
      \/ left = 4 /\ IsHead(t[1], Call("stop", Backend, "must"))
      \/ left = 3 /\ IsHead(t[1], Call("awaitStopped", Backend, "must"))
      \/ left = 2 /\ IsHead(t[1], Call("start", Backend, "must"))
      \/ left = 1 /\ IsHead(t[1], Call("awaitRunning", Backend, "must"))
  BY <1>1, BackendPortProgram
<1> QED BY <1>1, <1>2, HeadIs DEF Starts, BackendPortCall, RestartCall

LEMMA FrontendPortsHeads ==
  ASSUME NEW c \in Commands, c.op = "ApplyFrontendPorts", NEW t \in Seq(Calls), IsEndOf(t, Program(c))
  PROVE  FrontendPortsCall(c, Len(t), t[1])
<1>1. PICK left \in 1..6 : Len(t) = left /\ IsHead(t[1], Program(c)[6 - left + 1])
  BY FrontendPortsProgram, EndHead
<1>2. \/ left = 6 /\ IsHead(t[1], Call("setHttps", c.port, "must"))
      \/ left = 5 /\ IsHead(t[1], Call("setHttp", c.http, "must"))
      \/ left = 4 /\ IsHead(t[1], Call("stop", Frontend, "must"))
      \/ left = 3 /\ IsHead(t[1], Call("awaitStopped", Frontend, "must"))
      \/ left = 2 /\ IsHead(t[1], Call("start", Frontend, "must"))
      \/ left = 1 /\ IsHead(t[1], Call("awaitRunning", Frontend, "must"))
  BY <1>1, FrontendPortsProgram
<1> QED BY <1>1, <1>2, HeadIs DEF Starts, FrontendPortsCall, RestartCall

LEMMA PostgresPortHeads ==
  ASSUME NEW c \in Commands, c.op = "ApplyPostgresPort", NEW t \in Seq(Calls), IsEndOf(t, Program(c))
  PROVE  PostgresPortCall(c, Len(t), t[1])
<1>1. PICK left \in 1..11 : Len(t) = left /\ IsHead(t[1], Program(c)[11 - left + 1])
  BY PostgresPortProgram, EndHead
<1>2. \/ left = 11 /\ IsHead(t[1], Call("setPgPort", c.port, "must"))
      \/ left = 10 /\ IsHead(t[1], Call("setDbPort", c.port, "must"))
      \/ left = 9 /\ IsHead(t[1], Call("stop", Postgres, "must"))
      \/ left = 8 /\ IsHead(t[1], Call("awaitStopped", Postgres, "must"))
      \/ left = 7 /\ IsHead(t[1], Call("start", Postgres, "must"))
      \/ left = 6 /\ IsHead(t[1], Call("awaitRunning", Postgres, "must"))
      \/ left = 5 /\ IsHead(t[1], Call("awaitPort", c.port, "must"))
      \/ left = 4 /\ IsHead(t[1], Call("stop", Backend, "must"))
      \/ left = 3 /\ IsHead(t[1], Call("awaitStopped", Backend, "must"))
      \/ left = 2 /\ IsHead(t[1], Call("start", Backend, "must"))
      \/ left = 1 /\ IsHead(t[1], Call("awaitRunning", Backend, "must"))
  BY <1>1, PostgresPortProgram
<1> QED BY <1>1, <1>2, HeadIs DEF Starts, PostgresPortCall, RestartCall

LEMMA RestoreAllHeads ==
  ASSUME NEW c \in Commands, c.op = "RestoreBackup", c.withEnv, NEW t \in Seq(Calls),
         IsEndOf(t, Program(c))
  PROVE  RestoreCall(c, Len(t), t[1])
<1> DEFINE P == Program(c)
<1>1. Len(P) = 9 /\ P[1] = Call("stop", Frontend, "must") /\ P[2] = Call("stop", Backend, "must")
      /\ P[3] = Call("dump", None, "may") /\ P[4] = Call("extractDump", None, "must")
      /\ P[5] = Call("truncateEnv", None, "must") /\ P[6] = Call("copyEnv", None, "must")
      /\ P[7] = Call("pgRestore", None, "must") /\ P[8] = Call("start", Backend, "must")
      /\ P[9] = Call("start", Frontend, "must")
  BY RestoreProgram
<1> HIDE DEF P
<1>2. PICK left \in 1..9 : Len(t) = left /\ IsHead(t[1], P[9 - left + 1])
  BY <1>1, EndHead DEF P
<1>3. \/ left = 9 /\ IsHead(t[1], Call("stop", Frontend, "must"))
      \/ left = 8 /\ IsHead(t[1], Call("stop", Backend, "must"))
      \/ left = 7 /\ IsHead(t[1], Call("dump", None, "may"))
      \/ left = 6 /\ IsHead(t[1], Call("extractDump", None, "must"))
      \/ left = 5 /\ IsHead(t[1], Call("truncateEnv", None, "must"))
      \/ left = 4 /\ IsHead(t[1], Call("copyEnv", None, "must"))
      \/ left = 3 /\ IsHead(t[1], Call("pgRestore", None, "must"))
      \/ left = 2 /\ IsHead(t[1], Call("start", Backend, "must"))
      \/ left = 1 /\ IsHead(t[1], Call("start", Frontend, "must"))
  BY <1>1, <1>2
<1>4. left = 7 => t[1].call = "dump"
  BY <1>3, HeadCall DEF Starts
<1> QED BY <1>2, <1>3, <1>4, HeadIs DEF Starts, RestoreCall

LEMMA RestoreDataHeads ==
  ASSUME NEW c \in Commands, c.op = "RestoreBackup", ~c.withEnv, NEW t \in Seq(Calls),
         IsEndOf(t, Program(c))
  PROVE  RestoreCall(c, Len(t), t[1])
<1> DEFINE P == Program(c)
<1>1. Len(P) = 7 /\ P[1] = Call("stop", Frontend, "must") /\ P[2] = Call("stop", Backend, "must")
      /\ P[3] = Call("dump", None, "may") /\ P[4] = Call("extractDump", None, "must")
      /\ P[5] = Call("pgRestore", None, "must") /\ P[6] = Call("start", Backend, "must")
      /\ P[7] = Call("start", Frontend, "must")
  BY RestoreProgram
<1> HIDE DEF P
<1>2. PICK left \in 1..7 : Len(t) = left /\ IsHead(t[1], P[7 - left + 1])
  BY <1>1, EndHead DEF P
<1>3. \/ left = 7 /\ IsHead(t[1], Call("stop", Frontend, "must"))
      \/ left = 6 /\ IsHead(t[1], Call("stop", Backend, "must"))
      \/ left = 5 /\ IsHead(t[1], Call("dump", None, "may"))
      \/ left = 4 /\ IsHead(t[1], Call("extractDump", None, "must"))
      \/ left = 3 /\ IsHead(t[1], Call("pgRestore", None, "must"))
      \/ left = 2 /\ IsHead(t[1], Call("start", Backend, "must"))
      \/ left = 1 /\ IsHead(t[1], Call("start", Frontend, "must"))
  BY <1>1, <1>2
<1> QED BY <1>2, <1>3, HeadIs, HeadCall DEF Starts, RestoreCall

\* A command not among the four that write, RestartService and RestoreBackup
\* has none of their calls in its program.
LEMMA OtherHeads ==
  ASSUME NEW c \in Commands, NEW t \in Seq(Calls), IsEndOf(t, Program(c)),
         c.op \notin {"RestartService", "ApplyBackendPort", "ApplyFrontendPorts",
                      "ApplyPostgresPort", "RestoreBackup"}
  PROVE  t[1].call \in {"stop", "stopOne", "start", "startOne", "relaunch", "check",
                        "awaitRunning", "dump", "scan"}
<1> DEFINE P == Program(c)
<1>1. CASE c.op = "StartAll"
  <2>1. Len(P) = 7
    BY <1>1, StartAllProgram
  <2>2. \A j \in 1..7 : \E name \in {"start", "check", "awaitRunning"} : \E on, fail :
            P[j] = Call(name, on, fail)
    BY <1>1, StartAllProgram
  <2> HIDE DEF P
  <2>3. PICK left \in 1..7 : IsHead(t[1], P[7 - left + 1])
    BY <2>1, EndHead DEF P
  <2>4. PICK name \in {"start", "check", "awaitRunning"} : \E on, fail :
            IsHead(t[1], Call(name, on, fail))
    BY <2>2, <2>3
  <2> QED BY <2>4, HeadCall
<1>2. CASE c.op \in {"StartService", "StopService", "ScanPorts", "CreateBackup"}
  <2>1. \E name \in {"startOne", "stopOne", "scan", "dump"} : \E on, fail :
            P = << Call(name, on, fail) >>
    BY <1>2, ShortPrograms
  <2> HIDE DEF P
  <2>2. PICK name \in {"startOne", "stopOne", "scan", "dump"} : \E on, fail :
            P = << Call(name, on, fail) >>
    BY <2>1
  <2>3. PICK on, fail : P = << Call(name, on, fail) >>
    BY <2>2
  <2>4. Len(P) = 1 /\ P[1] = Call(name, on, fail)
    BY <2>3
  <2>5. PICK left \in 1..1 : IsHead(t[1], P[1 - left + 1])
    BY <2>4, EndHead DEF P
  <2>6. IsHead(t[1], P[1])
    BY <2>5
  <2> QED BY <2>4, <2>6, HeadCall
<1>3. CASE c.op = "StopAll"
  <2>1. P = << Call("stop", Frontend, "later"), Call("stop", Backend, "later") >>
    BY <1>3, ShortPrograms
  <2>2. Len(P) = 2 /\ P[1] = Call("stop", Frontend, "later") /\ P[2] = Call("stop", Backend, "later")
    BY <2>1
  <2> HIDE DEF P
  <2>3. PICK left \in 1..2 : IsHead(t[1], P[2 - left + 1])
    BY <2>2, EndHead DEF P
  <2>4. IsHead(t[1], Call("stop", Frontend, "later")) \/ IsHead(t[1], Call("stop", Backend, "later"))
    BY <2>2, <2>3
  <2> QED BY <2>4, HeadCall
<1> QED BY <1>1, <1>2, <1>3 DEF Commands, PortCommands, ServiceCommands, OtherCommands

-----------------------------------------------------------------------------
(* The same for the worker: the command c in hand, its k calls left and the *)
(* first of them.                                                           *)

LEMMA InHandTable ==
  ASSUME Types, InProgram, work.todo # << >>,
         NEW c, c = work.cmd, NEW k, k = Left, NEW x, x = work.todo[1]
  PROVE  /\ c \in Commands /\ x \in Calls /\ k \in Nat \ {0}
         /\ c.op = "RestartService" => RestartCall(c.svc, k, x)
         /\ c.op = "ApplyBackendPort" => BackendPortCall(c, k, x)
         /\ c.op = "ApplyFrontendPorts" => FrontendPortsCall(c, k, x)
         /\ c.op = "ApplyPostgresPort" => PostgresPortCall(c, k, x)
         /\ c.op = "RestoreBackup" => RestoreCall(c, k, x)
         /\ \/ c.op \in {"RestartService", "ApplyBackendPort", "ApplyFrontendPorts",
                         "ApplyPostgresPort", "RestoreBackup"}
            \/ x.call \in {"stop", "stopOne", "start", "startOne", "relaunch", "check",
                           "awaitRunning", "dump", "scan"}
<1> DEFINE t == work.todo
<1>1. c # None /\ c \in Commands /\ t \in Seq(Calls) /\ IsEndOf(t, Program(c))
  BY DEF InProgram, Types, Idle
<1>2. k = Len(t) /\ x = t[1] /\ x \in Calls /\ k \in Nat \ {0}
  BY <1>1, TailFacts DEF Left
<1> HIDE DEF t
<1>3. CASE c.op = "RestartService"
  BY <1>1, <1>2, <1>3, RestartHeads
<1>4. CASE c.op = "ApplyBackendPort"
  BY <1>1, <1>2, <1>4, BackendPortHeads
<1>5. CASE c.op = "ApplyFrontendPorts"
  BY <1>1, <1>2, <1>5, FrontendPortsHeads
<1>6. CASE c.op = "ApplyPostgresPort"
  BY <1>1, <1>2, <1>6, PostgresPortHeads
<1>7. CASE c.op = "RestoreBackup" /\ c.withEnv
  BY <1>1, <1>2, <1>7, RestoreAllHeads
<1>8. CASE c.op = "RestoreBackup" /\ ~c.withEnv
  BY <1>1, <1>2, <1>8, RestoreDataHeads
<1>9. CASE c.op \notin {"RestartService", "ApplyBackendPort", "ApplyFrontendPorts",
                      "ApplyPostgresPort", "RestoreBackup"}
  BY <1>1, <1>2, <1>9, OtherHeads
<1> QED BY <1>1, <1>2, <1>3, <1>4, <1>5, <1>6, <1>7, <1>8, <1>9

-----------------------------------------------------------------------------
(* What each call of a program does with the invariant.                     *)

\* A paused service is to be launched once more.
Retries ==
    /\ work.todo[1].call \in Starts
    /\ work' = [work EXCEPT !.todo = << Call("relaunch", On, work.todo[1].fail) >>
                                       \o Tail(work.todo)]
    /\ UNCHANGED <<events, warned>>

\* The operation failed, or what it has done so far is what it should have done.
Keeps(c, k) == \/ Gives
               \/ (Advances \/ Ends) /\ InOrder(c, k - 1)'
               \/ Retries /\ InOrder(c, k)'

LEMMA InHandFacts ==
  ASSUME Types, InProgram, NEW name, InHand(name)
  PROVE  /\ work.todo # << >> /\ work.todo[1].call = name
         /\ Head(work.todo) = work.todo[1] /\ On = work.todo[1].on
         /\ work.late \in BOOLEAN
  BY TailFacts DEF InHand, On, Types

\* A call that just proceeds needs only that what it did is in order.
LEMMA ProceedKeeps ==
  ASSUME Types, work.todo # << >>, Proceed, NEW c, NEW k,
         warned' = warned => InOrder(c, k - 1)'
  PROVE  Keeps(c, k)
<1>1. Outcome
  BY ProceedOutcome DEF Proceed, Types
<1> QED BY <1>1 DEF Outcome, Advances, Ends, Keeps

LEMMA KeepsBackendPort ==
  ASSUME Types, Inv, NEW c, c = work.cmd, NEW k, k = Left,
         set_backend_port, Proceed, UNCHANGED <<status, listen, dbKey, keyless>>
  PROVE  Keeps(c, k)
<1> DEFINE x == work.todo[1]
<1>1. work.todo # << >> /\ x.call = "setAppPort" /\ On = x.on
  BY InHandFacts DEF set_backend_port, Inv
<1>2. c.op = "ApplyBackendPort" /\ k = 5 /\ x.on = c.port /\ c \in Commands
  BY <1>1, InHandTable DEF Inv, RestartCall, BackendPortCall, FrontendPortsCall,
                           PostgresPortCall, RestoreCall, Is, IsStart
<1>3. /\ env' = [env EXCEPT !.app = c.port] /\ fresh' = [fresh EXCEPT ![Backend] = FALSE]
      /\ UNCHANGED <<nginx, pgConf>>
  BY <1>1, <1>2 DEF set_backend_port, Written
<1>4. Done(c, k - 1)'
  BY <1>2, <1>3 DEF Done, Restarted, Types
<1>5. ASSUME warned' = warned PROVE (warned \/ Agreement(c, k - 1))'
  BY <1>2, <1>3, <1>5 DEF Inv, InOrder, Agreement, Restoring, WaitsForRestart, Stale, Types, Services, Backend, Frontend, Postgres, Redis
<1> QED BY <1>1, <1>4, <1>5, ProceedKeeps DEF InOrder

LEMMA KeepsDbPort ==
  ASSUME Types, Inv, NEW c, c = work.cmd, NEW k, k = Left,
         set_db_port, Proceed, UNCHANGED <<status, listen, dbKey, keyless>>
  PROVE  Keeps(c, k)
<1> DEFINE x == work.todo[1]
<1>1. work.todo # << >> /\ x.call = "setDbPort" /\ On = x.on
  BY InHandFacts DEF set_db_port, Inv
<1>2. c.op = "ApplyPostgresPort" /\ k = 10 /\ x.on = c.port /\ c \in Commands
  BY <1>1, InHandTable DEF Inv, RestartCall, BackendPortCall, FrontendPortsCall,
                           PostgresPortCall, RestoreCall, Is, IsStart
<1>3. /\ env' = [env EXCEPT !.db = c.port] /\ fresh' = [fresh EXCEPT ![Backend] = FALSE]
      /\ UNCHANGED <<nginx, pgConf>>
  BY <1>1, <1>2 DEF set_db_port, Written
<1>4. Done(c, k) /\ pgConf = c.port
  BY <1>2 DEF Inv, InOrder, Done
<1>5. Done(c, k - 1)'
  BY <1>2, <1>3, <1>4 DEF Done, Restarted, Types
<1>6. ASSUME warned' = warned PROVE (warned \/ Agreement(c, k - 1))'
  BY <1>2, <1>3, <1>4, <1>6 DEF Inv, InOrder, Agreement, Restoring, WaitsForRestart, Stale, Types,
                                Services, Backend, Frontend, Postgres, Redis
<1> QED BY <1>1, <1>5, <1>6, ProceedKeeps DEF InOrder

LEMMA KeepsPgPort ==
  ASSUME Types, Inv, NEW c, c = work.cmd, NEW k, k = Left,
         set_port, Proceed, UNCHANGED <<status, listen, dbKey, keyless>>
  PROVE  Keeps(c, k)
<1> DEFINE x == work.todo[1]
<1>1. work.todo # << >> /\ x.call = "setPgPort" /\ On = x.on
  BY InHandFacts DEF set_port, Inv
<1>2. c.op = "ApplyPostgresPort" /\ k = 11 /\ x.on = c.port /\ c \in Commands
  BY <1>1, InHandTable DEF Inv, RestartCall, BackendPortCall, FrontendPortsCall,
                           PostgresPortCall, RestoreCall, Is, IsStart
<1>3. /\ pgConf' = c.port /\ fresh' = [fresh EXCEPT ![Postgres] = FALSE]
      /\ UNCHANGED <<env, nginx>>
  BY <1>1, <1>2 DEF set_port, Written
<1>4. Done(c, k - 1)'
  BY <1>2, <1>3 DEF Done, Restarted, Types
<1>5. ASSUME warned' = warned PROVE (warned \/ Agreement(c, k - 1))'
  BY <1>2, <1>3, <1>5 DEF Inv, InOrder, Agreement, Restoring, WaitsForRestart, Stale, Types,
                          Services, Backend, Frontend, Postgres, Redis
<1> QED BY <1>1, <1>4, <1>5, ProceedKeeps DEF InOrder

LEMMA KeepsHttpsPort ==
  ASSUME Types, Inv, NEW c, c = work.cmd, NEW k, k = Left,
         set_https_port, Proceed, UNCHANGED <<status, listen, dbKey, keyless>>
  PROVE  Keeps(c, k)
<1> DEFINE x == work.todo[1]
<1>1. work.todo # << >> /\ x.call = "setHttps" /\ On = x.on
  BY InHandFacts DEF set_https_port, Inv
<1>2. c.op = "ApplyFrontendPorts" /\ k = 6 /\ x.on = c.port /\ c \in Commands
  BY <1>1, InHandTable DEF Inv, RestartCall, BackendPortCall, FrontendPortsCall,
                           PostgresPortCall, RestoreCall, Is, IsStart
<1>3. /\ nginx' = [nginx EXCEPT !.https = c.port, !.redirect = c.port]
      /\ fresh' = [fresh EXCEPT ![Frontend] = FALSE]
      /\ UNCHANGED <<env, pgConf>>
  BY <1>1, <1>2 DEF set_https_port, Written
<1>4. Done(c, k - 1)'
  BY <1>2, <1>3 DEF Done, Restarted, Types
<1>5. ASSUME warned' = warned PROVE (warned \/ Agreement(c, k - 1))'
  BY <1>2, <1>3, <1>5 DEF Inv, InOrder, Agreement, Restoring, WaitsForRestart, Stale, Types,
                          Services, Backend, Frontend, Postgres, Redis
<1> QED BY <1>1, <1>4, <1>5, ProceedKeeps DEF InOrder

LEMMA KeepsHttpPort ==
  ASSUME Types, Inv, NEW c, c = work.cmd, NEW k, k = Left,
         set_http_port, Proceed, UNCHANGED <<status, listen, dbKey, keyless>>
  PROVE  Keeps(c, k)
<1> DEFINE x == work.todo[1]
<1>1. work.todo # << >> /\ x.call = "setHttp" /\ On = x.on
  BY InHandFacts DEF set_http_port, Inv
<1>2. c.op = "ApplyFrontendPorts" /\ k = 5 /\ x.on = c.http /\ c \in Commands
  BY <1>1, InHandTable DEF Inv, RestartCall, BackendPortCall, FrontendPortsCall,
                           PostgresPortCall, RestoreCall, Is, IsStart
<1>3. /\ nginx' = [nginx EXCEPT !.http = c.http]
      /\ fresh' = [fresh EXCEPT ![Frontend] = FALSE]
      /\ UNCHANGED <<env, pgConf>>
  BY <1>1, <1>2 DEF set_http_port, Written
<1>4. nginx.https = c.port /\ c.port # c.http
  BY <1>2 DEF Inv, InOrder, Done, SaneInv, IsSane
<1>5. Done(c, k - 1)'
  BY <1>2, <1>3, <1>4 DEF Done, Restarted, Types
<1>6. ASSUME warned' = warned PROVE (warned \/ Agreement(c, k - 1))'
  BY <1>2, <1>3, <1>4, <1>6 DEF Inv, InOrder, Agreement, Restoring, WaitsForRestart, Stale, Types,
                                Services, Backend, Frontend, Postgres, Redis
<1> QED BY <1>1, <1>5, <1>6, ProceedKeeps DEF InOrder

\* The backend is down while its .env is restored.
LEMMA KeepsEnv ==
  ASSUME Types, Inv, NEW c, c = work.cmd, NEW k, k = Left,
         restore_env, Proceed, UNCHANGED <<status, listen, dbKey, keyless>>
  PROVE  Keeps(c, k)
<1> DEFINE x == work.todo[1]
<1>1. work.todo # << >> /\ x.call \in {"truncateEnv", "copyEnv"}
  BY InHandFacts DEF restore_env, Inv
<1>2. /\ c.op = "RestoreBackup" /\ c.withEnv /\ c \in Commands
      /\ x.call = "truncateEnv" => k = 5
      /\ x.call = "copyEnv" => k = 4
  BY <1>1, InHandTable DEF Inv, RestartCall, BackendPortCall, FrontendPortsCall,
                           PostgresPortCall, RestoreCall, Is, IsStart
<1>3. /\ fresh' = [fresh EXCEPT ![Backend] = FALSE]
      /\ UNCHANGED <<nginx, pgConf>>
  BY DEF restore_env, Written
<1>4. Down(Backend)
  BY <1>1, <1>2 DEF Inv, InOrder, Done
<1>5. CASE x.call = "truncateEnv"
  <2>1. env' = [env EXCEPT !.whole = FALSE]
    BY <1>5, InHandFacts DEF restore_env, Inv
  <2>2. Done(c, k - 1)'
    BY <1>2, <1>3, <1>4, <1>5, <2>1 DEF Done, Down, Types
  <2>3. ASSUME warned' = warned PROVE (warned \/ Agreement(c, k - 1))'
    BY <1>2, <1>3, <1>4, <1>5, <2>1, <2>3
       DEF Inv, InOrder, Agreement, Restoring, WaitsForRestart, Stale, Down, Types,
           Services, Backend, Frontend, Postgres, Redis
  <2> QED BY <1>1, <2>2, <2>3, ProceedKeeps DEF InOrder
<1>6. CASE x.call = "copyEnv"
  <2>1. PICK a, o \in Ports : env' = [app |-> a, db |-> c.port, origin |-> o, key |-> c.key,
                                     whole |-> TRUE]
    BY <1>6, InHandFacts DEF restore_env, Inv
  <2>2. Done(c, k - 1)'
    BY <1>2, <1>3, <1>4, <1>6, <2>1 DEF Done, Down, Types
  <2>3. ASSUME warned' = warned PROVE (warned \/ Agreement(c, k - 1))'
    BY <1>2, <1>3, <1>4, <1>6, <2>1, <2>3
       DEF Inv, InOrder, Agreement, Restoring, WaitsForRestart, Stale, Down, Types,
           Services, Backend, Frontend, Postgres, Redis
  <2> QED BY <1>1, <2>2, <2>3, ProceedKeeps DEF InOrder
<1> QED BY <1>1, <1>5, <1>6

\* A restore that succeeds found .env in agreement with the running PostgreSQL,
\* and leaves a key that fits the data or the remark that it does not.
LEMMA KeepsRestore ==
  ASSUME Types, Inv, NEW c, c = work.cmd, NEW k, k = Left, pg_restore
  PROVE  Keeps(c, k)
<1> DEFINE x == work.todo[1]
<1>1. work.todo # << >> /\ x.call = "pgRestore"
  BY InHandFacts DEF pg_restore, Inv
<1>2. c.op = "RestoreBackup" /\ k = 3 /\ c \in Commands /\ x.fail = "must"
  BY <1>1, InHandTable DEF Inv, RestartCall, BackendPortCall, FrontendPortsCall,
                           PostgresPortCall, RestoreCall, Is, IsStart
<1>3. CASE Fail
  BY <1>1, <1>2, <1>3, FailOutcome DEF Keeps
<1>4. CASE /\ Connects /\ Proceed
           /\ dbKey' = c.key
           /\ keyless' = (keyless \/ env.key # c.key)
  <2>1. UNCHANGED <<services, env, nginx, pgConf>>
    BY DEF pg_restore
  <2>2. Done(c, k - 1)'
    BY <1>2, <1>4, <2>1 DEF Inv, InOrder, Done, Down, Types, services
  <2>3. ASSUME warned' = warned PROVE (warned \/ Agreement(c, k - 1))'
    <3>1. CASE warned
      BY <2>3, <3>1
    <3>2. CASE Agreement(c, k)
      <4>1. fresh[Postgres]
        BY <1>2, <1>4, <3>2 DEF Agreement, Stale, WaitsForRestart, Connects, Services, Postgres,
                                Backend, Frontend, Types
      <4>2. env.db = pgConf
        BY <1>4, <4>1 DEF Inv, ListenInv, Connects
      <4>3. env' = env /\ nginx' = nginx /\ pgConf' = pgConf /\ status' = status /\ fresh' = fresh
        BY <2>1 DEF services
      <4>4. keyless' \/ env'.key = dbKey'
        BY <1>4, <4>3
      <4>5. \A s \in Services : ~Stale(s)
        BY <1>2, <3>2 DEF Agreement, WaitsForRestart
      <4>6. nginx.http # nginx.https /\ env.whole
        BY <1>2, <1>4, <3>2 DEF Agreement, Connects
      <4> QED BY <4>2, <4>3, <4>4, <4>5, <4>6 DEF Agreement, Stale
    <3> QED BY <3>1, <3>2 DEF Inv, InOrder
  <2> QED BY <1>1, <1>4, <2>2, <2>3, ProceedKeeps DEF InOrder
<1> QED BY <1>3, <1>4 DEF pg_restore

\* Calls that change no service and no file.
LEMMA KeepsQuiet ==
  ASSUME Types, Inv, NEW c, c = work.cmd, NEW k, k = Left,
         ReadOnlyCall \/ wait_for_tcp_port \/ check_results
  PROVE  Keeps(c, k)
<1> DEFINE x == work.todo[1]
<1>1. /\ work.todo # << >>
      /\ x.call \in {"dump", "scan", "extractDump", "awaitPort", "check"}
  BY InHandFacts DEF ReadOnlyCall, wait_for_tcp_port, check_results, Inv
<1>2. UNCHANGED <<status, fresh, listen, env, nginx, pgConf, dbKey, keyless>>
  BY DEF ReadOnlyCall, wait_for_tcp_port, check_results, services, files
<1>3. Outcome
  BY <1>1, FailOutcome, ProceedOutcome
     DEF ReadOnlyCall, wait_for_tcp_port, check_results, Report, Proceed, Types, Outcome, Gives
<1>4. Done(c, k) /\ (warned \/ Agreement(c, k))
  BY DEF Inv, InOrder
<1>5. c \in Commands /\ k \in Nat \ {0}
  BY <1>1, InHandTable DEF Inv
<1>6. Done(c, k) => Done(c, k - 1)'
  <2>1. CASE c.op = "RestoreBackup"
    <3>1. k \in (IF c.withEnv THEN {6, 7} ELSE {4, 5})
      BY <1>1, <2>1, InHandTable DEF Inv, RestoreCall, Is, IsStart
    <3> QED BY <1>2, <2>1, <3>1 DEF Done, Down
  <2>2. CASE c.op = "ApplyPostgresPort"
    <3>1. k = 5
      BY <1>1, <2>2, InHandTable DEF Inv, PostgresPortCall, RestartCall, Is, IsStart
    <3> QED BY <1>2, <2>2, <3>1 DEF Done, Restarted
  <2>3. CASE c.op \notin {"RestoreBackup", "ApplyPostgresPort"}
    <3>1. c.op \notin {"RestartService", "ApplyBackendPort", "ApplyFrontendPorts"}
      BY <1>1, <2>3, InHandTable DEF Inv, BackendPortCall, FrontendPortsCall, RestartCall,
                                     Is, IsStart
    <3> QED BY <2>3, <3>1 DEF Done
  <2> QED BY <2>1, <2>2, <2>3
<1>7. ASSUME Agreement(c, k) PROVE Agreement(c, k - 1)'
  <2>1. c.op = "ApplyPostgresPort" => k = 5
    BY <1>1, InHandTable DEF Inv, PostgresPortCall, RestartCall, Is, IsStart
  <2>2. c.op \notin {"ApplyBackendPort", "ApplyFrontendPorts"}
    BY <1>1, InHandTable DEF Inv, BackendPortCall, FrontendPortsCall, RestartCall, Is, IsStart
  <2>3. c.op = "RestoreBackup" => k > 3 /\ (c.withEnv => k > 4)
    BY <1>1, InHandTable DEF Inv, RestoreCall, Is, IsStart
  <2> QED BY <1>2, <1>7, <2>1, <2>2, <2>3 DEF Agreement, Restoring, WaitsForRestart, Stale
<1> QED BY <1>3, <1>4, <1>6, <1>7 DEF Outcome, Keeps, Advances, Ends, InOrder

\* A stop that counts as done leaves its service down, and makes nothing stale.
LEMMA KeepsStop ==
  ASSUME Types, Inv, NEW c, c = work.cmd, NEW k, k = Left, stop_service
  PROVE  Keeps(c, k)
<1>x. PICK x : x = work.todo[1]
  OBVIOUS
<1>s. PICK s : s = x.on
  OBVIOUS
<1>1. /\ work.todo # << >> /\ x.call \in {"stop", "stopOne"} /\ On = s
      /\ InHand("stop") <=> x.call = "stop"
  BY <1>x, <1>s, InHandFacts DEF stop_service, Inv, InHand
<1>2. UNCHANGED <<fresh, listen, env, nginx, pgConf, dbKey, keyless>>
  BY DEF stop_service, files
<1>3. /\ Outcome
      /\ \/ status' = status
         \/ status' = [status EXCEPT ![s] = "StopPending"]
      /\ \/ Gives
         \/ x.fail # "must"
         \/ s \in Services => Down(s)'
  <2>1. Proceed => Outcome
    BY <1>x, <1>s, <1>1, ProceedOutcome DEF Proceed, Types
  <2>2. Fail => Outcome /\ (x.fail = "must" => Gives)
    BY <1>x, <1>s, <1>1, FailOutcome
  <2>3. CASE status[s] = "Stopped" /\ AlreadyThere("stop") /\ UNCHANGED status
    <3>1. Proceed \/ Fail
      BY <2>3 DEF AlreadyThere
    <3> QED BY <2>1, <2>2, <2>3, <3>1 DEF Down
  <2>4. CASE /\ status[s] \in {"Running", "Paused"}
             /\ status' = [status EXCEPT ![s] = "StopPending"]
             /\ Proceed
    <3>1. s \in Services => Down(s)'
      BY <2>4 DEF Types, Down
    <3> QED BY <2>1, <2>4, <3>1
  <2>5. CASE Fail /\ UNCHANGED status
    BY <2>2, <2>5
  <2> QED BY <1>x, <1>s, <1>1, <2>3, <2>4, <2>5 DEF stop_service
<1>4. Done(c, k) /\ (warned \/ Agreement(c, k))
  BY DEF Inv, InOrder
<1>5. c \in Commands /\ k \in Nat \ {0}
  BY <1>x, <1>s, <1>1, InHandTable DEF Inv
<1>6. /\ {Backend, Frontend, Postgres} \subseteq Services
      /\ c.op = "RestartService" => c.svc \in Services
  BY <1>5 DEF Services, Commands, PortCommands, ServiceCommands, OtherCommands
<1>7. CASE Gives
  BY <1>7 DEF Keeps
<1> SUFFICES ASSUME ~Gives PROVE Done(c, k - 1)' /\ (Agreement(c, k) => Agreement(c, k - 1)')
  BY <1>3, <1>4, <1>7 DEF Outcome, Keeps, Advances, Ends, InOrder
<1>8. x.fail = "must" /\ s \in Services => Down(s)'
  BY <1>3
<1>9. \A t \in Services : Stale(t)' => Stale(t)
  BY <1>2, <1>3 DEF Types, Stale
<1>10. \A t \in Services : Down(t) => Down(t)'
  BY <1>2, <1>3 DEF Types, Down
<1>11. \A t \in Services : Down(t) => ~Stale(t)
  BY DEF Down, Stale
<1>12. \A t \in Services : Down(t)' => ~Stale(t)'
  BY DEF Down, Stale
<1>13. CASE c.op = "RestartService"
  <2>1. k = 4 /\ s = c.svc /\ x.fail = "must"
    BY <1>x, <1>s, <1>1, <1>13, InHandTable DEF Inv, RestartCall, Is, IsStart
  <2>2. Done(c, k - 1)'
    BY <1>6, <1>8, <1>13, <2>1 DEF Done, Restarted
  <2>3. Agreement(c, k) => Agreement(c, k - 1)'
    BY <1>2, <1>9, <1>13 DEF Agreement, Restoring, WaitsForRestart
  <2> QED BY <2>2, <2>3
<1>14. CASE c.op = "ApplyBackendPort"
  <2>1. k = 4 /\ s = Backend /\ x.fail = "must"
    BY <1>x, <1>s, <1>1, <1>14, InHandTable DEF Inv, BackendPortCall, RestartCall, Is, IsStart
  <2>2. Down(Backend)'
    BY <1>6, <1>8, <2>1
  <2>3. Done(c, k - 1)'
    BY <1>2, <1>4, <1>14, <2>1, <2>2 DEF Done, Restarted
  <2>4. Agreement(c, k) => Agreement(c, k - 1)'
    BY <1>2, <1>6, <1>9, <1>12, <1>14, <2>1, <2>2 DEF Agreement, Restoring, WaitsForRestart
  <2> QED BY <2>3, <2>4
<1>15. CASE c.op = "ApplyFrontendPorts"
  <2>1. k = 4 /\ s = Frontend /\ x.fail = "must"
    BY <1>x, <1>s, <1>1, <1>15, InHandTable DEF Inv, FrontendPortsCall, RestartCall, Is, IsStart
  <2>2. Down(Frontend)'
    BY <1>6, <1>8, <2>1
  <2>3. Done(c, k - 1)'
    BY <1>2, <1>4, <1>15, <2>1, <2>2 DEF Done, Restarted
  <2>4. Agreement(c, k) => Agreement(c, k - 1)'
    BY <1>2, <1>6, <1>9, <1>12, <1>15, <2>1, <2>2 DEF Agreement, Restoring, WaitsForRestart
  <2> QED BY <2>3, <2>4
<1>16. CASE c.op = "ApplyPostgresPort"
  <2>1. /\ x.fail = "must"
        /\ \/ k = 9 /\ s = Postgres
           \/ k = 4 /\ s = Backend
    BY <1>x, <1>s, <1>1, <1>16, InHandTable DEF Inv, PostgresPortCall, RestartCall, Is, IsStart
  <2>2. CASE k = 9 /\ s = Postgres
    <3>1. Down(Postgres)'
      BY <1>6, <1>8, <2>1, <2>2
    <3>2. Done(c, k - 1)'
      BY <1>2, <1>4, <1>16, <2>2, <3>1 DEF Done, Restarted
    <3>3. Agreement(c, k) => Agreement(c, k - 1)'
      BY <1>2, <1>6, <1>9, <1>12, <1>16, <2>2, <3>1 DEF Agreement, Restoring, WaitsForRestart
    <3> QED BY <3>2, <3>3
  <2>3. CASE k = 4 /\ s = Backend
    <3>1. Down(Backend)'
      BY <1>6, <1>8, <2>1, <2>3
    <3>2. Done(c, k - 1)'
      BY <1>2, <1>4, <1>16, <2>3, <3>1 DEF Done, Restarted
    <3>3. Agreement(c, k) => Agreement(c, k - 1)'
      BY <1>2, <1>6, <1>9, <1>12, <1>16, <2>3, <3>1 DEF Agreement, Restoring, WaitsForRestart
    <3> QED BY <3>2, <3>3
  <2> QED BY <2>1, <2>2, <2>3
<1>17. CASE c.op = "RestoreBackup"
  <2>1. /\ x.fail = "must"
        /\ \/ s = Frontend /\ k = (IF c.withEnv THEN 9 ELSE 7)
           \/ s = Backend /\ k = (IF c.withEnv THEN 8 ELSE 6)
    BY <1>x, <1>s, <1>1, <1>17, InHandTable DEF Inv, RestoreCall, Is, IsStart
  <2>2. s = Backend => Down(Backend)'
    BY <1>6, <1>8, <2>1
  <2>3. Done(c, k - 1)'
    BY <1>17, <2>1, <2>2 DEF Done, Frontend, Backend
  <2>4. Agreement(c, k) => Agreement(c, k - 1)'
    BY <1>2, <1>9, <1>17, <2>1 DEF Agreement, Restoring, WaitsForRestart
  <2> QED BY <2>3, <2>4
<1>18. CASE c.op \notin {"RestartService", "ApplyBackendPort", "ApplyFrontendPorts",
                       "ApplyPostgresPort", "RestoreBackup"}
  BY <1>2, <1>9, <1>18 DEF Done, Agreement, Restoring, WaitsForRestart
<1> QED BY <1>13, <1>14, <1>15, <1>16, <1>17, <1>18

\* A start launches a stopped service with the newest configuration, finds it
\* up already, or stops a paused one first.
LEMMA KeepsStart ==
  ASSUME Types, Inv, NEW c, c = work.cmd, NEW k, k = Left, start_service \/ relaunch
  PROVE  Keeps(c, k)
<1>x. PICK x : x = work.todo[1]
  OBVIOUS
<1>s. PICK s : s = x.on
  OBVIOUS
<1>1. /\ work.todo # << >> /\ x.call \in {"start", "startOne", "relaunch"} /\ On = s
      /\ Head(work.todo) = x
      /\ start_service => x.call \in Starts
  BY <1>x, <1>s, InHandFacts DEF start_service, relaunch, Inv, InHand, Starts
<1>2. UNCHANGED <<listen, env, nginx, pgConf, dbKey, keyless>>
  BY DEF start_service, relaunch, files
<1> DEFINE Started(t) == t = s \/ (DependsOn(s, t) /\ status[t] = "Stopped")
           Launched == /\ Outcome
                       /\ status[s] = "Stopped"
                       /\ status' = [t \in Services |-> IF Started(t) THEN "StartPending"
                                                                      ELSE status[t]]
                       /\ fresh' = [t \in Services |-> Started(t) \/ fresh[t]]
           LeftAlone == /\ Outcome
                        /\ status[s] # "Stopped" \/ Gives \/ x.fail # "must"
                        /\ UNCHANGED <<status, fresh>>
           Resumed == /\ Retries
                      /\ status[s] = "Paused"
                      /\ status' = [status EXCEPT ![s] = "StopPending"]
                      /\ UNCHANGED fresh
<1>3. Launched \/ LeftAlone \/ Resumed
  <2>1. Proceed => Outcome
    BY <1>x, <1>s, <1>1, ProceedOutcome DEF Proceed, Types
  <2>2. Fail => Outcome /\ (x.fail = "must" => Gives)
    BY <1>x, <1>s, <1>1, FailOutcome
  <2>3. status[s] = "Stopped" /\ Launch(s) => Launched
    BY <2>1 DEF Launch
  <2>4. CASE relaunch
    BY <1>1, <2>2, <2>3, <2>4 DEF relaunch
  <2>5. CASE start_service
    <3>1. CASE status[s] \in {"Running", "StartPending", "StopPending"}
               /\ AlreadyThere("start") /\ UNCHANGED <<status, fresh>>
      BY <2>1, <2>2, <3>1 DEF AlreadyThere
    <3>2. CASE Fail /\ UNCHANGED <<status, fresh>>
      BY <2>2, <3>2
    <3>3. CASE status[s] = "Stopped" /\ Launch(s)
      BY <2>3, <3>3
    <3>4. CASE /\ status[s] = "Paused"
               /\ status' = [status EXCEPT ![s] = "StopPending"]
               /\ ProceedWith(<< Call("relaunch", s, x.fail) >>, work.late)
               /\ UNCHANGED fresh
      <4> DEFINE y == Call("relaunch", s, x.fail)
                 rest == << y >> \o Tail(work.todo)
      <4> HIDE DEF y
      <4>1. rest # << >>
        <5>1. Tail(work.todo) \in Seq(Calls)
          BY <1>1, TailFacts DEF Types
        <5>2. << y >> \in Seq({y} \cup Calls) /\ Tail(work.todo) \in Seq({y} \cup Calls)
              /\ Len(<< y >>) = 1
          BY <5>1
        <5>3. Len(rest) = 1 + Len(Tail(work.todo))
          BY <5>1, <5>2, ConcatProperties
        <5>4. Len(Tail(work.todo)) \in Nat
          BY <5>1
        <5> QED BY <5>3, <5>4
      <4>2. /\ work' = [work EXCEPT !.todo = rest, !.late = work.late]
            /\ UNCHANGED <<events, warned>>
        BY <3>4, <4>1 DEF ProceedWith, y
      <4>3. work' = [work EXCEPT !.todo = rest]
        BY <4>2 DEF Types
      <4>4. Retries
        BY <1>x, <1>1, <2>5, <4>2, <4>3 DEF Retries, y
      <4> QED BY <3>4, <4>4
    <3> QED BY <1>1, <2>5, <3>1, <3>2, <3>3, <3>4 DEF start_service
  <2> QED BY <2>4, <2>5
<1>4. Done(c, k) /\ (warned \/ Agreement(c, k))
  BY DEF Inv, InOrder
<1>5. c \in Commands /\ k \in Nat \ {0}
  BY <1>x, <1>s, <1>1, InHandTable DEF Inv
<1>6. /\ {Backend, Frontend, Postgres} \subseteq Services
      /\ c.op = "RestartService" => c.svc \in Services
  BY <1>5 DEF Services, Commands, PortCommands, ServiceCommands, OtherCommands
<1>g. CASE Gives
  BY <1>g DEF Keeps
<1>n. SUFFICES ASSUME ~Gives PROVE Keeps(c, k)
  BY <1>g
<1>7. /\ \A t \in Services : Stale(t)' => Stale(t)
      /\ x.fail = "must" /\ s \in Services /\ status[s] = "Stopped" => fresh'[s]
      /\ \A t \in Services : fresh[t] => fresh'[t]
      /\ \A t \in Services : Down(t) => ~Stale(t)
  <2>1. CASE Launched
    BY <1>n, <2>1 DEF Types, Stale, Down
  <2>2. CASE LeftAlone \/ Resumed
    BY <1>n, <2>2 DEF Types, Stale, Down
  <2> QED BY <1>3, <2>1, <2>2
<1> SUFFICES /\ Resumed => Done(c, k)' /\ (Agreement(c, k) => Agreement(c, k)')
             /\ ~Resumed => Done(c, k - 1)' /\ (Agreement(c, k) => Agreement(c, k - 1)')
  <2>1. CASE Resumed
    BY <1>3, <1>4, <2>1 DEF Keeps, InOrder, Retries
  <2>2. CASE ~Resumed
    <3>1. Advances \/ Ends
      <4>1. Outcome
        BY <1>3, <2>2
      <4> QED BY <4>1, <1>n DEF Outcome
    <3>2. warned' = warned
      BY <3>1 DEF Advances, Ends
    <3>3. Done(c, k - 1)' /\ (Agreement(c, k) => Agreement(c, k - 1)')
      BY <2>2
    <3>4. InOrder(c, k - 1)'
      BY <1>4, <3>2, <3>3 DEF InOrder
    <3> QED BY <3>1, <3>4 DEF Keeps
  <2> QED BY <2>1, <2>2
<1> HIDE DEF Launched, LeftAlone, Resumed
<1>8. Agreement(c, k) => Agreement(c, k)'
  BY <1>2, <1>7 DEF Agreement, Restoring, WaitsForRestart
<1>9. ASSUME NEW t \in Services, s = t, status[t] = "Stopped", x.fail = "must"
      PROVE  ~Resumed /\ fresh'[t]
  BY <1>7, <1>9 DEF Resumed
<1>10. CASE c.op = "RestartService"
  <2>1. k = 2 /\ s = c.svc /\ x.fail = "must"
    BY <1>x, <1>s, <1>1, <1>10, InHandTable DEF Inv, RestartCall, Is, IsStart
  <2>2. ~Resumed /\ fresh'[s]
    BY <1>4, <1>6, <1>9, <1>10, <2>1 DEF Done, Restarted
  <2>3. Done(c, k - 1)'
    BY <1>10, <2>1, <2>2 DEF Done, Restarted
  <2>4. Agreement(c, k) => Agreement(c, k - 1)'
    BY <1>2, <1>7, <1>10 DEF Agreement, Restoring, WaitsForRestart
  <2> QED BY <2>2, <2>3, <2>4
<1>11. CASE c.op = "ApplyBackendPort"
  <2>1. k = 2 /\ s = Backend /\ x.fail = "must"
    BY <1>x, <1>s, <1>1, <1>11, InHandTable DEF Inv, BackendPortCall, RestartCall, Is, IsStart
  <2>2. ~Resumed /\ fresh'[s]
    BY <1>4, <1>6, <1>9, <1>11, <2>1 DEF Done, Restarted
  <2>3. Done(c, k - 1)'
    BY <1>2, <1>4, <1>11, <2>1, <2>2 DEF Done, Restarted
  <2>4. Agreement(c, k) => Agreement(c, k - 1)'
    BY <1>2, <1>7, <1>11, <2>1 DEF Agreement, Restoring, WaitsForRestart
  <2> QED BY <2>2, <2>3, <2>4
<1>12. CASE c.op = "ApplyFrontendPorts"
  <2>1. k = 2 /\ s = Frontend /\ x.fail = "must"
    BY <1>x, <1>s, <1>1, <1>12, InHandTable DEF Inv, FrontendPortsCall, RestartCall, Is, IsStart
  <2>2. ~Resumed /\ fresh'[s]
    BY <1>4, <1>6, <1>9, <1>12, <2>1 DEF Done, Restarted
  <2>3. Done(c, k - 1)'
    BY <1>2, <1>4, <1>12, <2>1, <2>2 DEF Done, Restarted
  <2>4. Agreement(c, k) => Agreement(c, k - 1)'
    BY <1>2, <1>7, <1>12, <2>1 DEF Agreement, Restoring, WaitsForRestart
  <2> QED BY <2>2, <2>3, <2>4
<1>13. CASE c.op = "ApplyPostgresPort"
  <2>1. /\ x.fail = "must"
        /\ \/ k = 7 /\ s = Postgres
           \/ k = 2 /\ s = Backend
    BY <1>x, <1>s, <1>1, <1>13, InHandTable DEF Inv, PostgresPortCall, RestartCall, Is, IsStart
  <2>2. ~Resumed /\ fresh'[s]
    BY <1>4, <1>6, <1>9, <1>13, <2>1 DEF Done, Restarted
  <2>3. k = 2 => fresh'[Postgres]
    BY <1>4, <1>6, <1>7, <1>13 DEF Done
  <2>4. Done(c, k - 1)'
    BY <1>2, <1>4, <1>13, <2>1, <2>2, <2>3 DEF Done, Restarted
  <2>5. Agreement(c, k) => Agreement(c, k - 1)'
    BY <1>2, <1>7, <1>13, <2>1 DEF Agreement, Restoring, WaitsForRestart
  <2> QED BY <2>2, <2>4, <2>5
<1>14. CASE c.op = "RestoreBackup"
  <2>1. \/ k = 2 /\ s = Backend
        \/ k = 1 /\ s = Frontend
    BY <1>x, <1>s, <1>1, <1>14, InHandTable DEF Inv, RestoreCall, Is, IsStart
  <2>2. /\ k = 2 => Down(Backend)
        /\ ~Stale(Backend)
    <3>1. k = 2 => Down(Backend)
      BY <1>4, <1>14 DEF Done
    <3>2. k = 1 => ~Stale(Backend)
      BY <1>4, <1>14 DEF Done
    <3> QED BY <1>6, <1>7, <2>1, <3>1, <3>2
  <2>3. ~Stale(Backend)'
    BY <1>6, <1>7, <2>2
  <2>4. Done(c, k - 1)'
    BY <1>2, <1>4, <1>14, <2>1, <2>3 DEF Done
  <2>5. Resumed => k = 1
    BY <2>1, <2>2 DEF Resumed, Down
  <2>6. Resumed => Done(c, k)'
    BY <1>2, <1>4, <1>14, <2>3, <2>5 DEF Done
  <2>7. Agreement(c, k) => Agreement(c, k - 1)'
    BY <1>2, <1>7, <1>14, <2>1 DEF Agreement, Restoring, WaitsForRestart
  <2> QED BY <1>8, <2>4, <2>6, <2>7
<1>15. CASE c.op \notin {"RestartService", "ApplyBackendPort", "ApplyFrontendPorts",
                       "ApplyPostgresPort", "RestoreBackup"}
  BY <1>2, <1>7, <1>8, <1>15 DEF Done, Agreement, Restoring, WaitsForRestart
<1> QED BY <1>10, <1>11, <1>12, <1>13, <1>14, <1>15

\* A wait that is over found the state it waited for; one that is given up is
\* the end of a restart.
LEMMA KeepsWait ==
  ASSUME Types, Inv, NEW c, c = work.cmd, NEW k, k = Left, wait_for_status
  PROVE  Keeps(c, k)
<1>x. PICK x : x = work.todo[1]
  OBVIOUS
<1>s. PICK s : s = x.on
  OBVIOUS
<1>1. /\ work.todo # << >> /\ x.call \in {"awaitStopped", "awaitRunning"} /\ On = s
      /\ \A name : InHand(name) <=> x.call = name
  BY <1>x, <1>s, InHandFacts DEF wait_for_status, Inv, InHand
<1>2. UNCHANGED <<status, fresh, listen, env, nginx, pgConf, dbKey, keyless>>
  BY DEF wait_for_status, services, files
<1>3. /\ Outcome
      /\ \/ Gives
         \/ x.fail # "must"
         \/ /\ x.call = "awaitStopped" => status[s] = "Stopped"
            /\ x.call = "awaitRunning" => status[s] = "Running"
  <2>1. Proceed => Outcome
    BY <1>1, ProceedOutcome DEF Proceed, Types
  <2>2. Fail => Outcome /\ (x.fail = "must" => Gives)
    BY <1>x, <1>1, FailOutcome
  <2> QED BY <1>1, <2>1, <2>2 DEF wait_for_status, Reached
<1>4. Done(c, k) /\ (warned \/ Agreement(c, k))
  BY DEF Inv, InOrder
<1>5. c \in Commands /\ k \in Nat \ {0}
  BY <1>x, <1>1, InHandTable DEF Inv
<1> SUFFICES ASSUME ~Gives PROVE Done(c, k - 1)' /\ (Agreement(c, k) => Agreement(c, k - 1)')
  BY <1>3, <1>4 DEF Outcome, Keeps, Advances, Ends, InOrder
<1>6. /\ x.fail = "must" /\ x.call = "awaitStopped" => status[s] = "Stopped"
      /\ x.fail = "must" /\ x.call = "awaitRunning" => status[s] = "Running"
  BY <1>3
<1>7. CASE c.op = "RestartService"
  <2>1. /\ s = c.svc /\ x.fail = "must"
        /\ \/ k = 3 /\ x.call = "awaitStopped"
           \/ k = 1 /\ x.call = "awaitRunning"
    BY <1>x, <1>s, <1>1, <1>7, InHandTable DEF Inv, RestartCall, Is, IsStart
  <2>2. Done(c, k - 1)'
    BY <1>2, <1>4, <1>6, <1>7, <2>1 DEF Done, Restarted
  <2>3. Agreement(c, k) => Agreement(c, k - 1)'
    BY <1>2, <1>7, <2>1 DEF Agreement, Restoring, WaitsForRestart, Stale
  <2> QED BY <2>2, <2>3
<1>8. CASE c.op = "ApplyBackendPort"
  <2>1. /\ s = Backend /\ x.fail = "must"
        /\ \/ k = 3 /\ x.call = "awaitStopped"
           \/ k = 1 /\ x.call = "awaitRunning"
    BY <1>x, <1>s, <1>1, <1>8, InHandTable DEF Inv, BackendPortCall, RestartCall, Is, IsStart
  <2>2. Done(c, k - 1)'
    BY <1>2, <1>4, <1>6, <1>8, <2>1 DEF Done, Restarted
  <2>3. Agreement(c, k) => Agreement(c, k - 1)'
    BY <1>2, <1>8, <2>1 DEF Agreement, Restoring, WaitsForRestart, Stale
  <2> QED BY <2>2, <2>3
<1>9. CASE c.op = "ApplyFrontendPorts"
  <2>1. /\ s = Frontend /\ x.fail = "must"
        /\ \/ k = 3 /\ x.call = "awaitStopped"
           \/ k = 1 /\ x.call = "awaitRunning"
    BY <1>x, <1>s, <1>1, <1>9, InHandTable DEF Inv, FrontendPortsCall, RestartCall, Is, IsStart
  <2>2. Done(c, k - 1)'
    BY <1>2, <1>4, <1>6, <1>9, <2>1 DEF Done, Restarted
  <2>3. Agreement(c, k) => Agreement(c, k - 1)'
    BY <1>2, <1>9, <2>1 DEF Agreement, Restoring, WaitsForRestart, Stale
  <2> QED BY <2>2, <2>3
<1>10. CASE c.op = "ApplyPostgresPort"
  <2>1. /\ x.fail = "must"
        /\ \/ k = 8 /\ x.call = "awaitStopped" /\ s = Postgres
           \/ k = 6 /\ x.call = "awaitRunning" /\ s = Postgres
           \/ k = 3 /\ x.call = "awaitStopped" /\ s = Backend
           \/ k = 1 /\ x.call = "awaitRunning" /\ s = Backend
    BY <1>x, <1>s, <1>1, <1>10, InHandTable DEF Inv, PostgresPortCall, RestartCall, Is, IsStart
  <2>2. Done(c, k - 1)'
    BY <1>2, <1>4, <1>6, <1>10, <2>1 DEF Done, Restarted
  <2>3. Agreement(c, k) => Agreement(c, k - 1)'
    BY <1>2, <1>10, <2>1 DEF Agreement, Restoring, WaitsForRestart, Stale
  <2> QED BY <2>2, <2>3
<1>11. CASE c.op = "RestoreBackup"
  BY <1>x, <1>1, <1>11, InHandTable DEF Inv, RestoreCall, Is, IsStart
<1>12. CASE c.op \notin {"RestartService", "ApplyBackendPort", "ApplyFrontendPorts",
                       "ApplyPostgresPort", "RestoreBackup"}
  BY <1>2, <1>12 DEF Done, Agreement, Restoring, WaitsForRestart, Stale
<1> QED BY <1>7, <1>8, <1>9, <1>10, <1>11, <1>12

\* A call that fails for a reason of its own: only a restore may leave
\* something behind, and it reports it.
LEMMA KeepsCallFails ==
  ASSUME Types, Inv, NEW c, c = work.cmd, NEW k, k = Left, CallFails
  PROVE  Keeps(c, k)
<1>x. PICK x : x = work.todo[1]
  OBVIOUS
<1>1. /\ work.todo # << >> /\ Head(work.todo) = x
      /\ x.call \notin {"check", "awaitStopped", "awaitRunning", "awaitPort"}
      /\ InHand("pgRestore") => x.call = "pgRestore"
  BY <1>x, TailFacts DEF CallFails, Types, InHand
<1>2. UNCHANGED <<status, fresh, listen, env, nginx, pgConf, keyless>>
  BY DEF CallFails, services
<1>3. Outcome /\ (x.fail = "must" => Gives)
  BY <1>x, <1>1, FailOutcome DEF CallFails
<1>4. x.call # "pgRestore" => dbKey' = dbKey
  BY <1>1 DEF CallFails
<1>5. Done(c, k) /\ (warned \/ Agreement(c, k))
  BY DEF Inv, InOrder
<1>6. c \in Commands /\ k \in Nat \ {0}
  BY <1>x, <1>1, InHandTable DEF Inv
<1> SUFFICES ASSUME ~Gives PROVE Done(c, k - 1)' /\ (Agreement(c, k) => Agreement(c, k - 1)')
  BY <1>3, <1>5 DEF Outcome, Keeps, Advances, Ends, InOrder
<1>7. CASE c.op \in {"RestartService", "ApplyBackendPort", "ApplyFrontendPorts",
                     "ApplyPostgresPort"}
  BY <1>x, <1>3, <1>7, <1>1, InHandTable
     DEF Inv, RestartCall, BackendPortCall, FrontendPortsCall, PostgresPortCall, Is, IsStart
<1>8. CASE c.op = "RestoreBackup"
  <2>1. x.call = "dump" /\ k = (IF c.withEnv THEN 7 ELSE 5)
    BY <1>x, <1>1, <1>3, <1>8, InHandTable DEF Inv, RestoreCall, Is, IsStart
  <2>2. Done(c, k - 1)'
    BY <1>2, <1>4, <1>5, <1>8, <2>1 DEF Done, Down
  <2>3. Agreement(c, k) => Agreement(c, k - 1)'
    BY <1>2, <1>4, <1>8, <2>1 DEF Agreement, Restoring, WaitsForRestart, Stale
  <2> QED BY <2>2, <2>3
<1>9. CASE c.op \notin {"RestartService", "ApplyBackendPort", "ApplyFrontendPorts",
                       "ApplyPostgresPort", "RestoreBackup"}
  <2>1. dbKey' = dbKey
    BY <1>x, <1>1, <1>4, <1>9, InHandTable DEF Inv
  <2> QED BY <1>2, <1>9, <2>1 DEF Done, Agreement, Restoring, WaitsForRestart, Stale
<1> QED BY <1>7, <1>8, <1>9

\* All the calls together.
WorkerCall == \/ stop_service \/ start_service \/ relaunch
              \/ wait_for_status \/ wait_for_tcp_port \/ check_results
              \/ WriteConfiguration \/ ReadOnlyCall \/ pg_restore \/ CallFails

LEMMA CallKeeps ==
  ASSUME Types, Inv, WorkerCall, NEW c, c = work.cmd, NEW k, k = Left
  PROVE  Keeps(c, k) /\ work.todo # << >>
<1>1. work.todo # << >>
  BY DEF WorkerCall, stop_service, start_service, relaunch, wait_for_status, wait_for_tcp_port,
         check_results, WriteConfiguration, set_backend_port, set_db_port, set_port,
         set_https_port, set_http_port, restore_env, ReadOnlyCall, pg_restore, CallFails, InHand
<1>2. CASE WriteConfiguration
  <2>1. Proceed /\ UNCHANGED <<status, listen, dbKey, keyless>>
    BY <1>2 DEF WriteConfiguration
  <2>2. set_backend_port => Keeps(c, k)
    BY <2>1, KeepsBackendPort
  <2>3. set_db_port => Keeps(c, k)
    BY <2>1, KeepsDbPort
  <2>4. set_port => Keeps(c, k)
    BY <2>1, KeepsPgPort
  <2>5. set_https_port => Keeps(c, k)
    BY <2>1, KeepsHttpsPort
  <2>6. set_http_port => Keeps(c, k)
    BY <2>1, KeepsHttpPort
  <2>7. restore_env => Keeps(c, k)
    BY <2>1, KeepsEnv
  <2> QED BY <1>1, <1>2, <2>2, <2>3, <2>4, <2>5, <2>6, <2>7 DEF WriteConfiguration
<1>3. stop_service => Keeps(c, k)
  BY KeepsStop
<1>4. start_service \/ relaunch => Keeps(c, k)
  BY KeepsStart
<1>5. wait_for_status => Keeps(c, k)
  BY KeepsWait
<1>6. ReadOnlyCall \/ wait_for_tcp_port \/ check_results => Keeps(c, k)
  BY KeepsQuiet
<1>7. pg_restore => Keeps(c, k)
  BY KeepsRestore
<1>8. CallFails => Keeps(c, k)
  BY KeepsCallFails
<1> QED BY <1>1, <1>2, <1>3, <1>4, <1>5, <1>6, <1>7, <1>8 DEF WorkerCall

-----------------------------------------------------------------------------
(* The calls left stay the end of the program.                              *)

\* The operation is over.
LEMMA RestsInOrder ==
  ASSUME work' = Idle,
         NEW c, warned' \/ InOrder(c, 0)'
  PROVE  InProgram' /\ InOrder(work.cmd, Left)'
<1>1. work'.cmd = None /\ Left' = 0
  BY DEF Idle, Left
<1>2. InProgram'
  BY <1>1 DEF InProgram
<1>3. None.op = "none"
  BY DEF None
<1>4. Done(work.cmd, Left)'
  BY <1>1, <1>3 DEF Done
<1>5. warned' \/ Agreement(work.cmd, Left)'
  BY <1>1 DEF InOrder, Agreement, Restoring, WaitsForRestart
<1> QED BY <1>2, <1>4, <1>5 DEF InOrder

LEMMA SameOrder ==
  ASSUME NEW c, NEW k, work'.cmd = c, Left' = k, InOrder(c, k)'
  PROVE  InOrder(work.cmd, Left)'
  BY DEF InOrder, Done, Agreement, Restoring, WaitsForRestart, Restarted

LEMMA AdvancesInProgram ==
  ASSUME Types, InProgram, work.todo # << >>, Advances
  PROVE  /\ work'.todo \in Seq(Calls) /\ work'.cmd = work.cmd /\ Left' = Left - 1
         /\ work'.late \in BOOLEAN /\ work' = [cmd |-> work.cmd, todo |-> work'.todo, late |-> work'.late]
         /\ InProgram'
<1>1. PICK t \in Seq(Calls) : t = work.todo
  BY DEF Types
<1>2. PICK P : P = Program(work.cmd)
  OBVIOUS
<1>3. /\ work' = [cmd |-> work.cmd, todo |-> Tail(t), late |-> work'.late]
      /\ work'.late \in BOOLEAN
  BY <1>1 DEF Advances, Types
<1>4. work'.todo = Tail(t) /\ work'.cmd = work.cmd
  BY <1>3
<1>5. work.cmd # None /\ IsEndOf(t, P)
  BY <1>1, <1>2 DEF InProgram, Idle
<1>6. /\ Len(t) \in Nat \ {0} /\ Tail(t) \in Seq(Calls) /\ Len(Tail(t)) = Len(t) - 1
      /\ \A j \in 1..(Len(t) - 1) : Tail(t)[j] = t[j + 1]
      /\ Len(t) > 1
  BY <1>1, TailFacts DEF Advances, Left
<1>7. PICK n \in Nat, m \in Nat, u \in Seq(Calls) : n = Len(t) /\ m = Len(P) /\ u = Tail(t)
  <2>1. Len(P) \in Nat
    BY <1>2, <1>5, ProgramsAreCalls DEF Types
  <2> QED BY <1>6, <2>1
<1>8. IsEndOf(u, P)
  <2>1. 1 < n /\ n <= m /\ Len(u) = n - 1
    BY <1>5, <1>6, <1>7 DEF IsEndOf
  <2>2. \A j \in 2..n : t[j] = P[m - n + j]
    BY <1>5, <1>7 DEF IsEndOf
  <2>3. \A j \in 1..(n - 1) : u[j] = P[m - (n - 1) + j]
    <3> SUFFICES ASSUME NEW j \in 1..(n - 1) PROVE u[j] = P[m - (n - 1) + j]
      OBVIOUS
    <3>1. u[j] = t[j + 1]
      BY <1>6, <1>7
    <3>2. j + 1 \in 2..n
      OBVIOUS
    <3>3. t[j + 1] = P[m - n + (j + 1)]
      BY <2>2, <3>2
    <3>4. m - n + (j + 1) = m - (n - 1) + j
      OBVIOUS
    <3> QED BY <3>1, <3>3, <3>4
  <2>4. u[1] = P[m - Len(u) + 1]
    BY <2>1, <2>3
  <2>5. \A j \in 2..Len(u) : u[j] = P[m - Len(u) + j]
    BY <2>1, <2>3
  <2>6. 0 < Len(u) /\ Len(u) <= m
    BY <2>1
  <2> QED BY <1>7, <2>4, <2>5, <2>6 DEF IsEndOf
<1>9. InProgram'
  BY <1>2, <1>4, <1>5, <1>7, <1>8 DEF InProgram
<1> QED BY <1>1, <1>3, <1>4, <1>6, <1>9 DEF Left

LEMMA RetriesInProgram ==
  ASSUME Types, InProgram, work.todo # << >>, Retries
  PROVE  /\ work'.todo \in Seq(Calls) /\ work'.cmd = work.cmd /\ Left' = Left
         /\ work' = [cmd |-> work.cmd, todo |-> work'.todo, late |-> work.late]
         /\ InProgram'
<1>1. PICK t \in Seq(Calls) : t = work.todo
  BY DEF Types
<1>2. PICK P : P = Program(work.cmd)
  OBVIOUS
<1>3. PICK x : x = t[1]
  OBVIOUS
<1>4. /\ Len(t) \in Nat \ {0} /\ Tail(t) \in Seq(Calls) /\ Len(Tail(t)) = Len(t) - 1
      /\ \A j \in 1..(Len(t) - 1) : Tail(t)[j] = t[j + 1]
      /\ x \in Calls /\ Head(t) = x
  BY <1>1, <1>3, TailFacts
<1>5. PICK y : y = Call("relaunch", x.on, x.fail)
  OBVIOUS
<1>6. y \in Calls
  BY <1>4, <1>5 DEF Calls, Call, CallNames
<1>7. x.call \in Starts /\ work' = [work EXCEPT !.todo = << y >> \o Tail(t)]
  BY <1>1, <1>3, <1>4, <1>5 DEF Retries, On
<1>8. PICK u : u = << y >> \o Tail(t)
  OBVIOUS
<1>9. /\ u \in Seq(Calls) /\ Len(u) = Len(t) /\ u[1] = y
      /\ \A j \in 2..Len(t) : u[j] = t[j]
  <2>1. << y >> \in Seq(Calls) /\ Len(<< y >>) = 1 /\ << y >>[1] = y
    BY <1>6
  <2>2. u \in Seq(Calls) /\ Len(u) = 1 + Len(Tail(t))
    BY <1>4, <1>8, <2>1, ConcatProperties
  <2>3. \A j \in 1..Len(u) : u[j] = IF j <= 1 THEN << y >>[j] ELSE Tail(t)[j - 1]
    BY <1>4, <1>8, <2>1, ConcatProperties
  <2>4. Len(u) = Len(t)
    BY <1>4, <2>2
  <2>5. u[1] = y
    BY <1>4, <2>1, <2>3, <2>4
  <2>6. ASSUME NEW j \in 2..Len(t) PROVE u[j] = t[j]
    <3>1. j \in 1..Len(u) /\ ~(j <= 1) /\ j - 1 \in 1..(Len(t) - 1)
      BY <1>4, <2>4
    <3>2. u[j] = Tail(t)[j - 1]
      BY <2>3, <3>1
    <3>3. Tail(t)[j - 1] = t[(j - 1) + 1]
      BY <1>4, <3>1
    <3> QED BY <1>4, <3>2, <3>3
  <2> QED BY <2>2, <2>4, <2>5, <2>6
<1>10. work.cmd # None /\ IsEndOf(t, P)
  BY <1>1, <1>2 DEF InProgram, Idle
<1>11. work' = [cmd |-> work.cmd, todo |-> u, late |-> work.late]
  BY <1>7, <1>8 DEF Types
<1>12. IsEndOf(u, P)
  <2>1. PICK n \in Nat, m \in Nat : n = Len(t) /\ m = Len(P)
    <3>1. Len(P) \in Nat
      BY <1>2, <1>10, ProgramsAreCalls DEF Types
    <3> QED BY <1>4, <3>1
  <2>2. 0 < n /\ n <= m /\ \A j \in 2..n : t[j] = P[m - n + j]
    BY <1>10, <2>1 DEF IsEndOf
  <2>3. PICK next : next = P[m - n + 1]
    OBVIOUS
  <2>4. next.call \in Starts /\ y = Call("relaunch", next.on, next.fail)
    <3>1. IsHead(x, next)
      BY <1>3, <1>10, <2>1, <2>3 DEF IsEndOf, IsHead
    <3>2. CASE x = next
      BY <1>5, <1>7, <3>2
    <3>3. CASE next.call \in Starts /\ x = Call("relaunch", next.on, next.fail)
      BY <1>5, <3>3 DEF Call
    <3> QED BY <3>1, <3>2, <3>3 DEF IsHead
  <2> QED BY <1>9, <2>1, <2>2, <2>3, <2>4 DEF IsEndOf
<1>13. work'.todo = u /\ work'.cmd = work.cmd
  BY <1>11
<1>14. InProgram'
  BY <1>2, <1>10, <1>12, <1>13 DEF InProgram
<1> QED BY <1>1, <1>9, <1>11, <1>13, <1>14 DEF Left

-----------------------------------------------------------------------------
(* The steps of the worker.                                                 *)

LEMMA AppendTypes ==
  ASSUME NEW S, NEW t \in Seq(S), NEW e \in S
  PROVE  Append(t, e) \in Seq(S)
  OBVIOUS

Marks == {"started", "succeeded", "failed", "scanned"}

LEMMA KeepsWork ==
  ASSUME Types, Inv, work.todo # << >>, NEW c, c = work.cmd, NEW k, k = Left, Keeps(c, k)
  PROVE  /\ work' \in [cmd : Commands \cup {None}, todo : Seq(Calls), late : BOOLEAN]
         /\ events' \in Seq(Marks) /\ warned' \in BOOLEAN
         /\ work'.cmd \in {c, None}
         /\ InProgram' /\ InOrder(work.cmd, Left)'
<1>1. /\ work.cmd \in Commands \cup {None} /\ work.late \in BOOLEAN
      /\ events \in Seq(Marks) /\ warned \in BOOLEAN
      /\ "succeeded" \in Marks /\ "scanned" \in Marks /\ "failed" \in Marks
  BY DEF Types, Marks
<1>2. Idle \in [cmd : Commands \cup {None}, todo : Seq(Calls), late : BOOLEAN]
      /\ Idle.cmd = None
  <2>1. << >> \in Seq(Calls)
    OBVIOUS
  <2> QED BY <2>1 DEF Idle
<1>3. CASE Gives
  <2>1. work' = Idle /\ warned' /\ warned' \in BOOLEAN /\ events' \in Seq(Marks)
    BY <1>1, <1>3, AppendTypes DEF Gives
  <2>2. InProgram' /\ InOrder(work.cmd, Left)'
    BY <2>1, RestsInOrder
  <2> QED BY <1>2, <2>1, <2>2
<1>4. CASE Ends /\ InOrder(c, k - 1)'
  <2>1. work' = Idle /\ warned' = warned /\ k - 1 = 0
    BY <1>4 DEF Ends
  <2>2. events' \in Seq(Marks)
    BY <1>1, <1>4, AppendTypes DEF Ends
  <2>3. InOrder(c, 0)'
    BY <1>4, <2>1
  <2>4. InProgram' /\ InOrder(work.cmd, Left)'
    BY <2>1, <2>3, RestsInOrder
  <2> QED BY <1>1, <1>2, <2>1, <2>2, <2>4
<1>5. CASE Advances /\ InOrder(c, k - 1)'
  <2>1. /\ work'.todo \in Seq(Calls) /\ work'.cmd = c /\ Left' = k - 1
        /\ work'.late \in BOOLEAN
        /\ work' = [cmd |-> work.cmd, todo |-> work'.todo, late |-> work'.late]
        /\ InProgram'
    BY <1>5, AdvancesInProgram DEF Inv
  <2>2. InOrder(work.cmd, Left)'
    BY <1>5, <2>1, SameOrder
  <2>3. events' = events /\ warned' = warned
    BY <1>5 DEF Advances
  <2> QED BY <1>1, <2>1, <2>2, <2>3
<1>6. CASE Retries /\ InOrder(c, k)'
  <2>1. /\ work'.todo \in Seq(Calls) /\ work'.cmd = c /\ Left' = k
        /\ work' = [cmd |-> work.cmd, todo |-> work'.todo, late |-> work.late]
        /\ InProgram'
    BY <1>6, RetriesInProgram DEF Inv
  <2>2. InOrder(work.cmd, Left)'
    BY <1>6, <2>1, SameOrder
  <2>3. events' = events /\ warned' = warned
    BY <1>6 DEF Retries
  <2> QED BY <1>1, <2>1, <2>2, <2>3
<1> QED BY <1>3, <1>4, <1>5, <1>6 DEF Keeps

\* What a call in hand carries.
LEMMA Carried ==
  ASSUME Types, Inv, work.todo # << >>
  PROVE  /\ work.todo[1].call \in {"setAppPort", "setDbPort", "setPgPort", "setHttps", "setHttp"}
              => work.todo[1].on \in Ports
         /\ work.todo[1].call \in {"copyEnv", "pgRestore"}
              => work.cmd.port \in Ports /\ work.cmd.key \in Keys
<1>1. PICK x, c, k : x = work.todo[1] /\ c = work.cmd /\ k = Left
  OBVIOUS
<1>2. c \in Commands
  BY <1>1, InHandTable DEF Inv
<1>3. /\ c.op \in {"ApplyBackendPort", "ApplyFrontendPorts", "ApplyPostgresPort", "RestoreBackup"}
           => c.port \in Ports
      /\ c.op = "ApplyFrontendPorts" => c.http \in Ports
      /\ c.op = "RestoreBackup" => c.key \in Keys
  BY <1>2 DEF Commands, PortCommands, ServiceCommands, OtherCommands
<1>4. x.call \in {"setAppPort", "setDbPort", "setPgPort", "setHttps", "setHttp"}
        => \/ c.op \in {"ApplyBackendPort", "ApplyPostgresPort"} /\ x.on = c.port
           \/ c.op = "ApplyFrontendPorts" /\ x.on \in {c.port, c.http}
  BY <1>1, InHandTable DEF Inv, RestartCall, BackendPortCall, FrontendPortsCall,
                           PostgresPortCall, RestoreCall, Is, IsStart
<1>5. x.call \in {"copyEnv", "pgRestore"} => c.op = "RestoreBackup"
  BY <1>1, InHandTable DEF Inv, RestartCall, BackendPortCall, FrontendPortsCall,
                           PostgresPortCall, RestoreCall, Is, IsStart
<1> QED BY <1>1, <1>3, <1>4, <1>5

\* What a call leaves of the services and the files.
Installation ==
    /\ status \in [Services -> Statuses] /\ fresh \in [Services -> BOOLEAN]
    /\ listen \in Ports /\ pgConf \in Ports
    /\ env \in [app : Ports, db : Ports, origin : Ports, key : Keys, whole : BOOLEAN]
    /\ nginx \in [https : Ports, redirect : Ports, http : Ports, proxy : Ports]
    /\ dbKey \in Keys \cup {"mixed"} /\ keyless \in BOOLEAN
    /\ ListenInv

LEMMA KeepsInstallation ==
  ASSUME Types, Inv, WorkerCall
  PROVE  Installation'
<1>1. Installation
  BY DEF Types, Inv, Installation
<1>2. CASE WriteConfiguration
  <2>1. UNCHANGED <<status, listen, dbKey, keyless>>
    BY <1>2 DEF WriteConfiguration
  <2>2. CASE set_backend_port \/ set_db_port
    <3>1. On \in Ports
      BY <2>2, InHandFacts, Carried DEF set_backend_port, set_db_port, Inv
    <3>2. UNCHANGED <<nginx, pgConf>> /\ fresh' = [fresh EXCEPT ![Backend] = FALSE]
      BY <2>2 DEF set_backend_port, set_db_port, Written
    <3>3. env' \in {[env EXCEPT !.app = On], [env EXCEPT !.db = On]}
      BY <2>2 DEF set_backend_port, set_db_port
    <3>4. env' \in [app : Ports, db : Ports, origin : Ports, key : Keys, whole : BOOLEAN]
      BY <1>1, <3>1, <3>3 DEF Installation
    <3> QED BY <1>1, <2>1, <3>2, <3>4 DEF Installation, ListenInv, Services, Backend, Postgres
  <2>3. CASE set_port
    <3>1. On \in Ports
      BY <2>3, InHandFacts, Carried DEF set_port, Inv
    <3>2. UNCHANGED <<nginx, env>> /\ fresh' = [fresh EXCEPT ![Postgres] = FALSE] /\ pgConf' = On
      BY <2>3 DEF set_port, Written
    <3> QED BY <1>1, <2>1, <3>1, <3>2 DEF Installation, ListenInv, Services
  <2>4. CASE set_https_port \/ set_http_port
    <3>1. On \in Ports
      BY <2>4, InHandFacts, Carried DEF set_https_port, set_http_port, Inv
    <3>2. UNCHANGED <<env, pgConf>> /\ fresh' = [fresh EXCEPT ![Frontend] = FALSE]
      BY <2>4 DEF set_https_port, set_http_port, Written
    <3>3. nginx' \in {[nginx EXCEPT !.https = On, !.redirect = On], [nginx EXCEPT !.http = On]}
      BY <2>4 DEF set_https_port, set_http_port
    <3>4. /\ nginx' \in [https : Ports, redirect : Ports, http : Ports, proxy : Ports]
          /\ nginx'.redirect = nginx'.https
      BY <1>1, <3>1, <3>3 DEF Installation, ListenInv
    <3> QED BY <1>1, <2>1, <3>2, <3>4 DEF Installation, ListenInv, Services, Frontend, Postgres
  <2>5. CASE restore_env
    <3>1. UNCHANGED <<nginx, pgConf>> /\ fresh' = [fresh EXCEPT ![Backend] = FALSE]
      BY <2>5 DEF restore_env, Written
    <3>2. env' \in [app : Ports, db : Ports, origin : Ports, key : Keys, whole : BOOLEAN]
      <4>1. CASE env' = [env EXCEPT !.whole = FALSE]
        BY <1>1, <4>1 DEF Installation
      <4>2. CASE /\ InHand("copyEnv")
                 /\ \E a, o \in Ports :
                      env' = [app |-> a, db |-> work.cmd.port, origin |-> o,
                              key |-> work.cmd.key, whole |-> TRUE]
        <5>1. work.cmd.port \in Ports /\ work.cmd.key \in Keys
          BY <4>2, InHandFacts, Carried DEF Inv
        <5> QED BY <4>2, <5>1
      <4> QED BY <2>5, <4>1, <4>2 DEF restore_env
    <3> QED BY <1>1, <2>1, <3>1, <3>2 DEF Installation, ListenInv, Services, Backend, Postgres
  <2> QED BY <1>2, <2>2, <2>3, <2>4, <2>5 DEF WriteConfiguration
<1>3. CASE stop_service
  <2>1. UNCHANGED <<fresh, listen, env, nginx, pgConf, dbKey, keyless>>
    BY <1>3 DEF stop_service, files
  <2>2. status' \in {status, [status EXCEPT ![On] = "StopPending"]}
    BY <1>3 DEF stop_service
  <2>3. PICK s : s = On
    OBVIOUS
  <2> QED BY <1>1, <2>1, <2>2, <2>3 DEF Installation, ListenInv, Services, Statuses
<1>4. CASE start_service \/ relaunch
  <2>1. UNCHANGED <<listen, env, nginx, pgConf, dbKey, keyless>>
    BY <1>4 DEF start_service, relaunch, files
  <2>2. PICK s : s = On
    OBVIOUS
  <2>3. \/ status' = status /\ fresh' = fresh
        \/ status' = [status EXCEPT ![s] = "StopPending"] /\ fresh' = fresh
        \/ Launch(s)
    BY <1>4, <2>2 DEF start_service, relaunch
  <2>4. CASE Launch(s)
    <3>1. /\ status' = [t \in Services |->
                          IF t = s \/ (DependsOn(s, t) /\ status[t] = "Stopped")
                          THEN "StartPending" ELSE status[t]]
          /\ fresh' = [t \in Services |->
                         (t = s \/ (DependsOn(s, t) /\ status[t] = "Stopped")) \/ fresh[t]]
      BY <2>4 DEF Launch
    <3>2. status' \in [Services -> Statuses]
      BY <1>1, <3>1 DEF Installation, Statuses
    <3>3. fresh' \in [Services -> BOOLEAN]
      BY <1>1, <3>1 DEF Installation
    <3>4. Postgres \in Services /\ ~DependsOn(s, Postgres)
      BY DEF Services, DependsOn, Postgres, Backend
    <3>5. status'[Postgres] = "Running" /\ fresh'[Postgres]
            => status[Postgres] = "Running" /\ fresh[Postgres]
      BY <3>1, <3>4
    <3> QED BY <1>1, <2>1, <3>2, <3>3, <3>5 DEF Installation, ListenInv
  <2>5. CASE \/ status' = status /\ fresh' = fresh
             \/ status' = [status EXCEPT ![s] = "StopPending"] /\ fresh' = fresh
    <3>1. status' \in [Services -> Statuses] /\ fresh' \in [Services -> BOOLEAN]
      BY <1>1, <2>5 DEF Installation, Statuses
    <3>2. status'[Postgres] = "Running" /\ fresh'[Postgres]
            => status[Postgres] = "Running" /\ fresh[Postgres]
      BY <1>1, <2>5 DEF Installation, Services
    <3> QED BY <1>1, <2>1, <3>1, <3>2 DEF Installation, ListenInv
  <2> QED BY <2>3, <2>4, <2>5
<1>5. CASE wait_for_status \/ wait_for_tcp_port \/ check_results \/ ReadOnlyCall
  <2>1. UNCHANGED <<status, fresh, listen, env, nginx, pgConf, dbKey, keyless>>
    BY <1>5 DEF wait_for_status, wait_for_tcp_port, check_results, ReadOnlyCall, services, files
  <2> QED BY <1>1, <2>1 DEF Installation, ListenInv
<1>6. CASE pg_restore
  <2>1. UNCHANGED <<status, fresh, listen, env, nginx, pgConf>>
    BY <1>6 DEF pg_restore, services
  <2>2. work.cmd.key \in Keys
    BY <1>6, InHandFacts, Carried DEF pg_restore, Inv
  <2>3. /\ dbKey' \in {dbKey, work.cmd.key}
        /\ keyless' = keyless \/ keyless' = (keyless \/ env.key # work.cmd.key)
    BY <1>6 DEF pg_restore
  <2>4. dbKey' \in Keys \cup {"mixed"} /\ keyless' \in BOOLEAN
    BY <1>1, <2>2, <2>3 DEF Installation
  <2> QED BY <1>1, <2>1, <2>4 DEF Installation, ListenInv
<1>7. CASE CallFails
  <2>1. UNCHANGED <<status, fresh, listen, env, nginx, pgConf, keyless>>
    BY <1>7 DEF CallFails, services
  <2>2. dbKey' \in {dbKey, "mixed"}
    BY <1>7 DEF CallFails
  <2> QED BY <1>1, <2>1, <2>2 DEF Installation, ListenInv
<1> QED BY <1>2, <1>3, <1>4, <1>5, <1>6, <1>7 DEF WorkerCall

\* The queue, the window and the counters.
LEMMA KeepsRest ==
  ASSUME Types, Inv, WorkerCall
  PROVE  /\ UNCHANGED <<queue, busy, scanning, conflict, issued>>
         /\ faults' \in 0..MaxFaults
<1>1. UNCHANGED <<queue, busy, scanning, conflict, issued>>
  BY DEF WorkerCall, stop_service, start_service, relaunch, wait_for_status, wait_for_tcp_port,
         check_results, WriteConfiguration, ReadOnlyCall, pg_restore, CallFails, window
<1>2. faults' = faults \/ (faults < MaxFaults /\ faults' = faults + 1)
  BY DEF WorkerCall, stop_service, start_service, relaunch, wait_for_status, wait_for_tcp_port,
         check_results, WriteConfiguration, ReadOnlyCall, pg_restore, CallFails
<1> QED BY <1>1, <1>2, BoundsAssumption DEF Types

LEMMA WorkerCallInv ==
  ASSUME Types, Inv, WorkerCall
  PROVE  Types' /\ Inv'
<1>1. PICK c, k : c = work.cmd /\ k = Left
  OBVIOUS
<1>2. work.todo # << >> /\ Keeps(c, k)
  BY <1>1, CallKeeps
<1>3. /\ work' \in [cmd : Commands \cup {None}, todo : Seq(Calls), late : BOOLEAN]
      /\ events' \in Seq(Marks) /\ warned' \in BOOLEAN
      /\ work'.cmd \in {c, None}
      /\ InProgram' /\ InOrder(work.cmd, Left)'
  BY <1>1, <1>2, KeepsWork
<1>4. Installation'
  BY KeepsInstallation
<1>5. /\ UNCHANGED <<queue, busy, scanning, conflict, issued>>
      /\ faults' \in 0..MaxFaults
  BY KeepsRest
<1>6. Types'
  BY <1>3, <1>4, <1>5 DEF Types, Installation, Marks
<1>7. SaneInv'
  <2>1. IsSane(c) /\ IsSane(None)
    BY <1>1 DEF Inv, SaneInv, IsSane, None
  <2>2. IsSane(work.cmd)'
    BY <1>3, <2>1 DEF IsSane
  <2> QED BY <1>5, <2>2 DEF Inv, SaneInv, IsSane
<1> QED BY <1>3, <1>4, <1>6, <1>7 DEF Inv, Installation

LEMMA TakeCommandInv ==
  ASSUME Types, Inv, TakeCommand
  PROVE  Types' /\ Inv'
<1>1. PICK c \in Commands, P \in Seq(Calls), q \in Seq(Commands) :
          c = Head(queue) /\ P = Program(c) /\ q = Tail(queue)
  <2>1. queue \in Seq(Commands) /\ queue # << >>
    BY DEF Types, TakeCommand
  <2>2. Head(queue) \in Commands /\ Tail(queue) \in Seq(Commands)
    BY <2>1
  <2> QED BY <2>2, ProgramsAreCalls
<1>2. /\ queue' = q /\ work' = [cmd |-> c, todo |-> P, late |-> FALSE]
      /\ UNCHANGED <<status, fresh, listen, env, nginx, pgConf, dbKey, busy, scanning, conflict,
                     warned, keyless, issued, faults>>
  BY <1>1 DEF TakeCommand, services, files, window, history
<1>3. work'.cmd = c /\ work'.todo = P
  BY <1>2
<1>4. events' \in Seq(Marks)
  <2>1. events' \in {events, Append(events, "started")}
    BY DEF TakeCommand
  <2>2. events \in Seq(Marks) /\ "started" \in Marks
    BY DEF Types, Marks
  <2> QED BY <2>1, <2>2, AppendTypes
<1>5. Types'
  <2>1. work' \in [cmd : Commands \cup {None}, todo : Seq(Calls), late : BOOLEAN]
    BY <1>2
  <2> QED BY <1>2, <1>4, <2>1 DEF Types, Marks
<1>6. c # None
  BY DEF Commands, PortCommands, ServiceCommands, OtherCommands, None
<1>7. PICK n \in Nat : n = Len(P) /\ n > 0
  BY <1>1, ProgramsAreCalls
<1>8. InProgram'
  <2>1. IsEndOf(P, P)
    BY <1>7 DEF IsEndOf
  <2> QED BY <1>1, <1>3, <1>6, <2>1 DEF InProgram
<1>9. SaneInv'
  <2>1. /\ \A j \in DOMAIN queue : IsSane(queue[j])
        /\ IsSane(conflict)
    BY DEF Inv, SaneInv
  <2>2. queue \in Seq(Commands) /\ queue # << >>
    BY DEF Types, TakeCommand
  <2>3. /\ c = queue[1] /\ 1 \in DOMAIN queue
        /\ Len(q) = Len(queue) - 1 /\ Len(queue) \in Nat
        /\ DOMAIN queue = 1..Len(queue) /\ DOMAIN q = 1..Len(q)
        /\ \A j \in 1..(Len(queue) - 1) : q[j] = queue[j + 1]
    BY <1>1, <2>2, TailFacts
  <2>4. IsSane(c)
    BY <2>1, <2>3
  <2>5. \A j \in DOMAIN q : IsSane(q[j])
    BY <2>1, <2>3
  <2>6. (\A j \in DOMAIN queue : IsSane(queue[j]))'
    BY <1>2, <2>5 DEF IsSane
  <2> QED BY <1>2, <1>3, <2>1, <2>4, <2>6 DEF SaneInv, IsSane
<1>10. InOrder(c, n)'
  <2>1. work.cmd = None /\ Left = 0
    BY DEF TakeCommand, Idle, Left
  <2>2. warned \/ Agreement(None, 0)
    BY <2>1 DEF Inv, InOrder
  <2>3. Agreement(None, 0) => Agreement(c, n)'
    BY <1>2, <1>6 DEF Agreement, Restoring, WaitsForRestart, None, Stale
  <2>4. CASE c.op = "RestartService"
    <3>1. n = 4
      BY <1>1, <1>7, <2>4, ShortPrograms, RestartProgram
    <3> QED BY <1>2, <2>2, <2>3, <2>4, <3>1 DEF InOrder, Done, Restarted
  <2>5. CASE c.op = "ApplyBackendPort"
    <3>1. n = 5
      BY <1>1, <1>7, <2>5, BackendPortProgram
    <3> QED BY <1>2, <2>2, <2>3, <2>5, <3>1 DEF InOrder, Done, Restarted
  <2>6. CASE c.op = "ApplyFrontendPorts"
    <3>1. n = 6
      BY <1>1, <1>7, <2>6, FrontendPortsProgram
    <3> QED BY <1>2, <2>2, <2>3, <2>6, <3>1 DEF InOrder, Done, Restarted
  <2>7. CASE c.op = "ApplyPostgresPort"
    <3>1. n = 11
      BY <1>1, <1>7, <2>7, PostgresPortProgram
    <3> QED BY <1>2, <2>2, <2>3, <2>7, <3>1 DEF InOrder, Done, Restarted
  <2>8. CASE c.op = "RestoreBackup"
    <3>1. n = (IF c.withEnv THEN 9 ELSE 7)
      BY <1>1, <1>7, <2>8, RestoreProgram
    <3> QED BY <1>2, <2>2, <2>3, <2>8, <3>1 DEF InOrder, Done
  <2>9. CASE c.op \notin {"RestartService", "ApplyBackendPort", "ApplyFrontendPorts",
                        "ApplyPostgresPort", "RestoreBackup"}
    BY <1>2, <2>2, <2>3, <2>9 DEF InOrder, Done
  <2> QED BY <2>4, <2>5, <2>6, <2>7, <2>8, <2>9
<1>11. InOrder(work.cmd, Left)'
  <2>1. Left' = n
    BY <1>3, <1>7 DEF Left
  <2> QED BY <1>3, <1>10, <2>1, SameOrder
<1>12. ListenInv'
  BY <1>2 DEF Inv, ListenInv
<1> QED BY <1>5, <1>8, <1>9, <1>11, <1>12 DEF Inv

-----------------------------------------------------------------------------
(* The steps of the services and of the window.                             *)

LEMMA ServicesInv ==
  ASSUME Types, Inv, NEW s \in Services, ServiceSettles(s) \/ ServiceFails(s)
  PROVE  Types' /\ Inv'
<1>1. UNCHANGED <<fresh, env, nginx, pgConf, dbKey, queue, work, events, busy, scanning, conflict,
                  warned, keyless, issued>>
  BY DEF ServiceSettles, ServiceFails, files, window, history
<1>2. faults' = faults \/ (faults < MaxFaults /\ faults' = faults + 1)
  BY DEF ServiceSettles, ServiceFails
<1>3. \/ status[s] = "StartPending" /\ status' = [status EXCEPT ![s] = "Running"]
      \/ status[s] = "StopPending" /\ status' = [status EXCEPT ![s] = "Stopped"]
      \/ /\ status[s] \in {"Running", "StartPending"}
         /\ status' = [status EXCEPT ![s] = "Stopped"]
      \/ /\ status[s] \in {"Running", "StartPending"}
         /\ status' = [status EXCEPT ![s] = "Paused"]
  BY DEF ServiceSettles, ServiceFails
<1>4. status' \in [Services -> Statuses]
  BY <1>3 DEF Types, Statuses
<1>5. listen' \in Ports /\ (status'[Postgres] = "Running" /\ fresh[Postgres] => listen' = pgConf)
  <2>1. CASE ServiceSettles(s)
    <3>1. listen' = IF s = Postgres /\ status'[s] = "Running" THEN pgConf ELSE listen
      BY <2>1 DEF ServiceSettles
    <3>2. s # Postgres => status'[Postgres] = status[Postgres]
      BY <1>3 DEF Types, Services
    <3> QED BY <3>1, <3>2 DEF Types, Inv, ListenInv
  <2>2. CASE ServiceFails(s)
    <3>1. listen' = listen
      BY <2>2 DEF ServiceFails
    <3>2. \A t \in Services : status'[t] = "Running" => status[t] = "Running"
      BY <2>2 DEF ServiceFails, Types
    <3> QED BY <3>1, <3>2 DEF Types, Inv, ListenInv, Services
  <2> QED BY <2>1, <2>2
<1>6. Types'
  <2>1. faults' \in 0..MaxFaults
    BY <1>2, BoundsAssumption DEF Types
  <2> QED BY <1>1, <1>4, <1>5, <2>1 DEF Types
<1>7. InProgram' /\ SaneInv' /\ ListenInv'
  BY <1>1, <1>5 DEF Inv, InProgram, SaneInv, ListenInv
<1>8. /\ \A t \in Services : Down(t) => Down(t)'
      /\ \A t \in Services : status[t] = "Stopped" => status'[t] = "Stopped"
      /\ \A t \in Services : Stale(t)' => Stale(t)
  BY <1>1, <1>3 DEF Types, Down, Stale
<1>9. PICK c, k : c = work.cmd /\ k = Left
  OBVIOUS
<1>10. c = None \/ (k \in Nat \ {0} /\ c \in Commands)
  <2>1. c # None => work.todo # << >>
    <3>1. Len(<< >>) = 0
      OBVIOUS
    <3> QED BY <1>9, <3>1 DEF Inv, InProgram, IsEndOf
  <2> QED BY <1>9, <2>1, InHandTable DEF Inv
<1>11. InOrder(c, k)
  BY <1>9 DEF Inv
<1>12. Agreement(c, k) => Agreement(c, k)'
  BY <1>1, <1>8 DEF Agreement, Restoring, WaitsForRestart
<1>13. Done(c, k)'
  <2>1. /\ {Backend, Frontend, Postgres} \subseteq Services
        /\ c.op = "RestartService" => c.svc \in Services
    BY <1>10 DEF None, Services, Commands, PortCommands, ServiceCommands, OtherCommands
  <2>2. k \in Nat \ {0} => \A t \in Services : Restarted(t, k) => Restarted(t, k)'
    BY <1>1, <1>8 DEF Restarted
  <2>3. Done(c, k)
    BY <1>11 DEF InOrder
  <2>4. CASE c.op = "RestartService"
    BY <1>10, <2>1, <2>2, <2>3, <2>4 DEF Done, None
  <2>5. CASE c.op = "ApplyBackendPort"
    BY <1>1, <1>10, <2>1, <2>2, <2>3, <2>5 DEF Done, None
  <2>6. CASE c.op = "ApplyFrontendPorts"
    BY <1>1, <1>10, <2>1, <2>2, <2>3, <2>6 DEF Done, None
  <2>7. CASE c.op = "ApplyPostgresPort"
    BY <1>1, <1>8, <1>10, <2>1, <2>2, <2>3, <2>7 DEF Done, None
  <2>8. CASE c.op = "RestoreBackup"
    BY <1>1, <1>8, <1>10, <2>1, <2>3, <2>8 DEF Done, None
  <2>9. CASE c.op \notin {"RestartService", "ApplyBackendPort", "ApplyFrontendPorts",
                        "ApplyPostgresPort", "RestoreBackup"}
    BY <2>9 DEF Done
  <2> QED BY <2>4, <2>5, <2>6, <2>7, <2>8, <2>9
<1>14. InOrder(c, k)'
  BY <1>1, <1>11, <1>12, <1>13 DEF InOrder
<1>15. InOrder(work.cmd, Left)'
  <2>1. work'.cmd = c /\ Left' = k
    BY <1>1, <1>9 DEF Left
  <2> QED BY <1>14, <2>1, SameOrder
<1> QED BY <1>6, <1>7, <1>15 DEF Inv

\* The window touches neither the installation nor the command in hand.
LEMMA SendsSane ==
  ASSUME Types, Inv, NEW c \in Commands, IsSane(c), Send(c)
  PROVE  queue' \in Seq(Commands) /\ \A j \in DOMAIN queue' : IsSane(queue'[j])
<1>1. queue \in Seq(Commands) /\ queue' = Append(queue, c)
  BY DEF Types, Send
<1>2. /\ Len(queue) \in Nat /\ queue' \in Seq(Commands) /\ Len(queue') = Len(queue) + 1
      /\ DOMAIN queue = 1..Len(queue) /\ DOMAIN queue' = 1..Len(queue')
      /\ \A j \in 1..Len(queue) : queue'[j] = queue[j]
      /\ queue'[Len(queue) + 1] = c
  BY <1>1
<1>3. \A j \in 1..Len(queue) : IsSane(queue[j])
  BY <1>2 DEF Inv, SaneInv
<1>4. ASSUME NEW j \in DOMAIN queue' PROVE IsSane(queue'[j])
  <2>1. CASE j = Len(queue) + 1
    BY <1>2, <2>1
  <2>2. CASE j # Len(queue) + 1
    <3>1. j \in 1..Len(queue)
      BY <1>2, <2>2
    <3> QED BY <1>2, <1>3, <3>1
  <2> QED BY <2>1, <2>2
<1> QED BY <1>2, <1>4

\* What the window may do to the rest.
WindowStep == \/ \E c \in ServiceCommands \cup OtherCommands : PressButton(c)
              \/ \E c \in PortCommands : SavePorts(c)
              \/ AnswerConflict \/ DrainEvents

LEMMA WindowInv ==
  ASSUME Types, Inv, WindowStep
  PROVE  Types' /\ Inv'
<1>1. UNCHANGED <<status, fresh, listen, env, nginx, pgConf, dbKey, work, warned, keyless, faults>>
  BY DEF WindowStep, PressButton, SavePorts, AnswerConflict, DrainEvents, services, files, history
<1>2. /\ busy' \in BOOLEAN /\ scanning' \in BOOLEAN /\ events' \in Seq(Marks)
      /\ issued' \in 0..MaxCommands
  <2>1. events' = << >> \/ events' = events
    BY DEF WindowStep, PressButton, SavePorts, AnswerConflict, DrainEvents
  <2>2. issued' = issued \/ (issued < MaxCommands /\ issued' = issued + 1)
    BY DEF WindowStep, PressButton, SavePorts, AnswerConflict, DrainEvents
  <2>3. busy' \in BOOLEAN /\ scanning' \in BOOLEAN
    <3>1. CASE DrainEvents
      BY <3>1 DEF DrainEvents, Types
    <3>2. CASE ~DrainEvents
      BY <3>2 DEF WindowStep, PressButton, SavePorts, AnswerConflict, Types
    <3> QED BY <3>1, <3>2
  <2>4. << >> \in Seq(Marks) /\ events \in Seq(Marks)
    BY DEF Types, Marks
  <2>5. issued' \in 0..MaxCommands
    BY <2>2, BoundsAssumption DEF Types
  <2> QED BY <2>1, <2>3, <2>4, <2>5
<1>3. /\ queue' \in Seq(Commands) /\ (\A j \in DOMAIN queue' : IsSane(queue'[j]))
      /\ conflict' \in PortCommands \cup {None} /\ IsSane(conflict')
  <2>1. /\ conflict \in PortCommands \cup {None} /\ queue \in Seq(Commands)
        /\ IsSane(conflict) /\ (\A j \in DOMAIN queue : IsSane(queue[j]))
        /\ IsSane(None)
    BY DEF Types, Inv, SaneInv, IsSane, None
  <2>2. /\ PortCommands \subseteq Commands
        /\ ServiceCommands \cup OtherCommands \subseteq Commands
    BY DEF Commands
  <2>3. ASSUME NEW c \in ServiceCommands \cup OtherCommands, PressButton(c)
        PROVE  conflict' = conflict /\ Send(c) /\ IsSane(c)
    BY <2>3 DEF PressButton, ServiceCommands, OtherCommands, IsSane
  <2>4. ASSUME NEW c \in PortCommands, SavePorts(c)
        PROVE  IsSane(c) /\ ((Send(c) /\ conflict' = conflict) \/ (conflict' = c /\ queue' = queue))
    BY <2>4 DEF SavePorts, IsSane
  <2>5. CASE \E c \in ServiceCommands \cup OtherCommands : PressButton(c)
    BY <2>1, <2>2, <2>3, <2>5, SendsSane
  <2>6. CASE \E c \in PortCommands : SavePorts(c)
    BY <2>1, <2>2, <2>4, <2>6, SendsSane
  <2>7. CASE AnswerConflict
    <3>1. conflict' = None /\ (Send(conflict) \/ queue' = queue) /\ conflict \in Commands
      BY <2>1, <2>2, <2>7 DEF AnswerConflict
    <3> QED BY <2>1, <3>1, SendsSane
  <2>8. CASE DrainEvents
    <3>1. queue' = queue /\ conflict' = conflict
      BY <2>8 DEF DrainEvents
    <3> QED BY <2>1, <3>1
  <2> QED BY <2>5, <2>6, <2>7, <2>8 DEF WindowStep
<1>4. Types'
  BY <1>1, <1>2, <1>3 DEF Types, Marks
<1>5. SaneInv'
  BY <1>1, <1>3 DEF Inv, SaneInv, IsSane
<1>6. InProgram' /\ ListenInv'
  BY <1>1 DEF Inv, InProgram, ListenInv
<1>7. PICK c, k : c = work.cmd /\ k = Left /\ work'.cmd = c /\ Left' = k
  BY <1>1 DEF Left
<1>8. InOrder(c, k)
  BY <1>7 DEF Inv
<1>9. InOrder(c, k)'
  BY <1>1, <1>8 DEF InOrder, Done, Restarted, Down, Agreement, Restoring, WaitsForRestart, Stale
<1> QED BY <1>4, <1>5, <1>6, <1>7, <1>9, SameOrder DEF Inv

LEMMA CloseInv ==
  ASSUME Types, Inv, CloseTool
  PROVE  Types' /\ Inv'
<1>1. UNCHANGED <<status, fresh, listen, env, nginx, pgConf, dbKey, keyless, issued>>
  BY DEF CloseTool, services, files
<1>2. /\ queue' = << >> /\ work' = Idle /\ events' = << >>
      /\ busy' = FALSE /\ scanning' = FALSE /\ conflict' = None
      /\ warned' = (warned \/ work # Idle)
      /\ faults < MaxFaults /\ faults' = faults + 1
  BY DEF CloseTool
<1>3. Types'
  <2>1. work' \in [cmd : Commands \cup {None}, todo : Seq(Calls), late : BOOLEAN]
    <3>1. << >> \in Seq(Calls)
      OBVIOUS
    <3> QED BY <1>2, <3>1 DEF Idle
  <2>2. faults' \in 0..MaxFaults
    BY <1>2, BoundsAssumption DEF Types
  <2>3. queue' \in Seq(Commands) /\ events' \in Seq(Marks) /\ warned' \in BOOLEAN
    BY <1>2 DEF Types
  <2> QED BY <1>1, <1>2, <2>1, <2>2, <2>3 DEF Types, Marks
<1>4. SaneInv'
  <2>1. IsSane(None) /\ IsSane(Idle.cmd)
    BY DEF IsSane, None, Idle
  <2>2. DOMAIN queue' = {}
    BY <1>2
  <2> QED BY <1>2, <2>1, <2>2 DEF SaneInv, IsSane
<1>5. warned' \/ InOrder(None, 0)'
  <2>1. CASE warned'
    BY <2>1
  <2>2. CASE work = Idle /\ warned' = warned
    <3>1. InOrder(None, 0)
      BY <2>2 DEF Inv, Idle, Left
    <3> QED BY <1>1, <2>2, <3>1
            DEF InOrder, Done, Restarted, Down, Agreement, Restoring, WaitsForRestart, Stale
  <2> QED BY <1>2, <2>1, <2>2 DEF Types
<1>6. InProgram' /\ InOrder(work.cmd, Left)'
  BY <1>2, <1>5, RestsInOrder
<1>7. ListenInv'
  BY <1>1 DEF Inv, ListenInv
<1> QED BY <1>3, <1>4, <1>6, <1>7 DEF Inv

LEMMA InitInv ==
  ASSUME Init
  PROVE  Types /\ Inv
<1>1. Types
  <2>1. << >> \in Seq(Calls) /\ << >> \in Seq(Commands) /\ << >> \in Seq(Marks)
    OBVIOUS
  <2>2. work \in [cmd : Commands \cup {None}, todo : Seq(Calls), late : BOOLEAN]
    BY <2>1 DEF Init, Idle
  <2>3. nginx \in [https : Ports, redirect : Ports, http : Ports, proxy : Ports]
    BY InstallationAssumption DEF Init
  <2>4. issued \in 0..MaxCommands /\ faults \in 0..MaxFaults
    BY BoundsAssumption DEF Init
  <2> QED BY <2>1, <2>2, <2>3, <2>4, InstallationAssumption DEF Init, Types, Marks, Statuses
<1>2. work.cmd = None /\ work = Idle /\ Left = 0
  BY DEF Init, Idle, Left
<1>3. InProgram /\ ListenInv
  BY <1>2 DEF Init, InProgram, ListenInv
<1>4. SaneInv
  BY <1>2 DEF Init, SaneInv, IsSane, None
<1>5. Done(None, 0)
  BY DEF Done, None
<1>6. Agreement(None, 0)
  <2>1. /\ env.db = pgConf /\ env.whole /\ nginx.http # nginx.https /\ env.key = dbKey
        /\ \A s \in Services : fresh[s]
    BY DEF Init
  <2> QED BY <2>1 DEF Agreement, Stale
<1> QED BY <1>1, <1>2, <1>3, <1>4, <1>5, <1>6 DEF Inv, InOrder

LEMMA StepInv ==
  ASSUME Types, Inv, [Next]_vars
  PROVE  Types' /\ Inv'
<1>1. CASE TakeCommand
  BY <1>1, TakeCommandInv
<1>2. CASE WorkerCall
  BY <1>2, WorkerCallInv
<1>3. CASE WindowStep
  BY <1>3, WindowInv
<1>4. CASE \E s \in Services : ServiceSettles(s) \/ ServiceFails(s)
  BY <1>4, ServicesInv
<1>5. CASE CloseTool
  BY <1>5, CloseInv
<1>6. CASE UNCHANGED vars
  <2>1. UNCHANGED <<status, fresh, listen, env, nginx, pgConf, dbKey, queue, work, events,
                    busy, scanning, conflict, warned, keyless, issued, faults>>
    BY <1>6 DEF vars, services, files, window, history
  <2>2. Types'
    BY <2>1 DEF Types
  <2>3. InProgram' /\ SaneInv' /\ ListenInv'
    BY <2>1 DEF Inv, InProgram, SaneInv, ListenInv
  <2>4. PICK c, k : c = work.cmd /\ k = Left /\ work'.cmd = c /\ Left' = k
    BY <2>1 DEF Left
  <2>5. InOrder(c, k)
    BY <2>4 DEF Inv
  <2>6. InOrder(c, k)'
    BY <2>1, <2>5 DEF InOrder, Done, Restarted, Down, Agreement, Restoring, WaitsForRestart, Stale
  <2> QED BY <2>2, <2>3, <2>4, <2>6, SameOrder DEF Inv
<1> QED BY <1>1, <1>2, <1>3, <1>4, <1>5, <1>6 DEF Next, WorkerStep, WorkerCall, WindowStep

-----------------------------------------------------------------------------
(* The theorems.                                                            *)

\* The invariant holds for any number of commands, crashes and closed windows:
\* while a command runs, the calls it has left say what it has done so far and,
\* unless a failure was reported, what still disagrees.
THEOREM OperationsInvariant == Spec => [](Types /\ Inv)
<1>1. Init => Types /\ Inv
  BY InitInv
<1>2. Types /\ Inv /\ [Next]_vars => (Types /\ Inv)'
  BY StepInv
<1> QED BY <1>1, <1>2, PTL DEF Spec

LEMMA InvImplies ==
  ASSUME Types, Inv
  PROVE  TypeOK /\ ManagedFilesAgree
<1>1. work.todo = << >> <=> work.cmd = None
  <2>1. CASE work.cmd = None
    BY <2>1 DEF Inv, InProgram, Idle
  <2>2. CASE work.cmd # None
    <3>1. IsEndOf(work.todo, Program(work.cmd))
      BY <2>2 DEF Inv, InProgram
    <3>2. 0 < Len(work.todo) /\ Len(<< >>) = 0
      BY <3>1 DEF IsEndOf
    <3> QED BY <2>2, <3>2
  <2> QED BY <2>1, <2>2
<1>2. TypeOK
  BY <1>1 DEF Types, TypeOK
<1>3. ASSUME work = Idle, ~warned
      PROVE  /\ env.db = pgConf /\ env.whole
             /\ nginx.redirect = nginx.https /\ nginx.http # nginx.https
             /\ keyless \/ env.key = dbKey
             /\ \A s \in Services : status[s] = "Running" => fresh[s]
  <2>1. work.cmd = None /\ Left = 0
    BY <1>3 DEF Idle, Left
  <2>2. Agreement(None, 0)
    BY <1>3, <2>1 DEF Inv, InOrder
  <2>3. \A s \in Services : ~Stale(s)
    BY <2>2 DEF Agreement, WaitsForRestart, None
  <2> QED BY <2>2, <2>3 DEF Agreement, Restoring, WaitsForRestart, None, Stale, Inv, ListenInv
<1> QED BY <1>2, <1>3 DEF ManagedFilesAgree

\* TypeOK always holds: whatever the operator asks for and whatever fails, the
\* worker has a known call in hand exactly while it has a command in hand.
THEOREM ToolTypes == Spec => []TypeOK
<1>1. Types /\ Inv => TypeOK
  BY InvImplies
<1> QED BY <1>1, OperationsInvariant, PTL

\* ManagedFilesAgree always holds: an idle tool that has reported no failure
\* leaves the values it writes in agreement (the database port of .env and of
\* postgresql.conf, the redirect, .env and the key) and no service running on
\* older ones.  Nothing is promised of the proxy_pass port of nginx.conf and the
\* origins of .env, which no command writes.
THEOREM ToolFilesAgree == Spec => []ManagedFilesAgree
<1>1. Types /\ Inv => ManagedFilesAgree
  BY InvImplies
<1> QED BY <1>1, OperationsInvariant, PTL

\* The event "succeeded" is sent by the last call of a program only.
LEMMA SucceedsAtTheEnd ==
  ASSUME Types, Inv, [Next]_vars, NEW c \in Commands, Succeeds(c)
  PROVE  Done(c, 0)'
<1>1. events \in Seq(Marks) /\ work.cmd = c /\ events' = Append(events, "succeeded")
  BY DEF Types, Marks, Succeeds
<1>2. ASSUME NEW e, e # "succeeded" PROVE events' # Append(events, e)
  <2>1. /\ Append(events, "succeeded")[Len(events) + 1] = "succeeded"
        /\ Append(events, e)[Len(events) + 1] = e
    <3>1. PICK S : S = Marks \cup {e, "succeeded"}
      OBVIOUS
    <3>2. events \in Seq(S) /\ e \in S /\ "succeeded" \in S
      BY <1>1, <3>1
    <3> QED BY <3>2
  <2> QED BY <1>1, <1>2, <2>1
<1>3. events' # events /\ events' # << >>
  <2>1. Len(events') = Len(events) + 1 /\ Len(events) \in Nat /\ Len(<< >>) = 0
    BY <1>1 DEF Marks
  <2> QED BY <2>1
<1>4. WorkerCall
  <2>1. ~TakeCommand
    BY <1>2, <1>3 DEF TakeCommand
  <2>2. ~WindowStep
    BY <1>3 DEF WindowStep, PressButton, SavePorts, AnswerConflict, DrainEvents
  <2>3. \A s \in Services : ~(ServiceSettles(s) \/ ServiceFails(s))
    BY <1>3 DEF ServiceSettles, ServiceFails
  <2>4. ~CloseTool /\ ~UNCHANGED vars
    BY <1>3 DEF CloseTool, vars
  <2> QED BY <2>1, <2>2, <2>3, <2>4 DEF Next, WorkerStep, WorkerCall, WindowStep
<1>5. PICK k : k = Left
  OBVIOUS
<1>6. Keeps(c, k)
  BY <1>1, <1>4, <1>5, CallKeeps
<1>7. Ends /\ InOrder(c, k - 1)'
  BY <1>2, <1>3, <1>6 DEF Keeps, Gives, Advances, Retries
<1>8. k - 1 = 0
  BY <1>5, <1>7 DEF Ends
<1> QED BY <1>7, <1>8 DEF InOrder

LEMMA DoneAccomplished ==
  ASSUME Types', ListenInv', NEW c \in Commands, Done(c, 0)'
  PROVE  Accomplished(c)'
<1>1. CASE c.op = "ApplyFrontendPorts"
  <2>1. nginx'.https = c.port /\ nginx'.http = c.http /\ Restarted(Frontend, 0)'
    BY <1>1 DEF Done
  <2>2. nginx'.redirect = c.port
    BY <2>1 DEF ListenInv
  <2> QED BY <1>1, <2>1, <2>2 DEF Accomplished, Restarted, UpWithNewest
<1>2. CASE c.op # "ApplyFrontendPorts"
  BY <1>2 DEF Done, Restarted, Accomplished, UpWithNewest, Stale, Commands, PortCommands,
              ServiceCommands, OtherCommands
<1> QED BY <1>1, <1>2

\* SuccessMeansApplied: a command is reported as succeeded only in a step after
\* which the files it writes hold its values and the service it restarts has been
\* started with them; after a restore, a backend that runs was started on the
\* restored .env, but it need not run.
THEOREM ToolSuccessMeansApplied == Spec => SuccessMeansApplied
<1>1. ASSUME Types, Inv, [Next]_vars, (Types /\ Inv)'
      PROVE  \A c \in Commands : Succeeds(c) => Accomplished(c)'
  <2> SUFFICES ASSUME NEW c \in Commands, Succeeds(c) PROVE Accomplished(c)'
    OBVIOUS
  <2>1. Done(c, 0)'
    BY <1>1, SucceedsAtTheEnd
  <2>2. Types' /\ ListenInv'
    BY <1>1 DEF Inv
  <2> QED BY <2>1, <2>2, DoneAccomplished
<1> QED BY <1>1, OperationsInvariant, PTL DEF Spec, SuccessMeansApplied
=============================================================================
