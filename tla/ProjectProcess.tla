---------------------------- MODULE ProjectProcess ----------------------------
(* The two programs of a generated project (management/scaffold.go) from     *)
(* start to exit: cmd/server, which opens the pool (database/database.go),   *)
(* assembles the site and calls Serve (ServerLifecycle), and cmd/manage with *)
(* its commands (management/project_cli.go, project_commands.go), which open *)
(* what they need and close it. Either reads its settings as env/env.go      *)
(* does. A process is a course of stages; any of them may fail.              *)
EXTENDS ServerLifecycle, Sequences

VARIABLES
  how,       \* the program, and what its caller gave it
  stage,     \* the stages left
  settings,  \* what Schema.Load assigned
  pool,      \* the database pool: none, open or closed
  read,      \* of stdin: the lines taken, the field each was kept for
  failed,    \* a stage has failed
  signalled, \* an interrupt was sent
  status     \* "running", then the exit status

process == <<how, stage, settings, pool, read, failed, signalled, status>>

ServerCourse ==
  <<"load", "open", "configure", "assemble", "listen", "serve", "close">>

\* cmd/manage configures first; openMigrations does so again.
MigrateCourse ==
  <<"configure", "load", "open", "configure", "collect", "run", "close">>
SuperuserCourse ==
  <<"configure", "username", "email", "password", "load", "open", "run", "close">>
PasswordCourse == <<"configure", "password", "load", "open", "run", "close">>
CheckCourse == <<"configure", "check">>

Courses ==
  [server |-> ServerCourse, migrate |-> MigrateCourse,
   superuser |-> SuperuserCourse, password |-> PasswordCourse,
   check |-> CheckCourse]

Sources == {"environment", "dotenv"}

\* A variable is absent, or has a value that its type does or does not parse;
\* the address of the database is text, so that any value will do. A SQLite
\* project declares it with a default.
Values == [url : {"absent", "good"}, port : {"absent", "good", "bad"}]
Defaulted == IF how.sqlite THEN {"url", "port"} ELSE {"port"}
Declared == IF how.program = "server" THEN {"url", "port"} ELSE {"url"}

NoSettings == [url |-> "unset", port |-> "unset"]

\* The fields that are asked for; the others are given, by a flag or the
\* environment.
Askable(p) ==
  CASE p = "superuser" -> {"username", "email", "password"}
    [] p = "password" -> {"password"}
    [] OTHER -> {}

ProcessInit ==
  /\ Init
  /\ \E p \in DOMAIN Courses : \E asked \in SUBSET Askable(p) :
       how \in [program : {p}, sqlite : BOOLEAN, file : {"missing", "broken", "read"},
               values : [Sources -> Values], stdin : {"terminal", "pipe"},
               asked : {asked}]
  /\ stage = Courses[how.program]
  /\ settings = NoSettings /\ pool = "none" /\ failed = FALSE
  /\ read = [lines |-> 0, kept |-> [username |-> 0, email |-> 0, password |-> 0]]
  /\ signalled = FALSE /\ status = "running"
-----------------------------------------------------------------------------
At(s) == status = "running" /\ stage # <<>> /\ Head(stage) = s

Proceed == stage' = Tail(stage) /\ UNCHANGED status
Exit(s) == stage' = <<>> /\ status' = s

\* Mutant: main runs its deferred calls on every path.
AbortDeferring(s) ==
  /\ failed' = TRUE
  /\ IF pool = "open" THEN stage' = <<"close">> /\ UNCHANGED status ELSE Exit(s)

\* cmd/server leaves by os.Exit, which runs no deferred call. A command
\* returns, and withService's deferred cleanup, or the Close that openMigrations
\* joins to its error, runs first.
Abort(s) ==
  /\ failed' = TRUE
  /\ IF how.program # "server" /\ pool = "open"
       THEN stage' = <<"close">> /\ UNCHANGED status
       ELSE Exit(s)

\* An error without a status of its own is a usage error of the command.
Code == IF Head(stage) \in {"username", "email", "password"} THEN "usage" ELSE "failure"

\* A stage that only succeeds or fails: Configure and what it validates
\* (project.New), the parts of the site, Listen, the catalogue and the runner,
\* the checks, and what a command is for. Listen's socket is Serve's listener.
Plain == {"configure", "assemble", "listen", "collect", "check", "run"}

Passes ==
  /\ \E s \in Plain : At(s)
  /\ Proceed
  /\ UNCHANGED <<how, settings, pool, read, failed, signalled, vars>>

Fails ==
  /\ \E s \in Plain : At(s)
  /\ Abort(Code)
  /\ UNCHANGED <<how, settings, pool, read, signalled, vars>>
-----------------------------------------------------------------------------
(* Settings                                                                  *)

\* Mutant: what .env says counts.
FoundInFile(v) ==
  IF how.file = "read" /\ how.values["dotenv"][v] # "absent" THEN "dotenv"
  ELSE IF how.values["environment"][v] # "absent" THEN "environment" ELSE "nowhere"

\* Where Load finds a value: the process environment covers .env.
Found(v) ==
  IF how.values["environment"][v] # "absent" THEN "environment"
  ELSE IF how.file = "read" /\ how.values["dotenv"][v] # "absent" THEN "dotenv"
  ELSE "nowhere"

Parses(v) ==
  IF Found(v) = "nowhere" THEN v \in Defaulted ELSE how.values[Found(v)][v] = "good"

\* Schema.Load: assigns everything or, with one wrong declaration, nothing.
Load ==
  /\ At("load")
  /\ IF how.file # "broken" /\ \A v \in Declared : Parses(v)
       THEN /\ settings' = [v \in DOMAIN settings |->
                              IF v \in Declared THEN Found(v) ELSE "unset"]
            /\ Proceed /\ UNCHANGED failed
       ELSE Abort("failure") /\ UNCHANGED settings
  /\ UNCHANGED <<how, pool, read, signalled, vars>>
-----------------------------------------------------------------------------
(* The pool                                                                  *)

\* database.Open: the configuration is refused, or the pool is made and
\* pinged, and closed again if the ping fails.
Open ==
  /\ At("open")
  /\ \/ pool' = "open" /\ Proceed /\ UNCHANGED failed
     \/ pool' \in {"none", "closed"} /\ Abort("failure")
  /\ UNCHANGED <<how, settings, read, signalled, vars>>

\* The deferred Close. A command joins its error to its own; the server's
\* main looks at no error of its deferred calls.
Close ==
  /\ At("close") /\ pool' = "closed"
  /\ \E error \in BOOLEAN :
       LET wrong == failed \/ (error /\ how.program # "server")
       IN  Exit(IF wrong THEN "failure" ELSE "ok") /\ failed' = wrong
  /\ UNCHANGED <<how, settings, read, signalled, vars>>

\* A command without a pool returns.
Return ==
  /\ status = "running" /\ stage = <<>> /\ Exit("ok")
  /\ UNCHANGED <<how, settings, pool, read, failed, signalled, vars>>
-----------------------------------------------------------------------------
(* What a command asks on stdin                                              *)

\* A terminal hands over a line at a time, a pipe as many as there are; the
\* lines beyond the first stay in the buffer of the scanner and are lost.
Taken == IF how.stdin = "terminal" THEN {1} ELSE 1 .. Cardinality(how.asked) - read.lines

\* promptLine and commandPassword, each with a scanner of its own. There are
\* as many lines as fields (a password typed twice is one); with none left the
\* input has ended.
Ask(f) ==
  /\ At(f) /\ f \in how.asked
  /\ \/ \E n \in Taken :
          /\ read' = [lines |-> read.lines + n,
                      kept |-> [read.kept EXCEPT ![f] = read.lines + 1]]
          /\ Proceed /\ UNCHANGED failed
     \/ UNCHANGED read /\ Abort(Code)
  /\ UNCHANGED <<how, settings, pool, signalled, vars>>

\* It is given; --noinput without it, or an empty value, fails.
Given(f) ==
  /\ At(f) /\ f \notin how.asked
  /\ \/ Proceed /\ UNCHANGED failed
     \/ Abort(Code)
  /\ UNCHANGED <<how, settings, pool, read, signalled, vars>>
-----------------------------------------------------------------------------
(* Serving                                                                   *)

\* Serve's own steps, and what happens to it.
Runs == At("serve") /\ UNCHANGED process

ServerWorks == Runs /\ (Goroutine \/ Serve)
ServerMeets ==
  Runs /\ (ListenerFails \/ \E r \in Requests : Accept(r) \/ Finish(r))
DeadlineComes == Runs /\ DeadlinePasses

\* main goes on with what Serve returned.
Served ==
  /\ At("serve") /\ main = "returned"
  /\ IF errors = {} THEN Proceed /\ UNCHANGED failed ELSE Abort("failure")
  /\ UNCHANGED <<how, settings, pool, read, signalled, vars>>

\* While Serve runs an interrupt ends its context (signal.NotifyContext);
\* before, and once the deferred stop has run, it ends the process.
Interrupt ==
  /\ status = "running" /\ signalled' = TRUE
  /\ IF At("serve") THEN Cancel /\ UNCHANGED <<stage, status>>
     ELSE Exit("killed") /\ UNCHANGED vars
  /\ UNCHANGED <<how, settings, pool, read, failed>>

Works ==
  Passes \/ Fails \/ Load \/ Open \/ Close \/ Return \/ Served
    \/ \E f \in {"username", "email", "password"} : Ask(f) \/ Given(f)

Ended == status # "running" /\ UNCHANGED <<process, vars>>

ProcessNext ==
  Works \/ ServerWorks \/ ServerMeets \/ DeadlineComes \/ Interrupt \/ Ended

\* A process that can go on does, and timers fire.
ProcessFairness ==
  /\ WF_<<process, vars>>(Works) /\ WF_<<process, vars>>(ServerWorks)
  /\ WF_<<process, vars>>(DeadlineComes)

ProcessSpec ==
  ProcessInit /\ [][ProcessNext]_<<process, vars>> /\ ProcessFairness
-----------------------------------------------------------------------------
(* Correctness                                                               *)

\* The server's pool is closed only when no handler is left that could use it,
\* whether its request was answered or its connection was cut (main defers the
\* Close and leaves by os.Exit when Serve reports an error).
PoolOutlivesHandlers ==
  pool = "closed" => \A r \in Requests : request[r] \in {"none", "finished"}

\* A command returns with its pool closed ("Database-owning commands always
\* close their pool before returning"). It reports success only if all of it
\* succeeded, with the settings of the strongest source, and with each field
\* from its line of stdin, where that is a terminal or is read once.
ExitsClean ==
  /\ how.program # "server" /\ status \notin {"running", "killed"} => pool # "open"
  /\ status = "ok" =>
       /\ ~failed
       /\ \A v \in {v \in DOMAIN settings : settings[v] # "unset"} :
            settings[v] # "environment" => how.values["environment"][v] = "absent"
       /\ how.stdin = "terminal" \/ Cardinality(how.asked) <= 1 =>
            \A f \in how.asked : read.kept[f] =
              Cardinality({g \in how.asked : read.kept[g] \in 1 .. read.kept[f]})

\* An interrupt ends the process wherever it is, the server with handlers that
\* never return.
SignalEnds == signalled ~> status # "running"
=============================================================================
