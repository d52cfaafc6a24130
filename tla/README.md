# GoDjangGo in TLA+

Models, model-checking configurations and machine-checked proofs for
GoDjangGo, a Django-like web framework in Go. Paths such as `web/session.go`
are paths of the repository; `PROJECT.json` maps every definition of every
module to the lines it models.

## 1. The system

| Component | Code | State it keeps | Operations |
| --- | --- | --- | --- |
| Authenticated sessions | `web/auth_http.go`, `web/session.go`, `auth/session.go`, `auth/token.go`, `auth/models.go` | browser cookies, the data of a session in the context of its request, `auth_sessions`, `auth_users.password_hash` and `is_active` | login, logout, password change, reset request and confirmation, the session and authentication middleware around every request |
| Session storage | `web/session_store.go`, `auth/session_store.go` | `auth_sessions(session_key, data, expires_at)` | find (with deletion of what has expired), commit, delete, delete all expired |
| CSRF protection | `web/csrf.go` | a secret per browser (cookie) or per session (row), masked in pages | load or create, re-issue, rotate, validate with the origin |
| Account store | `auth/bun_store.go`, `auth/manager.go`, `auth/permissions.go` | users, groups, permissions and the three join tables | create, look up (row, then access), grant, add to group, transactions |
| Password hashing | `auth/password.go` | none | encode, check |
| Migrations | `migrations/migrations.go` | bookkeeping table, lock table, the schema itself, migration files | collect, create a pair, status, apply, rollback |
| Database lifecycle | `database/database.go` | a pool, closed once | open, ping, close, transaction |
| Server lifecycle | `web/server.go` | listener, connections, the result of the serving goroutine | serve, shut down, close |
| Process supervision | `management/process*.go` | child process group, signal channel, result channel | start, forward, cancel, kill, wait, exit code |
| Management CLI | `management/global_cli.go`, `project_cli.go`, `project_commands.go`, `dbshell.go`, `test_command.go`, `cmd/godjango` | none of its own | commands over the other components |
| Scaffolding | `management/scaffold.go` | a directory tree, `apps.go` and `commands.go` | startproject, startapp |
| Project registry | `project/project.go` | settings and apps, frozen at construction | new, check |
| Environment | `env/env.go` | targets of a schema | load with precedence and defaults |
| Request pipeline | `web/security.go`, `stateless.go`, `bodylimit.go`, `router.go`, `form.go` | none | wrap a request: proxy, request id, recovery, headers, limits, exemptions |
| Views | `web/view` | none | render HTML |

How they interact. A request of the generated server passes TrustedProxy,
RequestID, Recover, SecurityHeaders and BodyLimits, then, unless its path is
declared stateless, the session, CSRF and authentication middleware, and
reaches a handler. The session middleware is SCS's `LoadAndSave` over
`web.SessionStore`, which is two methods over `auth.BunStore`; it loads the
session before the handlers run and commits it when the first byte of the
answer is written. The CSRF middleware keeps its secret in a cookie of its own
or in that session. The account handlers call `auth.Manager`, whose store is
the same `BunStore`. The management program opens the same database: its
`changepassword` changes hashes under the feet of running requests, and its
`migrate` runs concurrently with other operators' processes, excluded only by
a row in the lock table. `runserver` and `dbshell` are child processes that
the command supervises, forwarding signals.

What is hard here. Handlers run concurrently, each statement of each one in a
transaction of its own: everything read is stale by the next statement.
Sessions live in three places at once (table, memory of every request in
flight, cookie). Operators' processes die with locks held. Signals,
cancellation and exits race. The list of hazards, each at its line, is
`PROJECT.json` "hazards".

## 2. Plan

Done, in the order it was planned: a component's module, a run of it, and the
proofs of what the run checks.

| Module | Extends | Checked by | Proved in |
| --- | --- | --- | --- |
| `SessionAuth` | | `sessions`, `logout_resurrected` | `SessionAuthProofs` |
| `MigrationHistory`, `Migrations` | (refinement) | `migrations` | `MigrationsProofs` |
| `CSRF` | | `csrf`, `csrf_unrotated` | `CSRFProofs` |
| `ProcessSupervisor` | | `process_chain`, `interrupt_lost` | `ProcessSupervisorProofs` |
| `ServerLifecycle` | | `project_process` | `ProjectProcessProofs` |
| `ProjectProcess` | `ServerLifecycle` | `project_process` | `ProjectProcessProofs` |
| `SessionStore` | | `stores` | `StoresProofs` |
| `AuthStore` | | `stores` | `StoresProofs` |
| `Scaffold` | | `scaffold` | `ScaffoldProofs` |
| `RequestPipeline` | | `pipeline`, `limit_order` | `RequestPipelineProofs` |

Left: an abstract access control that `SessionAuth` refines; what `Serve`
promises its caller as a specification of its own; one composition of
`SessionAuth` with `SessionStore`, in which a session that expires is also
somebody's.

## 3. Modules

### SessionAuth, MCSessionAuth, SessionAuthProofs

State: the user table (`hash`, `active`), the sessions table (`stored`,
`row`), the browsers' `cookie`s, and for every request its progress `pc`, what
was sent, the SCS data of its session, the user in its context (`current`),
the user whose password it has verified (`checked`) and its `setCookie`.

An action is one database call of one request with the code that follows it up
to the next call, so the steps of different requests interleave exactly where
the database lets them. `Load`, `Admit`, `Reject` and `Drop` are the two
middlewares; `LoginAccepted` and then `SwitchUser`, `SignIn` or `SignInAgain`
the three cases of `auth.Login`; `ChangeAccepted`, `Save`, `Cycle` the three
calls of a password change; `MailLink` and `LinkAccepted`, `Save` the reset
flow; the `Commit` actions the end of `LoadAndSave`. Every database call may
fail (`...Fails`), and an answer may be lost (`Receive`). `ChangePassword` is
the management command, `Deactivate` an operator's statement.

A password is abstracted to its hash: `SetPassword` always stores a freshly
salted one. Session tokens are never repeated, which is what 256 random bits
are for; `Unissued` says so, and a mutant shows what depends on it. CSRF and
expiry are left out, which only allows more behaviours: nothing here relies on
a request being refused or a row expiring. `SessionStore` has the expiry.

### MigrationHistory, Migrations, MCMigrations, MigrationsProofs

`MigrationHistory` is what the bookkeeping table promises: a stack of groups
in catalog order, to which an apply adds at the top and from which a rollback
takes, one migration at a time, the newest group.

`Migrations` is how `Runner.Apply` and `Runner.Rollback` keep it over Bun's
migrator: `Begin`, `Lock` (or `LockRefused`), `Plan` (read the bookkeeping,
choose the migrations and the group number), then `Run` and `Record` for each
of them, and the deferred `Unlock`. State: the `schema` (migrations in
effect), the bookkeeping table `group`, the `lock` row, and for each process
its `pc`, `command`, `todo` and group `number`. Every statement may fail, with
or without its effect where the database may have committed before the answer
was lost; a process may die between any two (`Crash`); an operator removes the
row of a dead process (`RemoveStaleLock`, docs/migrations.md). The lock row
names no owner, and unlocking deletes whatever row is there, so that mutual
exclusion is a property of the control flow and not of the table. Ghost
`torn` collects the migrations whose SQL and bookkeeping a fault or a death
separated; `cutOff` the processes whose lock or unlock statement failed.

All processes are assumed to run one catalog. A rollback after a death between
a migration's SQL and its record takes down a migration beneath the unrecorded
one: the schema is then no prefix of the catalog. That is why the properties
about the schema speak of migrations that are not torn.

### CSRF, MCCSRF, CSRFProofs

The middleware of `web/csrf.go` in both modes, over the sessions of
`web/session.go` reduced to a user and a secret. A masked token is the secret
it unmasks to. `Enter` is the whole of `CSRF.Middleware` before the handler:
it finds or generates the secret, saves it in every case, and lets an unsafe
request through only with that secret (a mismatched `Origin` or a form that
does not parse is a refusal that may always happen). `Admit` and `Drop` are
the authentication middleware, whose decision is left open here since
`SessionAuth` settles it; `ShowForm`, `Post`, `SignIn`, `SwitchUser`,
`SignInAgain`, `Logout` and `ChangePassword` the handlers; `Cycle` is
`requestSession.Cycle` with `rotateCSRFState`; `Commit` the end of
`LoadAndSave`; `Receive` the browser, in whatever order answers come. Unsafe
requests present any secret ever shown to any browser. Random values are
numbered in the order of their generation, two secrets and one token at most
for a request.

Only two handlers reach `rotateCSRFState`, through `requestSession.Cycle`: the
login of an anonymous session and the password change. A login over another
user's session and a logout flush the session, which takes away a secret that
is kept in it and leaves one that is kept in the cookie; a login as the same
user changes neither. The history `changed` records which of the five a
request did, `retired` what its browser had been shown when the answer came,
and `replays` which of them lie between the showing of the secret a request
presents and the sending of that request. `RotationRetiresSecret` says of every
one of the five whether it retires what was shown before it, with the
exceptions spelled out in `Unrotated`.

### ProcessSupervisor, ProcessSupervisorProofs

A chain of processes: `godjango` compiles and runs `cmd/manage`, which for
`runserver` compiles and runs `cmd/server`. Each supervisor is one
`runAttached` after the other: `Start`, then the three cases of its `select`
(`Waited`, `Forward`, `Terminate`), `Kill` after two seconds, and
`WaitedCancelled`. Delivery of a signal (`Deliver`) is what the kernel and
`os/signal` do: the default action where nothing is notified, one place in the
channel where it is, SIGKILL always. Compilers and programs may heed a signal
or not, end by themselves or not, and a program may read the terminal
(`ReadTerminal`), which stops it because `Setpgid` has put it in a background
group. `Status` and `ExitCode` are the exit status that the code makes of all
this.

### ServerLifecycle

`Server.Serve`: `TakeServed` and `TakeDone` are the cases of its `select`,
`ShutdownIdle` and `ShutdownExpires` the two ends of `Shutdown`, the second
with the `Close` that follows it, and `Drain` the last receive. The goroutine,
the accept loop and the states of the listener are net/http as `Serve` relies
on it: a server that is closing refuses a listener it has not tracked yet, and
reports `ErrServerClosed` whatever happened to the listener.

### ProjectProcess, ProjectProcessProofs

The two programs of a generated project from start to exit. A process is a
course of stages, which `Courses` lists in the order of its `main` or command:
`cmd/server` loads its settings, opens the pool, configures, assembles the
site, listens, serves and closes; `cmd/manage` has `migrate`,
`createsuperuser`, `changepassword` and `check`. `Passes` and `Fails` are the
stages that only succeed or fail; `Load` is `Schema.Load` (the environment
over `.env` over the default, everything assigned or nothing), `Open` is
`database.Open` with its ping, `Ask` a prompt that reads a line of stdin with
a scanner of its own, and `Runs` the stage in which the process takes the
steps of `ServerLifecycle`. `Abort` is the end of a failed process: the
commands return and their deferred `Close` runs, the server leaves by
`os.Exit`, which runs none. `Interrupt` cancels the context of `Serve`, and at
any other stage ends the process as Go's default does. The order of the stages is
the code's: `cmd/server` opens its pool before it builds the project
(`management/scaffold.go:143`, `151`), although docs/projects.md:36-38 has the
project built "before a database or listener is opened".

The scanners of several prompts read ahead: on a pipe the first takes what was
meant for the second. `ExitsClean` therefore speaks of a terminal or of one
prompt.

### SessionStore, AuthStore, MCStores, StoresProofs

`SessionStore` is the life of a row. `FindCtx` is three steps: `Find`, its
SELECT (`web/session_store.go:48`), `Compare`, the reading of the clock and the
comparison with the expiry that was read (line 55), and `Expire`, its DELETE
(line 56); a session that is not found begins with `Start`, whose deadline is
from yet another reading of the clock. `Stamp` and `Upsert` are the reading of
the clock and the statement of a commit, `Renew` and `Renewed`, `Destroy` and
`Rewrite` what handlers do to a session, `Sweep` the deletion of all that has
expired. A row expires at the deadline of its session
or, with an idle timeout, at its last write plus that timeout if that is
earlier. The history variables hold when a token was generated and last
written with, whose row a handler deleted (`over`), whose had expired at some
moment (`lapsed`), and which a find took for expired although their row was
live by then (`overtaken`). `LiveRowKept` excludes the last two. `FindCtx`
compares what it has read and deletes by key what is there: when another
request refreshes the row after the SELECT and the clock then passes the
expiry that was read, a session goes that has not been expired for a moment.
The property says that this is the only way.

`AuthStore` is a set of rows, each a tuple of its table and keys, closed under
the foreign keys. A call is a creation, one of the grants, a transaction
around a grant, or a permission check; each statement is an action, and
`Operator` writes whatever SQL an operator may. `moments` is the history the
properties need: the contents of the database since the call began. A grant
that inserted nothing asks in a second statement whether its objects exist
(`GrantExists`), and a lookup reads user, direct and group permissions in three
(`ReadUser`, `ReadDirect`, `ReadGroups`), so that neither answer is that of one
moment; the properties say what each is an answer to. Foreign keys are
enforced on both databases (`database/database.go:117` for SQLite).

The two stores share no row, so `MCStores` puts either at rest while the other
works: every interleaving of the two is a shuffle of the two alone.

### Scaffold, MCScaffold, ScaffoldProofs

`startproject`, `startapp` and `makemigration`, one file operation per step,
over a tree of paths that says of each who made it and whether it is whole. A
path is a place in the layout of a project (`Place`, with the app it belongs
to) or one side of a migration; `Above` are the directories it lies in, which
every file operation needs, and `Below` what a removal takes with it.
`Begin`, `Discover` and `Mkdir` are the entry of each command, `Dirs`,
`WriteNew` and `FilesDone` the files of the project or app, `ReadDir`, `Stat`,
`StatOthers`, `OpenRegistry` and `WriteRegistry` the two registry files,
`Select`, `StatPair`, `WriteUp` and `WriteDown` the pair of a migration,
`Tidy` the `go mod tidy` at the end, `Compile` the build of `cmd/manage` that
precedes `makemigration`; `Cleanup` and `Undo` what is removed after an error. An operation
may fail (`Fails`, `WriteFails`), a tool may be killed (`Killed`), and the clock
that stamps migrations moves in seconds (`Tick`).

Three histories delimit the properties, because without each of them the
property fails:

- `disturbed`: two commands that write the registry overlapped, or one was
  killed or could not write it. `apps.go` and `commands.go` are written one
  after the other and in place; a failure of the second leaves the first
  naming an app whose directory is then removed, and the build is broken.
- `spoiled`: a `makemigration` was killed or failed while it wrote. A half
  written pair or file stays, and the collection refuses it.
- `uprooted`: `startapp` failed after another tool had put files in its
  directory, which it removes with all that is in it.

### RequestPipeline, MCPipeline, RequestPipelineProofs

One request through the chain that a generated server assembles. `Dial` and
`Forward` are the browser and the proxies, which append to, replace or repeat
the forwarding headers; `TrustedProxy`, `RequestID`, `Recover`,
`SecurityHeaders`, `BodyLimits`, `Sessions`, `CSRF` and `Authentication` are
the middlewares in the order of `main`, `Route` the guards, `Handle` a handler
that reads, redirects or panics, and `Panic` the way back to `Recover`. A site
is a deployment: the networks it declares, how its proxies state what they
saw, the prefixes it limits or declares stateless. `CleanPath` is
`path.Clean`, which decides both which limit and whether state applies, while
the router matches the path as it was sent.

A header is the sequence of its entries with the line each came in, so that
what joins several lines is told from what reads the first. `Outside` is
`forwardedAddresses`: one entry of `X-Forwarded-For` that is no address, an
empty one included, and the whole header counts for nothing
(`web/security.go:389-393`). A client can bring this about with a line of its
own; the code then answers the address of the peer, and never one that the
client has named. `limitOf` and `prefixes` are what `BodyLimits.Middleware`
makes of the declared limits once, before any request: a map of normalised
prefixes and their list, sorted by length in any order that agrees with it. The
map is filled in the order in which a Go map is iterated, `Filled` are its
possible contents and `Init` chooses one. They differ where two declared
prefixes normalise to one: `web/bodylimit.go:87-88` says that the order does
not decide, and `limit_order` shows that it does. `WithinLimit` speaks of the
paths whose longest prefix has one limit. In front of the
router the generated server has a `ServeMux`, which redirects unclean paths
and serves `GET /healthz` without the chain; the model lets those requests
through the chain too, which only adds behaviours.

## 4. Runs

| Run | Instance | What it shows |
| --- | --- | --- |
| `sessions` | 3 requests; either 2 users in 2 browsers with 1 failing call, or 1 account with every kind of request and 1 operator's act | No interleaving of login, switch of user, password change and late commit gives a browser an identity it has not proved, or one token two users; a request sent after a password change, a deactivation or the use of its reset link is not served on what is gone; an ended session never identifies anybody again. |
| `logout_resurrected` (violated) | 1 user, 3 requests | A request that overlaps a logout commits the row again. |
| `migrations` | 3 processes, 3 migrations, 1 fault, 1 death | Exclusion, no migration twice, bookkeeping follows the schema, the lock is released on every path, the records are a stack of groups, and a run that has started ends: a stale lock refuses, it never blocks. |
| `csrf` | 4 requests, 2 overlapping; cookie mode with 1 user and 2 browsers, and with 2 users and 1 browser; session mode with 2 users and 1 browser | An unsafe request carries a secret shown to its own browser; anonymous traffic writes no row and its form on screen can be submitted; a sign-in or password change retires what was shown before it, and in session mode so does a logout or another user's login; a secret shown to a session as one user is not accepted from it as another. |
| `csrf_unrotated` (violated) | cookie mode with 2 users and 1 browser, 6 requests, one after the other | A secret outlives a login over another user's session and a logout. |
| `process_chain` | chain of 3, 2 signals to any process, cancellation, a program that reads the terminal | Nobody is left behind, exit statuses pass up, an interrupt is no success, a cancelled command ends whatever its children do, and one that forwarded a signal ends if its child heeds it. |
| `interrupt_lost` (violated) | chain of 2, 1 signal | An interrupt between two commands is forgotten. |
| `project_process` | 5 programs, 3 requests, every environment, `.env` file and stdin, any stage failing, an interrupt anywhere | One goroutine and one result, nil only if everything was answered, errors that happened; a pool that outlives the handlers and is closed by every command; and an interrupt ends the process. |
| `stores` | 1 user, group and permission, 2 calls, 1 operator's statement; 3 requests, lifetime 3, idle timeout none or 2, clock up to 4 | What a grant answers and what a permission check decides was true of a moment of the call; a session is served only in its time, and its row goes only when it is over, has expired, or is overtaken by a find. |
| `scaffold` | 2 apps, 1 migration name, 3 tools, 2 seconds, 1 fault or kill | What a failed command leaves behind, whose files a command touches, when the project builds and when its migrations can be collected. |
| `pipeline` | 18 deployments behind up to 2 proxies, their clients sending addresses, blank and unparsable entries and repeated lines; 7 without proxies, for every path of up to 3 segments under 6 sets of limits and 3 of stateless prefixes | Whose address and scheme a request carries, what it may read, and that the three stateful middlewares run together or not at all. |
| `limit_order` (violated) | limits of 1 and 3 for `/api` and `/api/` | The order in which a Go map is iterated decides which of the two a request gets. |

The violated runs are disagreements between the code and its comments or
docs; `PROJECT.json` "findings" quotes both sides and describes the behaviour
TLC finds.

Some conditions in the properties are there because the models show that the
property fails without them:

- `LinkNotReplayed` speaks of a confirmation sent after the link was used: two
  that overlap both pass the check and both set a password.
- `RotationRetiresSecret` leaves out what `Unrotated` lists: a login as the same
  user, and with the secret in the cookie a login over another user's session
  and a logout. The docs claim rotation for all of them (`csrf_unrotated`). It
  also asks that no other answer be outstanding: a page requested before a login
  and received after it sets the CSRF cookie back to the old secret.
- `SecretOfOneUser` speaks of session mode: with the cookie, a user who signs in
  over another's session is shown, and may present, the same secret.
- `LiveRowKept` leaves out the rows that a find has `overtaken`.
- `ForwardedEnds` asks that no child be stopped: a child runs in a background
  process group, where reading the terminal stops it.
- `ExitsClean` asks for a terminal or a single prompt, because of the scanners
  that read ahead.
- `ClientNotForged` gives a client its own address where every proxy adds to
  the header and every entry of it parses, the client's included; in any case it
  gives it none that did not connect.
- `WithinLimit` asks that the longest prefix have one limit (`limit_order`).

Bounds, and why they are enough. Interference needs two requests or processes
in flight and a third that comes after them to see the result; three requests
(`Requests`) give every such pattern, and the CSRF runs use four or six
because a form has to be shown before it can be submitted, with `MaxOverlap`
of them in flight at once; six are a form, a sign-in, a page, another user's
sign-in, a logout and a replay. Two users are needed for a switch of user, two
browsers for one to present what another was shown; where neither matters the
runs use one. `MaxFaults`, `MaxCrashes`, `MaxEdits` and the operator's
`MaxAdmin` of one are the single faults and interferences that error paths are
written for; the theorems of section 6 hold for any number. Three migrations
make a group of two that is cut in the middle and a third applied on top;
`MaxGroup` of three is as many groups as the catalog can make. Two signals are
needed to fill a channel of capacity one. A lifetime of three with an idle
timeout of two lets a session be refreshed and still reach its deadline, and
`MaxTime` lies beyond it. One user, group and permission give both ways of
holding a permission, and two calls what one does to another. Two apps are the
least with one to keep when the other is removed; `MaxSecond` tells migrations
of one second from later ones. Three segments make a `..` that leaves a prefix
and enters another.

Some runs have several instances in one: a variable that never changes
(`instance`, `site`, `store`) chooses which users, browsers, kinds of request
and budgets take part. `MCSessionAuth` takes tokens and fresh hashes in one
order (`InOrder`): the definitions only compare them, so every behaviour has
an equivalent one in that order. Symmetry is used with invariants and action
properties alone, over requests, browsers, users, clients, tools and apps, where no
definition tells two of them apart; since the instance is part of the state,
only states of one instance are ever identified.

`CHECK_DEADLOCK FALSE` is given for `ProcessSupervisor` alone, where all
processes really end. In the other modules `Quiet`, `Ended` or `AllAnswered`
marks the only states in which nothing is left to do.

## 5. Fairness

Safety does not depend on fairness. `Terminates` assumes that every statement
of a started migration process returns or fails (`WF` of `Step`), which its
context and the driver give it. `ProcessSupervisor` assumes that `runAttached`
takes a step that stays possible, the timer's included (`WF` of
`Supervise(i)`); `CancelEnds` asks nothing of the children, while
`ForwardedEnds` has `Heeding` as its premise: compilers end, and children end
once signalled. `interrupt_lost` is checked under the same premise
(`HeedingSpec`). `SignalEnds` of `ProjectProcess` assumes that the stages end
in success or failure (`Works`), that goroutines are scheduled
(`ServerWorks`) and that the shutdown deadline passes (`DeadlineComes`); no
handler has to finish and no connection to come.

## 6. Proofs

For every value of the constants: any number of users, browsers, requests,
processes, migrations, failures, deaths and signals.

`SessionAuthProofs`: `IInv` is inductive, and from it `Authenticity`,
`Revocation`, `Deactivation`, `ResetLinksWorkOnce`, `NoSessionFixation` and
`EndedSessionsStayEnded`. None of the properties is inductive by itself:
`ServedIdentityProved` speaks of requests that are being served, and a session
may wait in a cookie, a row or another request's memory before it serves
anyone. So the invariant says of each place a token can be in that it belongs
to one browser (`TokensWithTheirHolder`), of each place an identity can be in
that its browser proved it (`IdentitiesProved`), that a hash in force has not
been superseded (`HashesInForce`), and that what was revoked when a request
was sent is revoked still (`RevokedStaysRevoked`).

`MigrationsProofs`: mutual exclusion, that bookkeeping agrees with the schema
but for torn migrations, that no migration runs twice, that the lock is
released on every path, and that `Migrations` implements `MigrationHistory`.
The invariant: the row in the lock table is that of the process between lock
and unlock (`OwnersOnly`), so the plan it read stays true while it works
(`PlanHolds`), so the records are a prefix of the catalog whose groups do not
decrease (`RecordsAreAStack`), which is what the refinement mapping needs.

`CSRFProofs`: the five properties of the run, in both modes. Every token and
every secret, whether in a cookie, a request, a form or a row, is of one
browser (`TokensOfOneBrowser`, `SecretsOfOneBrowser`), and in session mode a
secret is of one user (`SecretsOfOneUser`). What a sign-in or password change
has generated is `Private` to its request until its answer is received, and a
request that has flushed a session which had the secret is `Blank`: it brings
back neither the token nor the secret. So nothing can carry what was retired
any more but for the changes of `Unrotated` (`RetiredAreDead`). Nearly
every action is an instance of one `Local` step of one request, whose effect
on each part of the invariant is a lemma of its own.

`ProcessSupervisorProofs`: no process outlives the one that waits for it, a
status passed up has its cause below, and a forwarded signal never ends in
success, for a chain of any length. The invariant says what each place of a
supervisor implies (`Place`: it has only the child of its command, and only
inside the loop), what its exit code rests on (`Warrant`) and how it can have
ended (`Ended`).

`ProjectProcessProofs`: first the safety properties of `Serve` alone, from
what each place of it implies (`AtSelect`, `AtShutdown`, `AtDrain`,
`AtReturned`). Then every step of a process is a step of `ServerLifecycle` or
leaves it alone (`ServesAsSpecified`), and `PInv`, which says where in its
course a process can have requests and where a closed pool, gives `PoolLast`.
For `CleanExits`, `ExitInv` says at which stages of a command the pool is open
and that none ends with it open (`CommandCourse`), that a setting comes from
`.env` only where the environment has none (`StrongestSource`), and which line
each prompt that has been asked was given (`LinesKept`).

`StoresProofs`: a row is there as long as its session is live and no find has
overtaken it, and a session is served in its time. The deadlines and expiries of rows and of
loaded copies are bounded by the history (when the token was generated, when
it was last written with), and the tokens generated are counted by the
requests that have `Spent` theirs. Of the account store the invariant says for
each place of a call what it has seen in one of the `moments` of the call.

`RequestPipelineProofs`: the four properties of the run, for any networks,
addresses, paths, limits and number of proxies. The invariant follows the
request inward: what every hop has left at the end of the forwarding headers
(`Stages`), what `TrustedProxy` makes of them (`Trusted`), the limit before and
behind `BodyLimits` (`Bounded`), which middleware has run at each place
(`Together`), and whose form may pass (`SchemeUsed`). The lemmas about `Nearest`
say that the walk from the last entry ends at the nearest hop outside the
networks if every entry of the header parses, and there or at the peer in any
case; those about `LimitAt` that the first match in the sorted list is a longest
one. Nothing depends on how `CleanPath` cleans.

`ScaffoldProofs`: the four properties of the run, for any apps, names and
tools and any bounds on the clock and the faults. The properties hold while
one history or another is false, and so does each part of the invariant. At
all times: the tree is closed upward (`Tree`), a command is where its kind can
be (`Course`), and what a tool has made is in the directory it made, the
registry or its own migration (`Mine`), which gives `ErrorsLeaveNothing`. While
no removal took others' files, a tool still has its directory and the first
side of its pair (`Holding`), which gives `OthersAreKept`. While the registry's
writers neither overlapped nor were cut off, one command at most registers;
`Progress` says how far it has brought the registry and that the sources of
every other app are whole, and `Settled` are the apps that no `startapp` can
still remove, among which a `makemigration` has found its own (`Undisturbed`).
`Catalogued` says that every side of a migration is its maker's, who either is
about to write or remove the other or has succeeded with both.

The proofs rest on assumptions about constants alone, named in the modules:
that the values for "none" are not
members of the sets they stand beside, that the sets of requests are finite
where they are counted, that bounds, lifetimes and idle timeouts are natural
numbers, and that users start with different hashes.

Only model-checked: liveness (`Terminates`, `CancelEnds`, `ForwardedEnds`,
`SignalEnds`), which the prover does not reach. Every other property of a
passing run is a theorem.

## 7. What is not modelled

- Password hashing and the masking of CSRF tokens are computations on data,
  represented by the equality of what they protect.
- Views render text; the templates of the scaffolder are text but for the
  programs and the chain they make.
- Form validation, the texts of security headers, the parsing of flags and of
  environment values, the translation of a database URL for `dbshell` and of
  arguments for `go test`, and which names the registry refuses, are
  conversions of text without state.
- `process_other.go` is the variant for systems without signals.
- Migrations by dialect: one catalog stands for either.
- The limits of the connection pool and SQLite's pragmas are configuration.
- The fixtures of the end-to-end tests are no part of the program.
