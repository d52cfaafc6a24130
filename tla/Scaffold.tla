------------------------------ MODULE Scaffold ------------------------------
(* The commands that write a project's tree: startproject and startapp       *)
(* (management/scaffold.go) and makemigration (management/project_commands.go,*)
(* migrations.Scaffolder). Each file operation is a step that may fail; tools *)
(* overlap and may be killed. A path is a place in the tree of a project,    *)
(* with the app and the migration it is of. Of an app's sources only app.go  *)
(* is told from the rest, and of a project's own files the two that later    *)
(* commands read.                                                            *)
EXTENDS Naturals, FiniteSets, Functions

CONSTANTS
  Apps, Names,       \* names of apps and of migrations
  Tools, NoTool,     \* each runs one command; who made what was there before
  MaxSecond,         \* bound on the clock
  MaxFaults          \* bound on operations that fail and tools killed

ASSUME ToolsAssumption == NoTool \notin Tools

VARIABLES
  fs,        \* the paths that exist: who made them, state, apps registered
  tool,      \* of each tool: where it is in its command
  second,    \* the clock, in seconds
  faults,
  \* history, for the properties alone
  disturbed, \* a tool was killed, could not write the registry, or overlapped
             \* another that writes it
  spoiled,   \* a tool was killed or failed while it wrote a migration
  uprooted   \* a directory was removed with files of another tool in it

vars == <<fs, tool, second, faults, disturbed, spoiled, uprooted>>

Place(where, a) ==
  [where |-> where, app |-> a, stamp |-> 0, name |-> "none", side |-> "none"]

Nowhere    == Place("nowhere", "none")
Root       == Place("root", "none")
Skeleton   == {Place("marker", "none"), Place("go.mod", "none")}
Internal   == Place("internal", "none")
AppsGo     == Place("apps.go", "none")
CommandsGo == Place("commands.go", "none")
AppsDir    == Place("apps", "none")
AppDir(a)  == Place("app", a)
AppGo(a)   == Place("app.go", a)
Sources(a) == {AppGo(a), Place("rest", a)}
SubDir(a)  == Place("migrations", a)
Migration(a, s, n, side) ==
  [where |-> "migration", app |-> a, stamp |-> s, name |-> n, side |-> side]

\* The directories a path is in.
Above(x) ==
  CASE x.where \in {"marker", "go.mod", "internal", "apps"} -> {Root}
    [] x.where \in {"apps.go", "commands.go"} -> {Root, Internal}
    [] x.where = "app" -> {Root, AppsDir}
    [] x.where \in {"app.go", "rest", "migrations"} -> {Root, AppsDir, AppDir(x.app)}
    [] x.where = "migration" -> {Root, AppsDir, AppDir(x.app), SubDir(x.app)}
    [] OTHER -> {}

Node(p, state) == [by |-> p, state |-> state, apps |-> {}]
Registry == {AppsGo, CommandsGo}

Exists(x) == x \in DOMAIN fs
Whole(x) == Exists(x) /\ fs[x].state = "whole"
Below(d) == {x \in DOMAIN fs : x = d \/ d \in Above(x)}

\* With paths that are not there yet: os.MkdirAll, and files opened O_EXCL.
Adding(p, paths, state) ==
  [x \in DOMAIN fs \cup paths |-> IF Exists(x) THEN fs[x] ELSE Node(p, state)]

\* The project as go build takes it: what is registered must be there.
Compiles ==
  /\ \A x \in Skeleton \cup Registry : Whole(x)
  /\ \A a \in fs[AppsGo].apps \cup fs[CommandsGo].apps :
       \A x \in Sources(a) : Whole(x)

Idle == [at |-> "idle", kind |-> "none", app |-> "none", name |-> "none",
         how |-> "none", own |-> Nowhere, written |-> {}, seen |-> {},
         stamp |-> 0, answer |-> "none"]

\* A project as earlier commands leave it, or none.
Made(apps) ==
  [x \in {Root, Internal, AppsDir} \cup Skeleton \cup Registry
           \cup UNION {Sources(a) \cup {AppDir(a), SubDir(a)} : a \in apps} |->
     [Node(NoTool, "whole") EXCEPT !.apps = IF x \in Registry THEN apps ELSE {}]]

Init ==
  /\ fs \in {<<>>} \cup {Made(apps) : apps \in SUBSET Apps}
  /\ tool = [p \in Tools |-> Idle]
  /\ second = 0 /\ faults = 0 /\ disturbed = FALSE /\ spoiled = FALSE
  /\ uprooted = FALSE
-----------------------------------------------------------------------------
At(p, at) == tool[p].at = at
Busy(p) == tool[p].at \notin {"idle", "done", "killed"}
Go(p, to) == tool' = [tool EXCEPT ![p].at = to]
End(p, answer) == tool' = [tool EXCEPT ![p].at = "done", ![p].answer = answer]

Registers(p) == Busy(p) /\ tool[p].kind \in {"startproject", "startapp"}
Rest == UNCHANGED <<second, faults, disturbed, spoiled, uprooted>>

\* Mutant: the deferred removal is set up before the directory is made.
AbortRemoving(p, own) ==
  LET d == IF tool[p].kind = "startapp" THEN AppDir(tool[p].app) ELSE own IN
  tool' = [tool EXCEPT ![p].at = IF d = Nowhere THEN "done" ELSE "cleanup",
                       ![p].own = d, ![p].answer = "failed"]

\* An error return: the deferred removal runs once the directory is made.
Abort(p, own) ==
  tool' = [tool EXCEPT ![p].at = IF own = Nowhere THEN "done" ELSE "cleanup",
                       ![p].answer = "failed"]

Begin(p) ==
  /\ At(p, "idle")
  /\ \/ tool' = [tool EXCEPT ![p].kind = "startproject", ![p].at = "mkdir"]
     \/ \E a \in Apps :
          tool' = [tool EXCEPT ![p].kind = "startapp", ![p].at = "discover",
                               ![p].app = a]
     \/ \E a \in Apps, n \in Names, h \in {"named", "inside", "alone"} :
          /\ h = "inside" => Exists(AppDir(a))
          /\ tool' = [tool EXCEPT
               ![p].kind = "makemigration", ![p].at = "compile",
               ![p].app = a, ![p].name = n, ![p].how = h]
  /\ disturbed' = (disturbed \/ \E q \in Tools : Registers(q))
  /\ UNCHANGED <<fs, second, faults, spoiled, uprooted>>

\* DiscoverProject, and moduleName's reading of go.mod.
Discover(p) ==
  /\ At(p, "discover")
  /\ IF \A x \in Skeleton : Exists(x) THEN Go(p, "mkdir") ELSE Abort(p, Nowhere)
  /\ UNCHANGED fs /\ Rest

\* os.Mkdir of the project's or the app's directory, which fails if it exists.
Mkdir(p) ==
  LET d == IF tool[p].kind = "startproject" THEN Root ELSE AppDir(tool[p].app)
  IN
  /\ At(p, "mkdir")
  /\ IF Exists(d) \/ ~(d = Root \/ Exists(AppsDir))
     THEN Abort(p, tool[p].own) /\ UNCHANGED fs
     ELSE /\ fs' = Adding(p, {d}, "whole")
          /\ tool' = [tool EXCEPT ![p].at = "dirs", ![p].own = d]
  /\ Rest

\* The directories below it: MkdirAll for a project, Mkdir for an app.
Dirs(p) ==
  /\ At(p, "dirs")
  /\ IF tool[p].kind = "startproject"
     THEN /\ fs' = Adding(p, {Root, Internal, AppsDir}, "whole")
          /\ Go(p, "files")
     ELSE IF Exists(tool[p].own) /\ ~Exists(SubDir(tool[p].app))
          THEN /\ fs' = Adding(p, {SubDir(tool[p].app)}, "whole")
               /\ Go(p, "files")
          ELSE Abort(p, tool[p].own) /\ UNCHANGED fs
  /\ Rest

Planned(p) == IF tool[p].kind = "startproject" THEN Skeleton
              ELSE Sources(tool[p].app)

\* writeNew, in the order of a Go map: directories as needed, then O_EXCL.
WriteNew(p) ==
  /\ At(p, "files")
  /\ \E x \in Planned(p) \ tool[p].written :
       IF Exists(x)
       THEN Abort(p, tool[p].own) /\ UNCHANGED fs
       ELSE /\ fs' = Adding(p, {x} \cup Above(x), "whole")
            /\ tool' = [tool EXCEPT ![p].written = @ \cup {x}]
  /\ Rest

FilesDone(p) ==
  /\ At(p, "files") /\ tool[p].written = Planned(p)
  /\ tool' = [tool EXCEPT ![p].written = {}, ![p].at =
       IF tool[p].kind = "startproject" THEN "open apps" ELSE "readdir"]
  /\ UNCHANGED fs /\ Rest

\* appDirectories: the entries, then a Stat of each one's app.go.
ReadDir(p) ==
  /\ At(p, "readdir")
  /\ IF ~Exists(AppsDir) THEN Abort(p, tool[p].own)
     ELSE tool' = [tool EXCEPT ![p].at = "stat",
                     ![p].seen = {a \in Apps : Exists(AppDir(a))}]
  /\ UNCHANGED fs /\ Rest

\* Mutant: the new app is not among them.
StatOthers(p) ==
  /\ At(p, "stat")
  /\ tool' = [tool EXCEPT ![p].at = "open apps",
                          ![p].seen = tool[p].seen \ {tool[p].app}]
  /\ UNCHANGED fs /\ Rest

Stat(p) ==
  /\ At(p, "stat")
  /\ tool' = [tool EXCEPT ![p].at = "open apps",
       ![p].seen = {a \in tool[p].seen : Exists(AppGo(a))}]
  /\ UNCHANGED fs /\ Rest

\* writeAppRegistry: os.WriteFile of one file, which truncates it, and writes;
\* then of the other. A writer between the two leaves what it wrote longer.
File(p) == IF tool[p].at \in {"open apps", "write apps"} THEN AppsGo
           ELSE CommandsGo

OpenRegistry(p) ==
  /\ tool[p].at \in {"open apps", "open commands"}
  /\ IF Exists(Internal)
     THEN /\ fs' = [x \in DOMAIN fs \cup {File(p)} |->
                     IF x = File(p) THEN Node(p, "partial") ELSE fs[x]]
          /\ Go(p, IF At(p, "open apps") THEN "write apps"
                   ELSE "write commands")
     ELSE Abort(p, tool[p].own) /\ UNCHANGED fs
  /\ Rest

WriteRegistry(p) ==
  LET x == File(p) IN
  /\ tool[p].at \in {"write apps", "write commands"}
  /\ IF Exists(x)
     THEN \E state \in {"whole", "partial"} :
            /\ fs[x].apps \subseteq tool[p].seen => state = "whole"
            /\ fs' = [fs EXCEPT ![x] = [by |-> p, state |-> state,
                        apps |-> IF state = "whole" THEN tool[p].seen
                                 ELSE {}]]
     ELSE UNCHANGED fs                    \* removed while it was open
  /\ IF At(p, "write apps") THEN Go(p, "open commands")
     ELSE IF tool[p].kind = "startproject" THEN Go(p, "tidy")
     ELSE End(p, "ok")
  /\ Rest

\* go mod tidy: its failure is one of those below.
Tidy(p) ==
  /\ At(p, "tidy")
  /\ End(p, "ok")
  /\ UNCHANGED fs /\ Rest

\* Mutant: the directory stays.
CleanupNothing(p) ==
  /\ At(p, "cleanup")
  /\ End(p, "failed")
  /\ UNCHANGED fs /\ Rest

\* os.RemoveAll of the directory that was made.
Cleanup(p) ==
  /\ At(p, "cleanup")
  /\ fs' = Restrict(fs, DOMAIN fs \ Below(tool[p].own))
  /\ uprooted' = (uprooted \/ \E x \in Below(tool[p].own) : fs[x].by # p)
  /\ End(p, "failed")
  /\ UNCHANGED <<second, faults, disturbed, spoiled>>
-----------------------------------------------------------------------------
(* makemigration, in the compiled management program.                        *)

Compile(p) ==
  /\ At(p, "compile")
  /\ IF Compiles
     THEN tool' = [tool EXCEPT ![p].at = "select",
                               ![p].seen = fs[AppsGo].apps]
     ELSE Abort(p, Nowhere)
  /\ UNCHANGED fs /\ Rest

\* selectMigrationApp: --app, the app of the working directory, or the only
\* registered one that has a directory.
Selected(p) ==
  LET a == tool[p].app  h == tool[p].how IN
  /\ a \in tool[p].seen
  /\ h \in {"named", "inside"} => Exists(AppDir(a))
  /\ h = "alone" => {b \in tool[p].seen : Exists(AppDir(b))} = {a}

Select(p) ==
  /\ At(p, "select")
  /\ IF Selected(p) /\ \A x \in Skeleton : Exists(x)
     THEN tool' = [tool EXCEPT ![p].at = "stat pair", ![p].stamp = second]
     ELSE Abort(p, Nowhere)
  /\ UNCHANGED fs /\ Rest

Pair(p, side) ==
  Migration(tool[p].app, tool[p].stamp, tool[p].name, side)

\* Scaffolder.Create: MkdirAll, and neither side may exist.
StatPair(p) ==
  /\ At(p, "stat pair")
  /\ LET d == SubDir(tool[p].app)
     IN  fs' = Adding(p, {d} \cup Above(d), "whole")
  /\ IF \E side \in {"up", "down"} : Exists(Pair(p, side))
     THEN Abort(p, Nowhere) ELSE Go(p, "up")
  /\ Rest

FreeSide(x) == ~Exists(x) /\ Exists(SubDir(x.app))

\* writeExclusive of each side; without the second the first is removed.
WriteUp(p) ==
  /\ At(p, "up")
  /\ IF FreeSide(Pair(p, "up"))
     THEN /\ fs' = Adding(p, {Pair(p, "up")}, "whole")
          /\ Go(p, "down")
     ELSE Abort(p, Nowhere) /\ UNCHANGED fs
  /\ Rest

WriteDown(p) ==
  /\ At(p, "down")
  /\ IF FreeSide(Pair(p, "down"))
     THEN /\ fs' = Adding(p, {Pair(p, "down")}, "whole")
          /\ End(p, "ok")
     ELSE Go(p, "undo") /\ UNCHANGED fs
  /\ Rest

\* Mutant: the first side is left when the second cannot be made.
UndoNothing(p) ==
  /\ At(p, "undo")
  /\ End(p, "failed")
  /\ UNCHANGED fs /\ Rest

Undo(p) ==
  /\ At(p, "undo")
  /\ fs' = Restrict(fs, DOMAIN fs \ {Pair(p, "up")})
  /\ End(p, "failed")
  /\ Rest
-----------------------------------------------------------------------------
(* Faults, and time.                                                         *)

Fault(n) == faults + n <= MaxFaults /\ faults' = faults + n

\* An operation fails and changes nothing.
Fails(p) ==
  /\ Busy(p) /\ tool[p].at \notin {"cleanup", "undo", "select", "compile"}
  /\ Fault(1)
  /\ IF At(p, "down") THEN Go(p, "undo") ELSE Abort(p, tool[p].own)
  /\ disturbed' = (disturbed \/ tool[p].at \in
       {"open apps", "write apps", "open commands", "write commands"})
  /\ UNCHANGED <<fs, second, spoiled, uprooted>>

\* A file is made and its content is not: nothing removes a migration's.
WriteFails(p) ==
  /\ \/ /\ At(p, "files")
        /\ \E x \in Planned(p) \ tool[p].written :
             /\ ~Exists(x)
             /\ fs' = Adding(p, {x} \cup Above(x), "partial")
        /\ Abort(p, tool[p].own)
        /\ UNCHANGED spoiled
     \/ \E side \in {"up", "down"} :
          /\ At(p, side) /\ FreeSide(Pair(p, side))
          /\ fs' = Adding(p, {Pair(p, side)}, "partial")
          /\ IF side = "up" THEN Abort(p, Nowhere) ELSE Go(p, "undo")
          /\ spoiled' = TRUE
  /\ Fault(1)
  /\ UNCHANGED <<second, disturbed, uprooted>>

Killed(p) ==
  /\ Busy(p) /\ Fault(1)
  /\ Go(p, "killed")
  /\ disturbed' = (disturbed \/ Registers(p))
  /\ spoiled' = (spoiled \/ tool[p].kind = "makemigration")
  /\ UNCHANGED <<fs, second, uprooted>>

Tick ==
  /\ second < MaxSecond /\ second' = second + 1
  /\ UNCHANGED <<fs, tool, faults, disturbed, spoiled, uprooted>>

Step(p) ==
  \/ Begin(p) \/ Discover(p) \/ Mkdir(p) \/ Dirs(p) \/ WriteNew(p)
  \/ FilesDone(p) \/ ReadDir(p) \/ Stat(p) \/ OpenRegistry(p)
  \/ WriteRegistry(p) \/ Tidy(p) \/ Cleanup(p)
  \/ Compile(p) \/ Select(p) \/ StatPair(p) \/ WriteUp(p) \/ WriteDown(p)
  \/ Undo(p) \/ Fails(p) \/ WriteFails(p) \/ Killed(p)

Quiet == \A p \in Tools : ~Busy(p)

Next == Tick \/ (\E p \in Tools : Step(p)) \/ (Quiet /\ UNCHANGED vars)

Spec == Init /\ [][Next]_vars
-----------------------------------------------------------------------------
(* Properties.                                                               *)

Dir(x) == x.where \in {"root", "internal", "apps", "app", "migrations"}
IsMigration(x) == x.where = "migration"

\* A command changes or removes only what it made or what is in a directory it
\* made, besides the two registry files (Mkdir and O_EXCL refuse what is
\* there, and the removals after an error run only once they succeeded). Once
\* such a removal has taken a file that another was at work with, that one may
\* undo what a third has put in its place.
OthersFilesKept ==
  [][~uprooted => \A p \in Tools : tool'[p] # tool[p] =>
       \A x \in DOMAIN fs \ Registry :
         (x \in DOMAIN fs' /\ fs'[x] = fs[x])
           \/ \E d \in {x} \cup Above(x) : Exists(d) /\ fs[d].by = p]_vars

\* A command that answered with an error has left no file behind, unless it is
\* a registry file or a migration whose writing failed, and startproject and
\* startapp not their directory either (the deferred RemoveAll).
FailureLeavesNothing ==
  \A p \in Tools : At(p, "done") /\ tool[p].answer = "failed" =>
    /\ \A x \in DOMAIN fs \ Registry :
         fs[x].by = p => Dir(x) \/ (IsMigration(x) /\ fs[x].state = "partial")
    /\ tool[p].own \in DOMAIN fs => fs[tool[p].own].by # p

\* As long as the commands that write the registry neither overlap nor are
\* killed nor fail to write it, each of them leaves a project that builds,
\* with exactly the apps that have a directory (writeAppRegistry from
\* appDirectories; the other cases do break the build, see README).
RegistryMatchesApps ==
  ~disturbed /\ Exists(Root) /\ (\A p \in Tools : ~Registers(p)) =>
    /\ Compiles
    /\ \A x \in Registry : fs[x].apps = {a \in Apps : Exists(AppDir(a))}

Migrations == {x \in DOMAIN fs : IsMigration(x)}

\* migrations.Collect over every app: each identity, the 14 digits of a name,
\* belongs to one migration, and a migration has both sides.
Usable ==
  /\ \A x \in Migrations, y \in Migrations :
       x.stamp = y.stamp => x.name = y.name /\ x.app = y.app
  /\ \A x \in Migrations, side \in {"up", "down"} :
       Migration(x.app, x.stamp, x.name, side) \in Migrations

\* What makemigration writes, migrate can collect: when no makemigration is
\* under way the catalogue is usable, unless one was cut off or could not
\* write what it had opened, two were made within one second, or one was made
\* for an app whose directory was removed, startapp having failed.
CatalogueUsable ==
  /\ ~spoiled /\ ~uprooted
  /\ \A p \in Tools : Busy(p) => tool[p].kind # "makemigration"
  =>
    \/ Usable
    \/ \E p, q \in Tools :
         /\ p # q /\ tool[p].stamp = tool[q].stamp
         /\ \A t \in {p, q} : tool[t].kind = "makemigration"
                              /\ tool[t].answer = "ok"
=============================================================================
