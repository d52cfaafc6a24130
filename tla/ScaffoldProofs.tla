--------------------------- MODULE ScaffoldProofs ---------------------------
(* Proofs about Scaffold, for any apps, names and tools, and without the      *)
(* bounds on the clock and the faults. The invariant says of each tool what   *)
(* it has made, what it can rely on while nobody has interfered, and how far  *)
(* the registry is at each step of the one command that writes it.            *)
EXTENDS Scaffold, TLAPS

\* What a tool and a tree are made of.
Directories == {"root", "internal", "apps", "app", "migrations"}
Wheres == Directories \cup {"nowhere", "marker", "go.mod", "apps.go", "commands.go",
                            "app.go", "rest", "migration"}
Paths == [where : Wheres, app : Apps \cup {"none"}, stamp : Nat,
          name : Names \cup {"none"}, side : {"none", "up", "down"}]
Nodes == [by : Tools \cup {NoTool}, state : {"whole", "partial"}, apps : SUBSET Apps]

Registering == {"open apps", "write apps", "open commands", "write commands"}
Making      == {"dirs", "files", "readdir", "stat", "tidy", "cleanup"} \cup Registering
Migrating   == {"compile", "select", "stat pair", "up", "down", "undo"}
Stages == {"idle", "discover", "mkdir", "done", "killed"} \cup Making \cup Migrating

Command == [at : Stages, kind : {"none", "startproject", "startapp", "makemigration"},
            app : Apps \cup {"none"}, name : Names \cup {"none"},
            how : {"none", "named", "inside", "alone"}, own : Paths,
            written : SUBSET Paths, seen : SUBSET Apps, stamp : Nat,
            answer : {"none", "ok", "failed"}]

Typed ==
  /\ DOMAIN fs \subseteq Paths /\ \A x \in DOMAIN fs : fs[x] \in Nodes
  /\ tool \in [Tools -> Command] /\ second \in Nat
  /\ disturbed \in BOOLEAN /\ spoiled \in BOOLEAN /\ uprooted \in BOOLEAN

\* A path is in directories that are there.
Tree == \A x \in DOMAIN fs : x.where # "nowhere" /\ Above(x) \subseteq DOMAIN fs

\* Where each command can be, and which directory it has made.
Home(p) == IF tool[p].kind = "startproject" THEN Root ELSE AppDir(tool[p].app)

Course(p) ==
  LET t == tool[p]
  IN  /\ t.at = "idle" <=> t.kind = "none"
      /\ t.at = "idle" => t = Idle
      /\ t.at \in {"idle", "discover", "mkdir", "dirs"} => t.written = {}
      /\ t.kind = "startproject" => t.app = "none" /\ t.seen = {}
      /\ t.kind \in {"startapp", "makemigration"} => t.app \in Apps
      /\ t.at \in Migrating => t.kind = "makemigration"
      /\ t.at \in Making \cup {"mkdir", "discover"} =>
           t.kind \in {"startproject", "startapp"}
      /\ t.at \in {"readdir", "stat", "discover"} => t.kind = "startapp"
      /\ t.at = "tidy" => t.kind = "startproject"
      /\ t.at = "files" => t.written \subseteq Planned(p)
      /\ t.own \in {Nowhere, Home(p)}
      /\ t.at \in {"idle", "discover", "mkdir"} => t.own = Nowhere
      /\ t.at \in Making => t.own = Home(p)
      /\ t.kind = "makemigration" => t.own = Nowhere
      /\ t.at = "done" => t.answer # "none"
      /\ t.answer = "ok" => t.at = "done"
      /\ t.answer = "failed" => t.at \in {"cleanup", "done", "killed"}

Sides(p) == {Pair(p, "up"), Pair(p, "down")}
Failed(p) == At(p, "done") /\ tool[p].answer = "failed"

\* What a tool has made: nothing before it runs, and nothing of its own
\* directory after it has failed; the first side of a migration while the
\* second is not made.
Mine(p) ==
  LET t == tool[p]
  IN  \A x \in DOMAIN fs : fs[x].by = p =>
        /\ t.at \notin {"idle", "compile", "select"}
        /\ t.kind \in {"startproject", "startapp"} =>
             /\ Dir(x) \/ x \in Registry \/ t.own \in Above(x)
             /\ Failed(p) => t.own # x /\ t.own \notin Above(x)
        /\ t.kind = "makemigration" =>
             \/ Dir(x)
             \/ /\ x \in Sides(p)
                /\ \/ fs[x].state = "partial" \/ t.at = "killed" \/ t.answer = "ok"
                   \/ x = Pair(p, "up") /\ t.at \in {"down", "undo"}

\* What a tool can count on while no removal has taken others' files with it:
\* its directory, and the first side of its migration.
Holding(p) ==
  LET t == tool[p]
  IN  /\ Busy(p) /\ t.own # Nowhere => Exists(t.own) /\ fs[t.own].by = p
      /\ t.at \in {"down", "undo"} =>
           Exists(Pair(p, "up")) /\ fs[Pair(p, "up")].by = p

\* The apps that have a directory, and what the registry says of them.
Present == {a \in Apps : Exists(AppDir(a))}
Lists(x, apps) == Whole(x) /\ fs[x].apps = apps
Blank(x) == Exists(x) /\ fs[x].apps = {}
Sound(apps) == \A a \in apps : \A x \in Sources(a) : Whole(x)
Kept(apps) == (\A x \in Skeleton : Whole(x)) /\ Sound(apps)
Built == Kept(Present) /\ Lists(AppsGo, Present) /\ Lists(CommandsGo, Present)

\* How far the command is that writes it.
Progress(p) ==
  LET t == tool[p]
      others == Present \ {t.app}
  IN  /\ t.at \in {"discover", "mkdir"} => (Exists(Root) => Built)
      /\ t.at \in Making =>
           /\ t.kind = "startproject" =>
                Present = {} /\ (Exists(AppsGo) => Blank(AppsGo))
           /\ t.kind = "startapp" =>
                /\ Exists(AppDir(t.app)) /\ Kept(others)
                /\ t.at \notin Registering \ {"open apps"} => Lists(AppsGo, others)
                /\ t.at # "write commands" => Lists(CommandsGo, others)
           /\ t.at = "files" => \A x \in t.written : Whole(x)
           /\ t.at \in {"readdir", "stat", "tidy"} \cup Registering =>
                \A x \in Planned(p) : Whole(x)
           /\ t.at \in {"stat"} \cup Registering => t.seen = Present
           /\ t.at = "write apps" => Blank(AppsGo)
           /\ t.at \in {"open commands", "write commands", "tidy"} =>
                Lists(AppsGo, Present)
           /\ t.at = "write commands" => Blank(CommandsGo)
           /\ t.at = "tidy" => Lists(CommandsGo, Present)

\* The apps that no command is going to remove.
Calm == {"discover", "mkdir", "open commands", "write commands"}
Settled ==
  {a \in Present : \A p \in Tools :
     Registers(p) /\ tool[p].kind = "startapp" /\ tool[p].app = a => tool[p].at \in Calm}

Undisturbed ==
  /\ \A p, q \in Tools : Registers(p) /\ Registers(q) => p = q
  /\ (\A p \in Tools : ~Registers(p)) /\ Exists(Root) => Built
  /\ \A p \in Tools : Registers(p) => Progress(p)
  /\ \A p \in Tools :
       /\ tool[p].at = "select" => tool[p].seen \subseteq Settled
       /\ tool[p].at = "stat pair" => tool[p].app \in Settled

\* Every file of a migration is one that its maker keeps or will remove.
Catalogued ==
  /\ \A x \in Migrations : \E p \in Tools :
       /\ fs[x].by = p /\ tool[p].kind = "makemigration"
       /\ \/ x = Pair(p, "up") /\ tool[p].at \in {"down", "undo"}
          \/ x \in Sides(p) /\ tool[p].answer = "ok"
  /\ \A p \in Tools :
       tool[p].kind = "makemigration" /\ tool[p].answer = "ok" =>
         \A x \in Sides(p) : Exists(x) /\ fs[x].by = p

IInv ==
  /\ Typed /\ Tree
  /\ \A p \in Tools : Course(p) /\ Mine(p)
  /\ ~uprooted => \A p \in Tools : Holding(p)
  /\ ~disturbed => Undisturbed
  /\ ~spoiled /\ ~uprooted => Catalogued
-----------------------------------------------------------------------------
(* Paths and trees                                                           *)

\* Where the paths are.
LEMMA PlaceOf ==
  /\ Nowhere.where = "nowhere" /\ Root.where = "root" /\ Internal.where = "internal"
  /\ AppsGo.where = "apps.go" /\ CommandsGo.where = "commands.go"
  /\ AppsDir.where = "apps"
  /\ \A x \in Skeleton : x.where \in {"marker", "go.mod"}
  /\ \A x \in Registry : x.where \in {"apps.go", "commands.go"}
BY DEF Place, Nowhere, Root, Internal, AppsGo, CommandsGo, AppsDir, Skeleton, Registry

LEMMA PlaceIn ==
  ASSUME NEW a
  PROVE  /\ AppDir(a).where = "app" /\ AppDir(a).app = a
         /\ AppGo(a).where = "app.go" /\ AppGo(a).app = a
         /\ SubDir(a).where = "migrations" /\ SubDir(a).app = a
         /\ \A x \in Sources(a) : x.where \in {"app.go", "rest"} /\ x.app = a
         /\ AppGo(a) \in Sources(a)
BY DEF Place, AppDir, AppGo, SubDir, Sources

LEMMA HomeIs ==
  ASSUME NEW p
  PROVE  Home(p).where \in {"root", "app"} /\ Home(p) # Nowhere
<1>1. AppDir(tool[p].app).where = "app"
  BY PlaceIn
<1>2. Home(p).where \in {"root", "app"}
  BY <1>1, PlaceOf DEF Home
<1> QED
  BY <1>2, PlaceOf

LEMMA SideOf ==
  ASSUME NEW p, NEW side
  PROVE  /\ Pair(p, side).where = "migration" /\ Pair(p, side).side = side
         /\ Pair(p, side).app = tool[p].app /\ Pair(p, side).name = tool[p].name
         /\ Pair(p, side).stamp = tool[p].stamp
BY DEF Pair, Migration

LEMMA PathTypes ==
  /\ {Nowhere, Root, Internal, AppsGo, CommandsGo, AppsDir} \subseteq Paths
  /\ Skeleton \subseteq Paths /\ Registry \subseteq Paths
  /\ \A a \in Apps \cup {"none"} :
       AppDir(a) \in Paths /\ SubDir(a) \in Paths /\ Sources(a) \subseteq Paths
<1>1. \A w \in Wheres, a \in Apps \cup {"none"} : Place(w, a) \in Paths
  BY DEF Place, Paths
<1>2. "none" \in Apps \cup {"none"}
  OBVIOUS
<1>3. {Nowhere, Root, Internal, AppsGo, CommandsGo, AppsDir} \subseteq Paths
  BY <1>1, <1>2
     DEF Nowhere, Root, Internal, AppsGo, CommandsGo, AppsDir, Wheres, Directories
<1>4. Skeleton \subseteq Paths /\ Registry \subseteq Paths
  BY <1>1, <1>2, <1>3 DEF Skeleton, Registry, Wheres, Directories
<1>5. ASSUME NEW a \in Apps \cup {"none"}
      PROVE  AppDir(a) \in Paths /\ SubDir(a) \in Paths /\ Sources(a) \subseteq Paths
  BY <1>1 DEF AppDir, SubDir, Sources, AppGo, Wheres, Directories
<1> QED
  BY <1>3, <1>4, <1>5

\* What is above a path, by where it is.
LEMMA AboveOf ==
  ASSUME NEW x
  PROVE  /\ x.where \in {"root", "nowhere"} => Above(x) = {}
         /\ x.where \in {"marker", "go.mod", "internal", "apps"} => Above(x) = {Root}
         /\ x.where \in {"apps.go", "commands.go"} => Above(x) = {Root, Internal}
         /\ x.where = "app" => Above(x) = {Root, AppsDir}
         /\ x.where \in {"app.go", "rest", "migrations"} =>
              Above(x) = {Root, AppsDir, AppDir(x.app)}
         /\ x.where = "migration" =>
              Above(x) = {Root, AppsDir, AppDir(x.app), SubDir(x.app)}
BY DEF Above

\* Directories are above, and what is above them.
LEMMA AboveAbove ==
  ASSUME NEW x, x.where \in Wheres, NEW d \in Above(x)
  PROVE  /\ Above(d) \subseteq Above(x)
         /\ d.where \in Directories
         /\ d = Root \/ Root \in Above(d)
         /\ x.where # "nowhere" /\ x # d
<1>1. d.where \in Directories
  BY AboveOf, PlaceOf, PlaceIn DEF Wheres, Directories
<1>2. Above(d) \subseteq Above(x)
  <2>1. CASE d = Root
    BY <2>1, AboveOf, PlaceOf
  <2>2. CASE d = Internal \/ d = AppsDir
    <3>1. Above(d) = {Root}
      BY <2>2, AboveOf, PlaceOf
    <3>2. Root \in Above(x)
      BY AboveOf DEF Wheres, Directories
    <3> QED
      BY <3>1, <3>2
  <2>3. CASE d = AppDir(x.app) /\ x.where \in {"app.go", "rest", "migrations", "migration"}
    <3>1. Above(d) = {Root, AppsDir}
      BY <2>3, AboveOf, PlaceIn
    <3> QED
      BY <2>3, <3>1, AboveOf
  <2>4. CASE d = SubDir(x.app) /\ x.where = "migration"
    <3>1. Above(d) = {Root, AppsDir, AppDir(x.app)}
      BY <2>4, AboveOf, PlaceIn
    <3> QED
      BY <2>4, <3>1, AboveOf
  <2> QED
    BY <2>1, <2>2, <2>3, <2>4, AboveOf DEF Wheres, Directories
<1>3. d = Root \/ Root \in Above(d)
  BY AboveOf, PlaceOf, PlaceIn DEF Wheres, Directories
<1>4. x.where # "nowhere"
  BY AboveOf
<1>5. x # d
  <2>1. d \notin Above(d)
    <3>1. CASE d = Root
      BY <3>1, AboveOf, PlaceOf
    <3>2. CASE d = Internal \/ d = AppsDir
      BY <3>2, AboveOf, PlaceOf
    <3>3. CASE d = AppDir(x.app)
      BY <3>3, AboveOf, PlaceOf, PlaceIn
    <3>4. CASE d = SubDir(x.app)
      BY <3>4, AboveOf, PlaceOf, PlaceIn
    <3> QED
      BY <3>1, <3>2, <3>3, <3>4, AboveOf DEF Wheres, Directories
  <2> QED
    BY <2>1
<1> QED
  BY <1>1, <1>2, <1>3, <1>4, <1>5

LEMMA AboveTypes ==
  ASSUME NEW x \in Paths
  PROVE  Above(x) \subseteq Paths
<1>1. x.where \in Wheres /\ x.app \in Apps \cup {"none"}
  BY DEF Paths
<1>2. {Root, Internal, AppsDir, AppDir(x.app), SubDir(x.app)} \subseteq Paths
  BY <1>1, PathTypes
<1> QED
  BY <1>1, <1>2, AboveOf DEF Wheres, Directories

\* What Adding adds and keeps.
Grows(p, paths, state) ==
  /\ DOMAIN fs' = DOMAIN fs \cup paths
  /\ \A x \in DOMAIN fs : fs'[x] = fs[x]
  /\ \A x \in paths \ DOMAIN fs : fs'[x] = Node(p, state)

LEMMA AddingGrows ==
  ASSUME NEW p, NEW paths, NEW state, fs' = Adding(p, paths, state)
  PROVE  Grows(p, paths, state)
BY DEF Adding, Grows, Exists

LEMMA NodeIs ==
  ASSUME NEW p \in Tools \cup {NoTool}, NEW state \in {"whole", "partial"}
  PROVE  /\ Node(p, state) \in Nodes /\ Node(p, state).by = p
         /\ Node(p, state).state = state /\ Node(p, state).apps = {}
BY DEF Node, Nodes
-----------------------------------------------------------------------------
(* What a step of one tool leaves of the others                              *)

\* Only p moves.
Moves(p) ==
  tool' \in [Tools -> Command] /\ \A q \in Tools \ {p} : tool'[q] = tool[q]

\* What is new or changed is p's.
Leaves(p) ==
  \A x \in DOMAIN fs' : (x \in DOMAIN fs /\ fs'[x] = fs[x]) \/ fs'[x].by = p

\* What is not p's stays, but for the registry.
Spares(p) ==
  \A x \in DOMAIN fs \ Registry :
    fs[x].by # p => x \in DOMAIN fs' /\ fs'[x] = fs[x]

\* What is said of a tool that does not move.
LEMMA SameTool ==
  ASSUME NEW q, tool'[q] = tool[q]
  PROVE  /\ \A side : Pair(q, side)' = Pair(q, side)
         /\ Sides(q)' = Sides(q) /\ (Failed(q)' <=> Failed(q))
         /\ Home(q)' = Home(q) /\ Planned(q)' = Planned(q)
         /\ (Busy(q)' <=> Busy(q)) /\ (Registers(q)' <=> Registers(q))
         /\ \A at : At(q, at)' <=> At(q, at)
         /\ (Course(q)' <=> Course(q))
<1>1. /\ \A side : Pair(q, side)' = Pair(q, side)
      /\ Home(q)' = Home(q) /\ Planned(q)' = Planned(q)
      /\ (Busy(q)' <=> Busy(q))
      /\ \A at : At(q, at)' <=> At(q, at)
  BY DEF Pair, Home, Planned, Busy, At
<1>2. /\ Sides(q)' = Sides(q) /\ (Failed(q)' <=> Failed(q))
      /\ (Registers(q)' <=> Registers(q))
  BY <1>1 DEF Sides, Failed, Registers, At
<1>3. Course(q)' <=> Course(q)
  BY <1>1 DEF Course
<1> QED
  BY <1>1, <1>2, <1>3

LEMMA OthersStep ==
  ASSUME IInv, NEW p \in Tools, Moves(p), Leaves(p), NEW q \in Tools \ {p}
  PROVE  /\ Course(q)' /\ Mine(q)'
         /\ Holding(q) /\ Spares(p) => Holding(q)'
<1>1. tool'[q] = tool[q]
  BY DEF Moves
<1>2. Course(q)'
  BY <1>1, SameTool DEF IInv
<1>3. Mine(q)'
  <2>1. \A x \in DOMAIN fs' : fs'[x].by = q => x \in DOMAIN fs /\ fs'[x] = fs[x]
    BY DEF Leaves
  <2>2. Mine(q)
    BY DEF IInv
  <2>3. Sides(q)' = Sides(q) /\ Pair(q, "up")' = Pair(q, "up") /\ (Failed(q)' <=> Failed(q))
    BY <1>1, SameTool
  <2> SUFFICES ASSUME NEW x \in DOMAIN fs', fs'[x].by = q
      PROVE LET t == tool[q]
            IN /\ t.at \notin {"idle", "compile", "select"}
               /\ t.kind \in {"startproject", "startapp"} =>
                    /\ Dir(x) \/ x \in Registry \/ t.own \in Above(x)
                    /\ Failed(q) => t.own # x /\ t.own \notin Above(x)
               /\ t.kind = "makemigration" =>
                    \/ Dir(x)
                    \/ /\ x \in Sides(q)
                       /\ \/ fs'[x].state = "partial" \/ t.at = "killed" \/ t.answer = "ok"
                          \/ x = Pair(q, "up") /\ t.at \in {"down", "undo"}
    BY <1>1, <2>3 DEF Mine
  <2>4. x \in DOMAIN fs /\ fs'[x] = fs[x]
    BY <2>1
  <2> QED
    BY <2>2, <2>4 DEF Mine
<1>4. ASSUME Holding(q), Spares(p) PROVE Holding(q)'
  <2>1. Busy(q)' <=> Busy(q)
    BY <1>1, SameTool
  <2>2. Pair(q, "up")' = Pair(q, "up")
    BY <1>1, SameTool
  <2>3. ASSUME Busy(q), tool[q].own # Nowhere
        PROVE  Exists(tool[q].own)' /\ fs'[tool[q].own].by = q
    <3>1. Exists(tool[q].own) /\ fs[tool[q].own].by = q
      BY <1>4, <2>3 DEF Holding
    <3>2. tool[q].own \notin Registry
      BY <2>3, PlaceOf, PlaceIn DEF IInv, Course, Home
    <3> QED
      BY <1>1, <1>4, <3>1, <3>2 DEF Spares, Exists
  <2>4. ASSUME tool[q].at \in {"down", "undo"}
        PROVE  Exists(Pair(q, "up"))' /\ fs'[Pair(q, "up")].by = q
    <3>1. Exists(Pair(q, "up")) /\ fs[Pair(q, "up")].by = q
      BY <1>4, <2>4 DEF Holding
    <3>2. Pair(q, "up") \notin Registry
      BY PlaceOf, SideOf
    <3> QED
      BY <1>4, <2>2, <3>1, <3>2 DEF Spares, Exists
  <2> QED
    BY <1>1, <2>1, <2>2, <2>3, <2>4 DEF Holding
<1> QED
  BY <1>2, <1>3, <1>4

\* So a step keeps the invariant if it does what is said of the tool itself,
\* of the tree, of the registry and of the catalogue.
LEMMA Combined ==
  ASSUME IInv, NEW p \in Tools, Moves(p), Leaves(p), Typed', Tree',
         Course(p)', Mine(p)',
         ~uprooted' => ~uprooted /\ Spares(p) /\ Holding(p)',
         ~disturbed' => Undisturbed', ~spoiled' /\ ~uprooted' => Catalogued'
  PROVE  IInv'
<1>1. \A q \in Tools : Course(q)' /\ Mine(q)'
  BY OthersStep
<1>2. ASSUME ~uprooted' PROVE \A q \in Tools : Holding(q)'
  <2>1. \A q \in Tools : Holding(q)
    BY <1>2 DEF IInv
  <2>2. \A q \in Tools \ {p} : Holding(q)'
    BY <1>2, <2>1, OthersStep
  <2> QED
    BY <1>2, <2>2
<1> QED
  BY <1>1, <1>2 DEF IInv

\* The catalogue depends on what p itself has made and what it keeps.
LEMMA CatalogueStep ==
  ASSUME IInv, Catalogued, NEW p \in Tools, Moves(p), Leaves(p), Spares(p),
         \A x \in DOMAIN fs' : IsMigration(x) /\ fs'[x].by = p =>
           /\ tool'[p].kind = "makemigration"
           /\ \/ x = Pair(p, "up")' /\ tool'[p].at \in {"down", "undo"}
              \/ x \in Sides(p)' /\ tool'[p].answer = "ok",
         tool'[p].kind = "makemigration" /\ tool'[p].answer = "ok" =>
           \A x \in Sides(p)' : Exists(x)' /\ fs'[x].by = p
  PROVE  Catalogued'
<1>1. \A q \in Tools \ {p} :
        tool'[q] = tool[q] /\ Pair(q, "up")' = Pair(q, "up") /\ Sides(q)' = Sides(q)
  BY SameTool DEF Moves
<1>2. ASSUME NEW x \in Migrations'
      PROVE  \E q \in Tools :
               /\ fs'[x].by = q /\ tool'[q].kind = "makemigration"
               /\ \/ x = Pair(q, "up")' /\ tool'[q].at \in {"down", "undo"}
                  \/ x \in Sides(q)' /\ tool'[q].answer = "ok"
  <2>1. x \in DOMAIN fs' /\ IsMigration(x)
    BY DEF Migrations, IsMigration
  <2>2. CASE fs'[x].by = p
    BY <2>1, <2>2
  <2>3. CASE fs'[x].by # p
    <3>1. x \in Migrations /\ fs'[x] = fs[x]
      BY <2>1, <2>3 DEF Leaves, Migrations
    <3>2. PICK q \in Tools :
            /\ fs[x].by = q /\ tool[q].kind = "makemigration"
            /\ \/ x = Pair(q, "up") /\ tool[q].at \in {"down", "undo"}
               \/ x \in Sides(q) /\ tool[q].answer = "ok"
      BY <3>1 DEF Catalogued
    <3> QED
      BY <1>1, <2>3, <3>1, <3>2
  <2> QED
    BY <2>2, <2>3
<1>3. ASSUME NEW q \in Tools, tool'[q].kind = "makemigration", tool'[q].answer = "ok",
             NEW x \in Sides(q)'
      PROVE  Exists(x)' /\ fs'[x].by = q
  <2>1. CASE q = p
    BY <1>3, <2>1
  <2>2. CASE q # p
    <3>1. x \in Sides(q) /\ Exists(x) /\ fs[x].by = q
      BY <1>1, <1>3, <2>2 DEF Catalogued
    <3>2. x \notin Registry
      BY <3>1, PlaceOf, SideOf DEF Sides
    <3> QED
      BY <2>2, <3>1, <3>2 DEF Spares, Exists
  <2> QED
    BY <2>1, <2>2
<1> QED
  BY <1>2, <1>3 DEF Catalogued

\* The migrations of a command that does not make any.
LEMMA NoMigrationStep ==
  ASSUME IInv, Catalogued, NEW p \in Tools, Moves(p), Leaves(p), Spares(p),
         tool[p].kind # "makemigration" \/ tool[p].at \in {"compile", "select", "stat pair", "up"},
         tool'[p].kind = "makemigration" => tool'[p].answer # "ok",
         \A x \in DOMAIN fs' \ DOMAIN fs : ~IsMigration(x)
  PROVE  Catalogued'
<1>1. ASSUME NEW x \in DOMAIN fs', IsMigration(x), fs'[x].by = p PROVE FALSE
  <2>1. x \in DOMAIN fs /\ x \in Migrations
    BY <1>1 DEF Migrations
  <2>2. PICK q \in Tools :
          /\ fs[x].by = q /\ tool[q].kind = "makemigration"
          /\ \/ x = Pair(q, "up") /\ tool[q].at \in {"down", "undo"}
             \/ x \in Sides(q) /\ tool[q].answer = "ok"
    BY <2>1 DEF Catalogued
  <2>3. CASE q = p
    BY <2>2, <2>3 DEF IInv, Course
  <2>4. CASE q # p
    <3>1. x \notin Registry
      BY <1>1, PlaceOf DEF IsMigration
    <3>2. fs'[x] = fs[x]
      BY <2>1, <2>2, <2>4, <3>1 DEF Spares
    <3> QED
      BY <1>1, <2>2, <2>4, <3>2
  <2> QED
    BY <2>3, <2>4
<1> QED
  BY <1>1, CatalogueStep
-----------------------------------------------------------------------------
(* What the registry depends on                                              *)

\* Everything but the migrations is as it was.
Core(x) == x.where \notin {"migrations", "migration"}
SameCore ==
  \A x : Core(x) => (Exists(x)' <=> Exists(x)) /\ (Exists(x) => fs'[x] = fs[x])

LEMMA CoreKept ==
  ASSUME SameCore
  PROVE  /\ \A x : Core(x) => (Whole(x)' <=> Whole(x)) /\ (Blank(x)' <=> Blank(x))
         /\ \A x, apps : Core(x) => (Lists(x, apps)' <=> Lists(x, apps))
         /\ Present' = Present /\ (Exists(Root)' <=> Exists(Root))
         /\ \A apps : Kept(apps)' <=> Kept(apps)
         /\ (Built' <=> Built)
<1>1. \A x : Core(x) => (Whole(x)' <=> Whole(x)) /\ (Blank(x)' <=> Blank(x))
  BY DEF SameCore, Whole, Blank, Exists
<1>2. \A x, apps : Core(x) => (Lists(x, apps)' <=> Lists(x, apps))
  BY <1>1 DEF SameCore, Lists, Whole, Exists
<1>3. /\ \A a : Core(AppDir(a)) /\ \A x \in Sources(a) : Core(x)
      /\ \A x \in Skeleton : Core(x)
      /\ Core(Root) /\ Core(AppsGo) /\ Core(CommandsGo)
  BY PlaceOf, PlaceIn DEF Core
<1>4. Present' = Present /\ (Exists(Root)' <=> Exists(Root))
  BY <1>3 DEF SameCore, Present
<1>5. \A apps : Kept(apps)' <=> Kept(apps)
  BY <1>1, <1>3 DEF Kept, Sound
<1>6. Built' <=> Built
  <2>1. /\ Lists(AppsGo, Present)' <=> Lists(AppsGo, Present)
        /\ Lists(CommandsGo, Present)' <=> Lists(CommandsGo, Present)
        /\ Kept(Present)' <=> Kept(Present)
    BY <1>2, <1>3, <1>4, <1>5
  <2> QED
    BY <2>1 DEF Built
<1> QED
  BY <1>1, <1>2, <1>4, <1>5, <1>6

\* What planned files are not.
LEMMA PlannedCore ==
  ASSUME NEW p
  PROVE  \A x \in Planned(p) : Core(x) /\ ~IsMigration(x) /\ x \notin Registry /\ ~Dir(x)
BY PlaceOf, PlaceIn DEF Core, Planned, IsMigration, Dir

LEMMA CoreProgress ==
  ASSUME SameCore, NEW q, tool'[q] = tool[q], Course(q), Progress(q)
  PROVE  Progress(q)'
<1>1. /\ \A x : Core(x) => (Whole(x)' <=> Whole(x)) /\ (Blank(x)' <=> Blank(x))
      /\ \A x, apps : Core(x) => (Lists(x, apps)' <=> Lists(x, apps))
      /\ Present' = Present /\ (Exists(Root)' <=> Exists(Root))
      /\ \A apps : Kept(apps)' <=> Kept(apps)
      /\ (Built' <=> Built)
  BY CoreKept
<1>2. Core(AppsGo) /\ Core(CommandsGo) /\ \A a : Core(AppDir(a))
  BY PlaceOf, PlaceIn DEF Core
<1>3. Planned(q)' = Planned(q) /\ \A x \in Planned(q) : Whole(x)' <=> Whole(x)
  BY <1>1, SameTool, PlannedCore
<1>4. Exists(AppDir(tool[q].app))' <=> Exists(AppDir(tool[q].app))
  BY <1>2 DEF SameCore
<1>5. tool[q].at = "files" => \A x \in tool[q].written : Whole(x)' <=> Whole(x)
  BY <1>3 DEF Course
<1> DEFINE t == tool[q]
           others == Present \ {t.app}
<1>6. others' = others
  BY <1>1
<1>7. t.at \in {"discover", "mkdir"} => (Exists(Root)' => Built')
  BY <1>1 DEF Progress
<1>8. ASSUME t.at \in Making
      PROVE  /\ t.kind = "startproject" =>
                  Present' = {} /\ (Exists(AppsGo)' => Blank(AppsGo)')
             /\ t.kind = "startapp" =>
                  /\ Exists(AppDir(t.app))' /\ Kept(others)'
                  /\ t.at \notin Registering \ {"open apps"} => Lists(AppsGo, others)'
                  /\ t.at # "write commands" => Lists(CommandsGo, others)'
  <2>1. /\ Kept(others)' <=> Kept(others)
        /\ Lists(AppsGo, others)' <=> Lists(AppsGo, others)
        /\ Lists(CommandsGo, others)' <=> Lists(CommandsGo, others)
        /\ Blank(AppsGo)' <=> Blank(AppsGo)
        /\ Exists(AppsGo)' <=> Exists(AppsGo)
    BY <1>1, <1>2, <1>6 DEF SameCore
  <2> QED
    BY <1>1, <1>4, <1>8, <2>1 DEF Progress
<1>9. ASSUME t.at \in Making
      PROVE  /\ t.at = "files" => \A x \in t.written : Whole(x)'
             /\ t.at \in {"readdir", "stat", "tidy"} \cup Registering =>
                  \A x \in Planned(q)' : Whole(x)'
             /\ t.at \in {"stat"} \cup Registering => t.seen = Present'
             /\ t.at = "write apps" => Blank(AppsGo)'
             /\ t.at \in {"open commands", "write commands", "tidy"} =>
                  Lists(AppsGo, Present)'
             /\ t.at = "write commands" => Blank(CommandsGo)'
             /\ t.at = "tidy" => Lists(CommandsGo, Present)'
  <2>1. /\ Lists(AppsGo, Present)' <=> Lists(AppsGo, Present)
        /\ Lists(CommandsGo, Present)' <=> Lists(CommandsGo, Present)
        /\ Blank(AppsGo)' <=> Blank(AppsGo)
        /\ Blank(CommandsGo)' <=> Blank(CommandsGo)
    BY <1>1, <1>2
  <2>2. t.at = "files" => \A x \in t.written : Whole(x)'
    BY <1>5, <1>9 DEF Progress
  <2>3. t.at \in {"readdir", "stat", "tidy"} \cup Registering =>
          \A x \in Planned(q)' : Whole(x)'
    BY <1>3, <1>9 DEF Progress
  <2>4. t.at \in {"stat"} \cup Registering => t.seen = Present'
    BY <1>1, <1>9 DEF Progress
  <2>5. /\ t.at = "write apps" => Blank(AppsGo)'
        /\ t.at \in {"open commands", "write commands", "tidy"} => Lists(AppsGo, Present)'
        /\ t.at = "write commands" => Blank(CommandsGo)'
        /\ t.at = "tidy" => Lists(CommandsGo, Present)'
    BY <1>9, <2>1 DEF Progress
  <2> QED
    BY <2>2, <2>3, <2>4, <2>5
<1> QED
  BY <1>7, <1>8, <1>9 DEF Progress

\* A command that registers nothing.
LEMMA AsideStep ==
  ASSUME IInv, Undisturbed, NEW p \in Tools, Moves(p), SameCore,
         ~Registers(p), ~Registers(p)',
         tool'[p].at = "select" => tool'[p].seen \subseteq Settled,
         tool'[p].at = "stat pair" => tool'[p].app \in Settled
  PROVE  Undisturbed'
<1>1. \A q \in Tools \ {p} : tool'[q] = tool[q] /\ (Registers(q)' <=> Registers(q))
  BY SameTool DEF Moves
<1>2. \A q \in Tools : Registers(q)' => q # p /\ Registers(q)
  BY <1>1
<1>3. (Built' <=> Built) /\ (Exists(Root)' <=> Exists(Root)) /\ Present' = Present
  BY CoreKept
<1>4. \A q \in Tools : Registers(q)' => Progress(q)'
  <2> SUFFICES ASSUME NEW q \in Tools, Registers(q)' PROVE Progress(q)'
    OBVIOUS
  <2>1. tool'[q] = tool[q] /\ Course(q) /\ Progress(q)
    BY <1>1, <1>2 DEF Undisturbed, IInv
  <2> QED
    BY <2>1, CoreProgress
<1>5. Settled \subseteq Settled'
  <2>1. \A q \in Tools : Registers(q)' => tool'[q] = tool[q] /\ Registers(q)
    BY <1>1, <1>2
  <2> QED
    BY <1>3, <2>1 DEF Settled
<1>6. \A q \in Tools :
        /\ tool'[q].at = "select" => tool'[q].seen \subseteq Settled'
        /\ tool'[q].at = "stat pair" => tool'[q].app \in Settled'
  BY <1>1, <1>5 DEF Undisturbed
<1>7. \A q, r \in Tools : Registers(q)' /\ Registers(r)' => q = r
  BY <1>2 DEF Undisturbed
<1>8. (\A q \in Tools : ~Registers(q)') /\ Exists(Root)' => Built'
  BY <1>1, <1>3 DEF Undisturbed
<1> QED
  BY <1>4, <1>6, <1>7, <1>8 DEF Undisturbed

\* The one command that registers takes a step.
LEMMA RegisterStep ==
  ASSUME IInv, Undisturbed, NEW p \in Tools, Moves(p), Registers(p),
         tool'[p].at \notin {"select", "stat pair"},
         tool'[p].kind = tool[p].kind, tool'[p].app = tool[p].app,
         Registers(p)' => Progress(p)',
         ~Registers(p)' /\ Exists(Root)' => Built',
         Settled \subseteq Present',
         tool[p].at \in Calm /\ tool[p].kind = "startapp" /\ tool[p].app \in Present
           /\ Registers(p)' => tool'[p].at \in Calm
  PROVE  Undisturbed'
<1>1. \A q \in Tools \ {p} :
        tool'[q] = tool[q] /\ ~Registers(q) /\ ~Registers(q)'
  BY SameTool DEF Moves, Undisturbed
<1>2. Settled \subseteq Settled'
  <2> SUFFICES ASSUME NEW a \in Settled,
                      Registers(p)', tool'[p].kind = "startapp", tool'[p].app = a
      PROVE  tool'[p].at \in Calm
    BY <1>1 DEF Settled
  <2> QED
    BY DEF Settled
<1>3. \A q \in Tools :
        /\ tool'[q].at = "select" => tool'[q].seen \subseteq Settled'
        /\ tool'[q].at = "stat pair" => tool'[q].app \in Settled'
  BY <1>1, <1>2 DEF Undisturbed
<1>4. \A q, r \in Tools : Registers(q)' /\ Registers(r)' => q = r
  BY <1>1
<1>5. (\A q \in Tools : ~Registers(q)') /\ Exists(Root)' => Built'
  OBVIOUS
<1>6. \A q \in Tools : Registers(q)' => Progress(q)'
  BY <1>1
<1> QED
  BY <1>3, <1>4, <1>5, <1>6 DEF Undisturbed
-----------------------------------------------------------------------------
(* Steps that leave the tree alone                                           *)

\* A tool that goes on, with all that it has seen and written or not.
Turns(p, at, answer) ==
  LET t == tool[p]
      u == tool'[p]
  IN  /\ u.at = at /\ u.answer = answer
      /\ u.kind = t.kind /\ u.app = t.app /\ u.name = t.name /\ u.own = t.own
      /\ u.stamp = t.stamp

Recalls(p) == tool'[p].written = tool[p].written /\ tool'[p].seen = tool[p].seen

LEMMA Turned ==
  ASSUME Typed, NEW p \in Tools, NEW at \in Stages,
         NEW answer \in {"none", "ok", "failed"},
         tool' = [tool EXCEPT ![p].at = at, ![p].answer = answer]
  PROVE  Moves(p) /\ Turns(p, at, answer) /\ Recalls(p)
<1> DEFINE u == [tool[p] EXCEPT !.at = at, !.answer = answer]
<1>1. tool' = [tool EXCEPT ![p] = u]
  BY DEF Typed
<1>2. /\ u \in Command /\ u.at = at /\ u.answer = answer
      /\ u.kind = tool[p].kind /\ u.app = tool[p].app /\ u.name = tool[p].name
      /\ u.own = tool[p].own /\ u.written = tool[p].written
      /\ u.seen = tool[p].seen /\ u.stamp = tool[p].stamp
  <2>1. tool[p] \in Command
    BY DEF Typed
  <2> QED
    BY <2>1 DEF Command
<1> HIDE DEF u
<1>3. tool'[p] = u /\ Moves(p)
  BY <1>1, <1>2 DEF Typed, Moves
<1> QED
  BY <1>2, <1>3 DEF Turns, Recalls

LEMMA Went ==
  ASSUME Typed, NEW p \in Tools, NEW to \in Stages, Go(p, to)
  PROVE  Moves(p) /\ Turns(p, to, tool[p].answer) /\ Recalls(p)
BY DEF Typed, Moves, Turns, Recalls, Command, Go

LEMMA Ended ==
  ASSUME Typed, NEW p \in Tools, NEW answer \in {"ok", "failed"}, End(p, answer)
  PROVE  Moves(p) /\ Turns(p, "done", answer) /\ Recalls(p)
BY Turned DEF End, Stages

LEMMA Aborted ==
  ASSUME Typed, NEW p \in Tools, Abort(p, tool[p].own)
  PROVE  /\ Moves(p) /\ Recalls(p)
         /\ Turns(p, IF tool[p].own = Nowhere THEN "done" ELSE "cleanup", "failed")
BY Turned DEF Abort, Stages, Making

\* What stays with it.
LEMMA TurnedTool ==
  ASSUME NEW p, NEW at, NEW answer, Turns(p, at, answer)
  PROVE  /\ \A side : Pair(p, side)' = Pair(p, side)
         /\ Sides(p)' = Sides(p) /\ Home(p)' = Home(p) /\ Planned(p)' = Planned(p)
         /\ (Failed(p)' <=> at = "done" /\ answer = "failed")
         /\ (Busy(p)' <=> at \notin {"idle", "done", "killed"})
<1>1. /\ \A side : Pair(p, side)' = Pair(p, side)
      /\ Home(p)' = Home(p) /\ Planned(p)' = Planned(p)
      /\ (Busy(p)' <=> at \notin {"idle", "done", "killed"})
      /\ (Failed(p)' <=> at = "done" /\ answer = "failed")
  BY DEF Turns, Pair, Home, Planned, Busy, Failed, At
<1>2. Sides(p)' = Sides(p)
  BY <1>1 DEF Sides
<1> QED
  BY <1>1, <1>2

\* The tree as it was.
LEMMA StandingTree ==
  ASSUME IInv, NEW p, UNCHANGED fs
  PROVE  Leaves(p) /\ Spares(p) /\ SameCore /\ Tree' /\ Present' = Present
<1>1. Leaves(p) /\ Spares(p) /\ Tree'
  BY DEF IInv, Leaves, Spares, Tree
<1>2. SameCore
  BY DEF SameCore, Exists
<1> QED
  BY <1>1, <1>2, CoreKept

\* What it has made is still its own.
LEMMA StandingMine ==
  ASSUME IInv, NEW p \in Tools, UNCHANGED fs, Busy(p),
         NEW at \in Stages, NEW answer, Turns(p, at, answer),
         at \in {"idle", "compile", "select"} => tool[p].at \in {"compile", "select"},
         at = "done" /\ answer = "failed" => tool[p].own = Nowhere,
         tool[p].kind = "makemigration" /\ tool[p].at \in {"down", "undo"} =>
           at \in {"down", "undo", "killed"}
  PROVE  Mine(p)'
<1>1. /\ \A side : Pair(p, side)' = Pair(p, side)
      /\ Sides(p)' = Sides(p) /\ (Failed(p)' <=> at = "done" /\ answer = "failed")
  BY TurnedTool
<1>2. Mine(p) /\ Course(p) /\ Tree /\ Typed
  BY DEF IInv
<1> SUFFICES ASSUME NEW x \in DOMAIN fs, fs[x].by = p
    PROVE  LET t == tool'[p]
           IN  /\ t.at \notin {"idle", "compile", "select"}
               /\ t.kind \in {"startproject", "startapp"} =>
                    /\ Dir(x) \/ x \in Registry \/ t.own \in Above(x)
                    /\ Failed(p)' => t.own # x /\ t.own \notin Above(x)
               /\ t.kind = "makemigration" =>
                    \/ Dir(x)
                    \/ /\ x \in Sides(p)
                       /\ \/ fs[x].state = "partial" \/ t.at = "killed" \/ t.answer = "ok"
                          \/ x = Pair(p, "up") /\ t.at \in {"down", "undo"}
  BY <1>1 DEF Mine
<1>3. Nowhere # x /\ Nowhere \notin Above(x)
  <2>1. x.where \in Wheres /\ x.where # "nowhere"
    BY <1>2 DEF Tree, Typed, Paths
  <2> QED
    BY <2>1, AboveAbove, PlaceOf DEF Directories
<1>4. tool[p].answer # "ok"
  BY <1>2 DEF Course, Busy
<1> QED
  BY <1>1, <1>2, <1>3, <1>4 DEF Mine, Turns, Busy

\* An operation fails, or finds what it must not find.
LEMMA AbortStep ==
  ASSUME IInv, NEW p \in Tools, UNCHANGED <<fs, second, spoiled, uprooted>>,
         Abort(p, tool[p].own), Busy(p), tool[p].at \notin {"cleanup", "down", "undo"},
         disturbed' \in BOOLEAN,
         ~disturbed' => ~disturbed /\
           (tool[p].kind = "startapp" => tool[p].at \notin Registering \ {"open apps"})
  PROVE  IInv'
<1> DEFINE at == IF tool[p].own = Nowhere THEN "done" ELSE "cleanup"
<1>1. /\ Moves(p) /\ Turns(p, at, "failed") /\ at \in {"done", "cleanup"} /\ Recalls(p)
      /\ at \in Stages /\ (at = "done" <=> tool[p].own = Nowhere)
  BY Aborted DEF IInv, Stages, Making
<1> HIDE DEF at
<1>2. /\ \A side : Pair(p, side)' = Pair(p, side)
      /\ Sides(p)' = Sides(p) /\ Home(p)' = Home(p) /\ Planned(p)' = Planned(p)
      /\ (Failed(p)' <=> at = "done") /\ (Busy(p)' <=> at # "done")
  BY <1>1, TurnedTool
<1>3. Typed /\ Tree /\ Course(p) /\ Mine(p)
  BY DEF IInv
<1>4. Leaves(p) /\ Spares(p) /\ SameCore /\ Tree' /\ Present' = Present
  BY StandingTree
<1>5. Typed'
  BY <1>1, <1>3 DEF Typed, Moves
<1>6. Course(p)'
  <2>1. tool[p].own = Home(p) \/ tool[p].own = Nowhere
    BY <1>3 DEF Course
  <2>2. tool[p].at \in Making => at = "cleanup"
    BY <1>1, <1>3, HomeIs DEF Course
  <2>3. CASE at = "done"
    BY <1>1, <1>2, <1>3, <2>1, <2>2, <2>3
       DEF Course, Turns, Recalls, Making, Migrating, Registering, Busy
  <2>4. CASE at = "cleanup"
    <3>1. tool[p].kind \in {"startproject", "startapp"} /\ tool[p].own = Home(p)
      BY <1>1, <1>3, <2>1, <2>4 DEF Course, Typed, Command, Busy
    <3> QED
      BY <1>1, <1>2, <1>3, <2>4, <3>1
         DEF Course, Turns, Recalls, Making, Migrating, Registering
  <2> QED
    BY <1>1, <2>3, <2>4
<1>7. Mine(p)'
  BY <1>1, StandingMine
<1>8. Holding(p) => Holding(p)'
  BY <1>1, <1>2 DEF Holding, Turns, Exists, Busy
<1>9. ASSUME ~disturbed' PROVE Undisturbed'
  <2>1. Undisturbed
    BY <1>9 DEF IInv
  <2>2. CASE ~Registers(p)
    <3>1. ~Registers(p)'
      BY <1>1, <2>2 DEF Registers, Busy, Turns
    <3> QED
      BY <1>1, <1>4, <2>1, <2>2, <3>1, AsideStep DEF Turns
  <2>3. CASE Registers(p)
    <3>1. tool[p].kind \in {"startproject", "startapp"} /\ Progress(p)
      BY <2>1, <2>3 DEF Registers, Undisturbed
    <3>2. Settled \subseteq Present'
      BY <1>4 DEF Settled
    <3>3. CASE at = "done"
      <4>1. tool[p].at \in {"discover", "mkdir"}
        <5>1. tool[p].at \notin Making
          BY <1>1, <1>3, <3>3, HomeIs DEF Course
        <5> QED
          BY <1>3, <3>1, <5>1 DEF Course, Typed, Command, Stages, Busy
      <4>2. (Exists(Root) => Built) /\ (Exists(Root)' <=> Exists(Root)) /\ (Built' <=> Built)
        BY <1>4, <3>1, <4>1, CoreKept DEF Progress
      <4>3. ~Registers(p)'
        BY <1>2, <3>3 DEF Registers
      <4>4. /\ tool'[p].at \notin {"select", "stat pair"}
            /\ tool'[p].kind = tool[p].kind /\ tool'[p].app = tool[p].app
        BY <1>1, <3>3 DEF Turns
      <4> QED
        BY <1>1, <2>1, <2>3, <3>2, <4>2, <4>3, <4>4, RegisterStep
    <3>4. CASE at = "cleanup"
      <4>1. tool[p].at \in Making \ {"cleanup"} /\ tool[p].own # Nowhere
        BY <1>1, <1>3, <3>1, <3>4 DEF Course, Typed, Command, Stages, Busy
      <4>2. Progress(p)'
        <5>1. ASSUME tool[p].kind = "startapp"
              PROVE  /\ Exists(AppDir(tool[p].app))
                     /\ Kept(Present \ {tool[p].app})
                     /\ Lists(AppsGo, Present \ {tool[p].app})
                     /\ Lists(CommandsGo, Present \ {tool[p].app})
          BY <1>9, <3>1, <4>1, <5>1 DEF Progress, Registering
        <5>2. ASSUME tool[p].kind = "startapp"
              PROVE  /\ Exists(AppDir(tool[p].app))'
                     /\ Kept(Present \ {tool[p].app})'
                     /\ Lists(AppsGo, Present \ {tool[p].app})'
                     /\ Lists(CommandsGo, Present \ {tool[p].app})'
          BY <1>1, <1>4, <5>1, <5>2
             DEF Turns, Exists, Kept, Sound, Lists, Whole, Skeleton
        <5>3. tool[p].kind = "startproject" =>
                Present' = {} /\ (Exists(AppsGo)' => Blank(AppsGo)')
          BY <1>4, <3>1, <4>1 DEF Progress, Blank, Exists
        <5> QED
          BY <1>1, <3>4, <5>2, <5>3 DEF Progress, Turns, Registering
      <4>3. /\ tool'[p].at \notin {"select", "stat pair"}
            /\ tool'[p].kind = tool[p].kind /\ tool'[p].app = tool[p].app
        BY <1>1, <3>4 DEF Turns
      <4>4. Registers(p)'
        BY <1>2, <2>3, <3>4, <4>3 DEF Registers
      <4>5. ~(tool[p].at \in Calm /\ tool[p].kind = "startapp")
        BY <1>9, <4>1 DEF Calm, Making, Registering
      <4> QED
        BY <1>1, <2>1, <2>3, <3>2, <4>2, <4>3, <4>4, <4>5, RegisterStep
    <3> QED
      BY <1>1, <3>3, <3>4
  <2> QED
    BY <2>2, <2>3
<1>10. ASSUME ~spoiled', ~uprooted' PROVE Catalogued'
  <2>1. Catalogued
    BY <1>10 DEF IInv
  <2>2. tool[p].kind # "makemigration" \/ tool[p].at \in {"compile", "select", "stat pair", "up"}
    BY <1>3 DEF Course, Typed, Command, Stages, Making, Registering, Migrating, Busy
  <2> QED
    BY <1>1, <1>4, <2>1, <2>2, NoMigrationStep DEF Turns
<1>11. ~uprooted' => ~uprooted /\ Spares(p) /\ Holding(p)'
  BY <1>4, <1>8 DEF IInv
<1> QED
  BY <1>1, <1>4, <1>5, <1>6, <1>7, <1>9, <1>10, <1>11, Combined

\* A step that leaves the tree alone and makes no migration.
LEMMA StandStep ==
  ASSUME IInv, NEW p \in Tools, UNCHANGED <<fs, second, spoiled, uprooted, disturbed>>,
         Busy(p), tool[p].at \notin {"down", "undo"},
         NEW at \in Stages \ {"down", "undo", "idle", "killed"}, NEW answer,
         Moves(p), Turns(p, at, answer),
         at \in {"compile", "select"} => tool[p].at = "compile",
         answer \in {"none", "ok"}, answer = "ok" => tool[p].kind # "makemigration",
         Course(p)', Undisturbed => Undisturbed'
  PROVE  IInv'
<1>1. /\ \A side : Pair(p, side)' = Pair(p, side)
      /\ Sides(p)' = Sides(p) /\ Home(p)' = Home(p)
      /\ (Busy(p)' <=> at # "done")
  BY TurnedTool
<1>2. Typed /\ Tree /\ Course(p)
  BY DEF IInv
<1>3. Leaves(p) /\ Spares(p) /\ Tree'
  BY StandingTree
<1>4. Typed'
  BY <1>2 DEF Typed, Moves
<1>5. Mine(p)'
  BY StandingMine
<1>6. Holding(p) => Holding(p)'
  BY <1>1 DEF Holding, Turns, Exists
<1>7. ~disturbed' => Undisturbed'
  BY DEF IInv
<1>8. ASSUME ~spoiled', ~uprooted' PROVE Catalogued'
  <2>1. Catalogued
    BY <1>8 DEF IInv
  <2>2. tool[p].kind # "makemigration" \/ tool[p].at \in {"compile", "select", "stat pair", "up"}
    BY <1>2 DEF Course, Typed, Command, Stages, Making, Registering, Migrating, Busy
  <2> QED
    BY <1>3, <2>1, <2>2, NoMigrationStep DEF Turns
<1>9. ~uprooted' => ~uprooted /\ Spares(p) /\ Holding(p)'
  BY <1>3, <1>6 DEF IInv
<1> QED
  BY <1>3, <1>4, <1>5, <1>7, <1>8, <1>9, Combined

\* How far the registry is, from one stage to a later one.
LEMMA StandingProgress ==
  ASSUME UNCHANGED fs, NEW p, Progress(p), NEW at, NEW answer, Turns(p, at, answer),
         tool[p].at \in Making, at \in Making \ {"files"},
         at \in Registering => tool[p].at \in Registering \/ at = "open apps",
         at \in Registering \ {"open apps"} => at = tool[p].at,
         tool[p].at \in Registering \ {"open apps"} => at = tool[p].at,
         at = "tidy" => at = tool[p].at,
         at \in {"readdir", "stat", "tidy"} \cup Registering =>
           \A x \in Planned(p) : Whole(x),
         at \in {"stat"} \cup Registering => tool'[p].seen = Present
  PROVE  Progress(p)'
<1>1. SameCore
  BY DEF SameCore, Exists
<1>2. /\ \A x : (Whole(x)' <=> Whole(x)) /\ (Blank(x)' <=> Blank(x))
      /\ \A x : Exists(x)' <=> Exists(x)
      /\ \A x, apps : Lists(x, apps)' <=> Lists(x, apps)
      /\ \A apps : Kept(apps)' <=> Kept(apps)
      /\ Present' = Present
  BY DEF Whole, Blank, Exists, Lists, Kept, Sound, Present, Skeleton
<1>3. Planned(p)' = Planned(p)
  BY TurnedTool
<1> DEFINE t == tool[p]
           u == tool'[p]
           others == Present \ {t.app}
<1>4. u.at = at /\ u.kind = t.kind /\ u.app = t.app
  BY DEF Turns
<1>5. ASSUME u.kind = "startproject"
      PROVE  Present' = {} /\ (Exists(AppsGo)' => Blank(AppsGo)')
  BY <1>2, <1>4, <1>5 DEF Progress
<1>6. ASSUME u.kind = "startapp"
      PROVE  /\ Exists(AppDir(t.app))' /\ Kept(others)'
             /\ at \notin Registering \ {"open apps"} => Lists(AppsGo, others)'
             /\ at # "write commands" => Lists(CommandsGo, others)'
  <2>1. /\ Exists(AppDir(t.app)) /\ Kept(others)
        /\ at \notin Registering \ {"open apps"} => Lists(AppsGo, others)
        /\ at # "write commands" => Lists(CommandsGo, others)
    BY <1>4, <1>6 DEF Progress, Registering
  <2>2. others' = others /\ t.app = u.app
    BY <1>2, <1>4
  <2>3. /\ Exists(AppDir(t.app))' <=> Exists(AppDir(t.app))
        /\ Kept(others)' <=> Kept(others)
        /\ Lists(AppsGo, others)' <=> Lists(AppsGo, others)
        /\ Lists(CommandsGo, others)' <=> Lists(CommandsGo, others)
    <3>1. Exists(AppDir(t.app))' <=> Exists(AppDir(t.app))
      BY <2>2 DEF Exists
    <3> HIDE DEF others
    <3> QED
      BY <2>2, <3>1 DEF Lists, Whole, Kept, Sound, Exists, Skeleton
  <2> QED
    BY <2>1, <2>3
<1>7. /\ at \in {"readdir", "stat", "tidy"} \cup Registering =>
           \A x \in Planned(p)' : Whole(x)'
      /\ at \in {"stat"} \cup Registering => u.seen = Present'
  BY <1>2, <1>3
<1>8. /\ at = "write apps" => Blank(AppsGo)'
      /\ at \in {"open commands", "write commands", "tidy"} => Lists(AppsGo, Present)'
      /\ at = "write commands" => Blank(CommandsGo)'
      /\ at = "tidy" => Lists(CommandsGo, Present)'
  <2>1. /\ at = "write apps" => Blank(AppsGo)
        /\ at \in {"open commands", "write commands", "tidy"} => Lists(AppsGo, Present)
        /\ at = "write commands" => Blank(CommandsGo)
        /\ at = "tidy" => Lists(CommandsGo, Present)
    BY DEF Progress, Registering
  <2> QED
    BY <1>2, <2>1 DEF Lists, Whole, Exists, Blank
<1>9. at \notin {"discover", "mkdir", "files"}
  BY DEF Making, Registering
<1> QED
  BY <1>4, <1>5, <1>6, <1>7, <1>8, <1>9 DEF Progress

LEMMA DiscoverStep == ASSUME IInv, NEW p \in Tools, Discover(p) PROVE IInv'
<1>1. /\ tool[p].at = "discover" /\ Busy(p) /\ UNCHANGED <<fs, second, spoiled, uprooted, disturbed>>
      /\ Typed /\ Course(p) /\ tool[p].kind = "startapp" /\ tool[p].own = Nowhere
      /\ disturbed' \in BOOLEAN
  BY DEF Discover, At, Busy, Rest, IInv, Course, Typed
<1>2. CASE Abort(p, Nowhere)
  BY <1>1, <1>2, AbortStep DEF Registering
<1>3. CASE Go(p, "mkdir")
  <2>1. Moves(p) /\ Turns(p, "mkdir", tool[p].answer) /\ Recalls(p)
    BY <1>1, <1>3, Went DEF Stages
  <2>2. Course(p)' /\ tool[p].answer = "none"
    <3>1. tool[p].answer = "none"
      BY <1>1 DEF Course, Typed, Command
    <3>2. Home(p)' = Home(p)
      BY <2>1, TurnedTool
    <3> QED
      BY <1>1, <2>1, <3>1, <3>2
         DEF Course, Turns, Recalls, Making, Migrating, Registering
  <2>3. ASSUME Undisturbed PROVE Undisturbed'
    <3>1. Registers(p) /\ Registers(p)' /\ Progress(p)
      BY <1>1, <2>1, <2>3 DEF Registers, Busy, Turns, Undisturbed
    <3>2. (Exists(Root)' <=> Exists(Root)) /\ (Built' <=> Built) /\ Present' = Present
      BY <1>1, StandingTree, CoreKept
    <3>3. Progress(p)'
      BY <1>1, <2>1, <3>1, <3>2 DEF Progress, Turns, Making, Registering
    <3>4. Settled \subseteq Present'
      BY <3>2 DEF Settled
    <3>5. /\ tool'[p].at = "mkdir" /\ tool'[p].at \in Calm
          /\ tool'[p].kind = tool[p].kind /\ tool'[p].app = tool[p].app
      BY <2>1 DEF Turns, Calm
    <3> QED
      BY <2>1, <2>3, <3>1, <3>3, <3>4, <3>5, RegisterStep
  <2>4. "mkdir" \in Stages \ {"down", "undo", "idle", "killed"}
    BY DEF Stages
  <2> QED
    BY <1>1, <2>1, <2>2, <2>3, <2>4, StandStep
<1> QED
  BY <1>2, <1>3 DEF Discover

\* The one that registers goes on and leaves the tree alone.
LEMMA StandingRegistry ==
  ASSUME IInv, Undisturbed, NEW p \in Tools, UNCHANGED fs, Registers(p), Moves(p),
         NEW at \in Making, NEW answer, Turns(p, at, answer), tool[p].at \notin Calm,
         Progress(p)'
  PROVE  Undisturbed'
<1>1. Settled \subseteq Present'
  BY StandingTree DEF Settled
<1>2. /\ tool'[p].at \notin {"select", "stat pair"}
      /\ tool'[p].kind = tool[p].kind /\ tool'[p].app = tool[p].app
  BY DEF Turns, Making, Registering
<1>3. Registers(p)'
  BY DEF Registers, Turns, Busy, Making, Registering
<1> QED
  BY <1>1, <1>2, <1>3, RegisterStep

LEMMA FilesDoneStep == ASSUME IInv, NEW p \in Tools, FilesDone(p) PROVE IInv'
<1> DEFINE at == IF tool[p].kind = "startproject" THEN "open apps" ELSE "readdir"
<1>1. /\ tool[p].at = "files" /\ Busy(p) /\ tool[p].written = Planned(p)
      /\ UNCHANGED <<fs, second, spoiled, uprooted, disturbed>>
      /\ Typed /\ Course(p) /\ tool[p].kind \in {"startapp", "startproject"}
      /\ tool[p].own = Home(p) /\ tool[p].answer = "none"
      /\ tool' = [tool EXCEPT ![p].written = {}, ![p].at = at]
  BY DEF FilesDone, At, Busy, Rest, IInv, Course, Typed, Command, Making
<1>2. /\ at \in {"open apps", "readdir"}
      /\ at = "open apps" <=> tool[p].kind = "startproject"
  OBVIOUS
<1> HIDE DEF at
<1>3. Moves(p) /\ Turns(p, at, "none") /\ tool'[p].seen = tool[p].seen
  <2> DEFINE u == [tool[p] EXCEPT !.written = {}, !.at = at]
  <2>1. tool' = [tool EXCEPT ![p] = u]
    BY <1>1 DEF Typed
  <2>2. /\ u \in Command /\ u.at = at /\ u.answer = tool[p].answer
        /\ u.kind = tool[p].kind /\ u.app = tool[p].app /\ u.name = tool[p].name
        /\ u.own = tool[p].own /\ u.seen = tool[p].seen /\ u.stamp = tool[p].stamp
    <3>1. tool[p] \in Command
      BY <1>1 DEF Typed
    <3> QED
      BY <3>1, <1>1, <1>2 DEF Command, Stages, Making, Registering
  <2> HIDE DEF u
  <2>3. tool'[p] = u /\ Moves(p)
    BY <1>1, <2>1, <2>2 DEF Typed, Moves
  <2> QED
    BY <1>1, <2>2, <2>3 DEF Turns
<1>4. Course(p)'
  <2>1. Home(p)' = Home(p)
    BY <1>3, TurnedTool
  <2> QED
    BY <1>1, <1>2, <1>3, <2>1 DEF Course, Turns, Making, Migrating, Registering
<1>5. ASSUME Undisturbed PROVE Undisturbed'
  <2>1. Registers(p) /\ Progress(p)
    BY <1>1, <1>5 DEF Registers, Undisturbed
  <2>2. \A x \in Planned(p) : Whole(x)
    BY <1>1, <2>1 DEF Progress, Making
  <2>3. at = "open apps" => tool'[p].seen = Present
    BY <1>1, <1>2, <1>3, <2>1 DEF Course, Progress, Making
  <2>4. Progress(p)'
    <3>1. tool[p].at \in Making /\ at \in Making \ {"files"}
      BY <1>1, <1>2 DEF Making, Registering
    <3>2. /\ at \in Registering => at = "open apps"
          /\ at \in {"stat"} \cup Registering => tool'[p].seen = Present
          /\ at \notin Registering \ {"open apps"} /\ at # "tidy"
          /\ tool[p].at \notin Registering \ {"open apps"}
      BY <1>1, <1>2, <2>3 DEF Registering
    <3> QED
      BY <1>1, <1>3, <2>1, <2>2, <3>1, <3>2, StandingProgress
  <2>5. at \in Making /\ tool[p].at \notin Calm
    BY <1>1, <1>2 DEF Making, Registering, Calm
  <2> QED
    BY <1>1, <1>3, <1>5, <2>1, <2>4, <2>5, StandingRegistry
<1>6. at \in Stages \ {"down", "undo", "idle", "killed"} /\ at \notin {"compile", "select"}
  BY <1>2 DEF Stages, Making, Registering
<1> QED
  BY <1>1, <1>3, <1>4, <1>5, <1>6, StandStep

\* A step that changes what the tool has seen, and where it is.
LEMMA SawTool ==
  ASSUME Typed, NEW p \in Tools, NEW at \in Stages, NEW seen \in SUBSET Apps,
         tool' = [tool EXCEPT ![p].at = at, ![p].seen = seen]
  PROVE  /\ Moves(p) /\ Turns(p, at, tool[p].answer) /\ tool'[p].seen = seen
         /\ tool'[p].written = tool[p].written
<1> DEFINE u == [tool[p] EXCEPT !.at = at, !.seen = seen]
<1>1. tool' = [tool EXCEPT ![p] = u]
  BY DEF Typed
<1>2. /\ u \in Command /\ u.at = at /\ u.answer = tool[p].answer
      /\ u.kind = tool[p].kind /\ u.app = tool[p].app /\ u.name = tool[p].name
      /\ u.own = tool[p].own /\ u.seen = seen /\ u.stamp = tool[p].stamp
      /\ u.written = tool[p].written
  <2>1. tool[p] \in Command
    BY DEF Typed
  <2> QED
    BY <2>1 DEF Command
<1> HIDE DEF u
<1>3. tool'[p] = u /\ Moves(p)
  BY <1>1, <1>2 DEF Typed, Moves
<1> QED
  BY <1>2, <1>3 DEF Turns

\* An app sees itself, and all the others.
LEMMA SeenStep ==
  ASSUME IInv, NEW p \in Tools, NEW at, NEW seen \in SUBSET Apps,
         \/ tool[p].at = "readdir" /\ at = "stat"
         \/ tool[p].at = "stat" /\ at = "open apps",
         Undisturbed /\ Progress(p) => seen = Present,
         tool' = [tool EXCEPT ![p].at = at, ![p].seen = seen],
         UNCHANGED <<fs, second, spoiled, uprooted, disturbed>>
  PROVE  IInv'
<1>1. /\ Typed /\ Course(p) /\ tool[p].kind = "startapp" /\ Busy(p)
      /\ tool[p].own = Home(p) /\ tool[p].answer = "none"
      /\ at \in Stages \ {"down", "undo", "idle", "killed"}
      /\ at \in Making \ {"files"} /\ tool[p].at \in Making
  BY DEF IInv, Course, Typed, Command, Busy, Stages, Making, Registering
<1>2. Moves(p) /\ Turns(p, at, "none") /\ tool'[p].seen = seen
  <2>1. at \in Stages /\ Typed
    BY <1>1
  <2>2. Moves(p) /\ Turns(p, at, tool[p].answer) /\ tool'[p].seen = seen
    BY <2>1, SawTool
  <2> QED
    BY <1>1, <2>2
<1>3. Course(p)'
  <2>1. Home(p)' = Home(p)
    BY <1>2, TurnedTool
  <2> QED
    BY <1>1, <1>2, <2>1 DEF Course, Turns, Making, Migrating, Registering
<1>4. ASSUME Undisturbed PROVE Undisturbed'
  <2>1. Registers(p) /\ Progress(p)
    BY <1>1, <1>4 DEF Registers, Undisturbed
  <2>2. (\A x \in Planned(p) : Whole(x)) /\ seen = Present
    BY <1>1, <1>4, <2>1 DEF Progress, Making
  <2>3. /\ at \in Registering => at = "open apps"
        /\ at \notin Registering \ {"open apps"} /\ at # "tidy"
        /\ tool[p].at \notin Registering \ {"open apps"} /\ tool[p].at \notin Calm
    BY DEF Registering, Calm
  <2>4. Progress(p)'
    BY <1>1, <1>2, <2>1, <2>2, <2>3, StandingProgress
  <2> QED
    BY <1>1, <1>2, <1>4, <2>1, <2>3, <2>4, StandingRegistry
<1>5. at \notin {"compile", "select"} /\ tool[p].at \notin {"down", "undo"}
  BY <1>1
<1> QED
  BY <1>1, <1>2, <1>3, <1>4, <1>5, StandStep

LEMMA ReadDirStep == ASSUME IInv, NEW p \in Tools, ReadDir(p) PROVE IInv'
<1>1. /\ tool[p].at = "readdir" /\ Busy(p) /\ disturbed' \in BOOLEAN
      /\ UNCHANGED <<fs, second, spoiled, uprooted, disturbed>>
  BY DEF ReadDir, At, Busy, Rest, IInv, Typed
<1>2. CASE Abort(p, tool[p].own)
  BY <1>1, <1>2, AbortStep DEF Registering
<1>3. CASE tool' = [tool EXCEPT ![p].at = "stat",
                       ![p].seen = {a \in Apps : Exists(AppDir(a))}]
  BY <1>1, <1>3, SeenStep DEF Present
<1> QED
  BY <1>2, <1>3 DEF ReadDir

LEMMA StatStep == ASSUME IInv, NEW p \in Tools, Stat(p) PROVE IInv'
<1> DEFINE seen == {a \in tool[p].seen : Exists(AppGo(a))}
<1>1. /\ tool[p].at = "stat" /\ UNCHANGED <<fs, second, spoiled, uprooted, disturbed>>
      /\ tool' = [tool EXCEPT ![p].at = "open apps", ![p].seen = seen]
  BY DEF Stat, At, Rest
<1>2. seen \in SUBSET Apps
  BY DEF IInv, Typed, Command
<1>3. ASSUME Progress(p) PROVE seen = Present
  <2>1. tool[p].seen = Present /\ Kept(Present \ {tool[p].app}) /\ tool[p].kind = "startapp"
    BY <1>1, <1>3 DEF Progress, Making, IInv, Course
  <2>2. \A x \in Sources(tool[p].app) : Whole(x)
    BY <1>1, <1>3, <2>1 DEF Progress, Making, Planned
  <2>3. \A a \in Present : Whole(AppGo(a))
    BY <2>1, <2>2, PlaceIn DEF Kept, Sound
  <2> QED
    BY <2>1, <2>3 DEF Whole
<1> HIDE DEF seen
<1> QED
  BY <1>1, <1>2, <1>3, SeenStep

LEMMA TidyStep == ASSUME IInv, NEW p \in Tools, Tidy(p) PROVE IInv'
<1>1. /\ tool[p].at = "tidy" /\ UNCHANGED <<fs, second, spoiled, uprooted, disturbed>>
      /\ Busy(p) /\ End(p, "ok")
      /\ Typed /\ Course(p) /\ tool[p].kind = "startproject" /\ tool[p].own = Home(p)
  BY DEF Tidy, At, Rest, Busy, IInv, Course, Making
<1>2. Moves(p) /\ Turns(p, "done", "ok") /\ Recalls(p)
  BY <1>1, Ended
<1>3. Course(p)'
  <2>1. Home(p)' = Home(p)
    BY <1>2, TurnedTool
  <2> QED
    BY <1>1, <1>2, <2>1 DEF Course, Turns, Recalls, Making, Migrating, Registering
<1>4. ASSUME Undisturbed PROVE Undisturbed'
  <2>1. Registers(p) /\ Progress(p)
    BY <1>1, <1>4 DEF Registers, Undisturbed
  <2>2. Built
    BY <1>1, <2>1 DEF Progress, Built, Kept, Sound, Making, Planned
  <2>3. Built' /\ Settled \subseteq Present'
    BY <1>1, <2>2, StandingTree, CoreKept DEF Settled
  <2>4. ~Registers(p)'
    BY <1>2 DEF Registers, Busy, Turns
  <2>5. /\ tool'[p].at \notin {"select", "stat pair"}
        /\ tool'[p].kind = tool[p].kind /\ tool'[p].app = tool[p].app
    BY <1>2 DEF Turns
  <2> QED
    BY <1>2, <1>4, <2>1, <2>3, <2>4, <2>5, RegisterStep
<1>5. "done" \in Stages \ {"down", "undo", "idle", "killed"}
  BY DEF Stages
<1> QED
  BY <1>1, <1>2, <1>3, <1>4, <1>5, StandStep
-----------------------------------------------------------------------------
(* What begins, what is cut off, and makemigration before it writes          *)

\* An error before anything was written.
LEMMA CutStep ==
  ASSUME IInv, NEW p \in Tools, Busy(p), Go(p, "killed"),
         UNCHANGED <<fs, second, uprooted>>,
         disturbed' = (disturbed \/ Registers(p)),
         spoiled' = (spoiled \/ tool[p].kind = "makemigration")
  PROVE  IInv'
<1>1. Typed /\ Course(p)
  BY DEF IInv
<1>2. "killed" \in Stages
  BY DEF Stages
<1>3. Moves(p) /\ Turns(p, "killed", tool[p].answer) /\ Recalls(p)
  BY <1>1, <1>2, Went
<1>4. Leaves(p) /\ Spares(p) /\ SameCore /\ Tree'
  BY StandingTree
<1>5. Typed'
  BY <1>1, <1>3 DEF Typed, Moves
<1>6. Home(p)' = Home(p) /\ ~Busy(p)'
  BY <1>3, TurnedTool
<1>7. Course(p)'
  BY <1>1, <1>3, <1>6 DEF Course, Turns, Recalls, Busy, Making, Migrating, Registering
<1>8. Mine(p)'
  <2>1. "killed" = "done" => FALSE
    OBVIOUS
  <2> QED
    BY <1>2, <1>3, StandingMine
<1>9. Holding(p)'
  BY <1>3, <1>6 DEF Holding, Turns
<1>10. ASSUME ~disturbed' PROVE Undisturbed'
  <2>1. Undisturbed /\ ~Registers(p) /\ ~Registers(p)'
    BY <1>6, <1>10 DEF IInv, Registers
  <2> QED
    BY <1>3, <1>4, <2>1, AsideStep DEF Turns
<1>11. ASSUME ~spoiled', ~uprooted' PROVE Catalogued'
  <2>1. Catalogued /\ tool[p].kind # "makemigration"
    BY <1>11 DEF IInv
  <2> QED
    BY <1>3, <1>4, <2>1, NoMigrationStep DEF Turns
<1> QED
  BY <1>3, <1>4, <1>5, <1>7, <1>8, <1>9, <1>10, <1>11, Combined

LEMMA KilledStep == ASSUME IInv, NEW p \in Tools, Killed(p) PROVE IInv'
BY CutStep DEF Killed

\* The second side cannot be made.
LEMMA UndoingStep ==
  ASSUME IInv, NEW p \in Tools, tool[p].at = "down", Go(p, "undo"),
         UNCHANGED <<fs, second, disturbed, spoiled, uprooted>>
  PROVE  IInv'
<1>1. /\ Typed /\ Course(p) /\ Busy(p) /\ tool[p].kind = "makemigration"
      /\ tool[p].answer = "none" /\ "undo" \in Stages
  BY DEF IInv, Course, Typed, Command, Busy, Stages, Migrating
<1>2. Moves(p) /\ Turns(p, "undo", tool[p].answer) /\ Recalls(p)
  BY <1>1, Went
<1>3. Leaves(p) /\ Spares(p) /\ SameCore /\ Tree'
  BY StandingTree
<1>4. Typed'
  BY <1>1, <1>2 DEF Typed, Moves
<1>5. /\ Home(p)' = Home(p) /\ Pair(p, "up")' = Pair(p, "up") /\ Sides(p)' = Sides(p)
  BY <1>2, TurnedTool
<1>6. Course(p)'
  BY <1>1, <1>2, <1>5 DEF Course, Turns, Recalls, Making, Migrating, Registering
<1>7. Mine(p)'
  BY <1>1, <1>2, StandingMine
<1>8. Holding(p) => Holding(p)'
  BY <1>1, <1>2, <1>5 DEF Holding, Turns, Course, Exists
<1>9. ASSUME ~disturbed' PROVE Undisturbed'
  <2>1. Undisturbed /\ ~Registers(p) /\ ~Registers(p)'
    BY <1>1, <1>2, <1>9 DEF IInv, Registers, Turns
  <2> QED
    BY <1>2, <1>3, <2>1, AsideStep DEF Turns
<1>10. ASSUME ~spoiled', ~uprooted' PROVE Catalogued'
  <2>1. Catalogued
    BY <1>10 DEF IInv
  <2>2. ASSUME NEW x \in DOMAIN fs', IsMigration(x), fs'[x].by = p
        PROVE  x = Pair(p, "up")
    <3>1. x \in Migrations /\ fs[x].by = p
      BY <2>2 DEF Migrations
    <3> QED
      BY <1>1, <2>1, <3>1 DEF Catalogued
  <2> QED
    BY <1>1, <1>2, <1>3, <1>5, <2>1, <2>2, CatalogueStep DEF Turns
<1>11. ~uprooted' => ~uprooted /\ Spares(p) /\ Holding(p)'
  BY <1>3, <1>8 DEF IInv
<1> QED
  BY <1>2, <1>3, <1>4, <1>6, <1>7, <1>9, <1>10, <1>11, Combined

LEMMA FailsStep == ASSUME IInv, NEW p \in Tools, Fails(p) PROVE IInv'
<1>1. CASE At(p, "down")
  BY <1>1, UndoingStep DEF Fails, At, IInv, Typed
<1>2. CASE ~At(p, "down")
  <2>1. /\ UNCHANGED <<fs, second, spoiled, uprooted>> /\ Abort(p, tool[p].own) /\ Busy(p)
        /\ tool[p].at \notin {"cleanup", "down", "undo"}
    BY <1>2 DEF Fails, At
  <2>2. disturbed' = (disturbed \/ tool[p].at \in Registering)
    BY DEF Fails, Registering
  <2>3. disturbed' \in BOOLEAN
    BY <2>2 DEF IInv, Typed
  <2> QED
    BY <2>1, <2>2, <2>3, AbortStep
<1> QED
  BY <1>1, <1>2

\* The apps that go build accepts are there to stay.
LEMMA CompiledSettled ==
  ASSUME IInv, Undisturbed, Compiles
  PROVE  fs[AppsGo].apps \subseteq Settled
<1>1. Exists(AppsGo) /\ fs[AppsGo] \in Nodes
  BY DEF Compiles, Whole, Registry, Exists, IInv, Typed
<1>2. fs[AppsGo].apps \subseteq Present
  <2> SUFFICES ASSUME NEW a \in fs[AppsGo].apps PROVE a \in Present
    OBVIOUS
  <2>1. a \in Apps
    BY <1>1 DEF Nodes
  <2>2. AppGo(a) \in DOMAIN fs
    BY PlaceIn DEF Compiles, Whole, Exists
  <2>3. AppDir(a) \in Above(AppGo(a))
    BY PlaceIn, AboveOf
  <2> QED
    BY <2>1, <2>2, <2>3 DEF IInv, Tree, Present, Exists
<1>3. ASSUME NEW a \in fs[AppsGo].apps, NEW p \in Tools, Registers(p),
             tool[p].kind = "startapp", tool[p].app = a, tool[p].at \notin Calm
      PROVE  FALSE
  <2>1. tool[p].at \in Making
    BY <1>3 DEF IInv, Typed, Command, Course, Registers, Busy, Stages, Calm
  <2>2. Progress(p)
    BY <1>3 DEF Undisturbed
  <2>3. CASE tool[p].at = "write apps"
    BY <1>3, <2>1, <2>2, <2>3 DEF Progress, Blank
  <2>4. CASE tool[p].at # "write apps"
    <3>1. tool[p].at \notin Registering \ {"open apps"}
      BY <1>3, <2>4 DEF Registering, Calm
    <3>2. Lists(AppsGo, Present \ {a})
      BY <1>3, <2>1, <2>2, <3>1 DEF Progress
    <3> QED
      BY <1>3, <3>2 DEF Lists
  <2> QED
    BY <2>3, <2>4
<1> QED
  BY <1>2, <1>3 DEF Settled

LEMMA CompileStep == ASSUME IInv, NEW p \in Tools, Compile(p) PROVE IInv'
<1>1. /\ tool[p].at = "compile" /\ UNCHANGED <<fs, second, spoiled, uprooted, disturbed>>
      /\ Typed /\ Course(p) /\ Busy(p) /\ tool[p].kind = "makemigration"
      /\ tool[p].own = Nowhere /\ tool[p].answer = "none" /\ disturbed' \in BOOLEAN
  BY DEF Compile, At, Rest, Busy, IInv, Course, Typed, Command, Migrating
<1>2. CASE Abort(p, Nowhere)
  BY <1>1, <1>2, AbortStep
<1>3. CASE Compiles /\ tool' = [tool EXCEPT ![p].at = "select", ![p].seen = fs[AppsGo].apps]
  <2>1. fs[AppsGo].apps \in SUBSET Apps /\ "select" \in Stages \ {"down", "undo", "idle", "killed"}
    BY <1>1, <1>3 DEF Compiles, Whole, Registry, Exists, Typed, Nodes, Stages, Migrating
  <2>2. Moves(p) /\ Turns(p, "select", tool[p].answer) /\ tool'[p].seen = fs[AppsGo].apps
    BY <1>1, <1>3, <2>1, SawTool
  <2>3. Course(p)'
    <3>1. Home(p)' = Home(p)
      BY <2>2, TurnedTool
    <3> QED
      BY <1>1, <2>2, <3>1 DEF Course, Turns, Making, Migrating, Registering
  <2>4. ASSUME Undisturbed PROVE Undisturbed'
    <3>1. ~Registers(p) /\ ~Registers(p)'
      BY <1>1, <2>2 DEF Registers, Turns
    <3>2. tool'[p].at = "select" /\ tool'[p].seen \subseteq Settled
      BY <1>3, <2>2, <2>4, CompiledSettled DEF Turns
    <3>3. SameCore
      BY <1>1, StandingTree
    <3> QED
      BY <2>2, <2>4, <3>1, <3>2, <3>3, AsideStep
  <2> QED
    BY <1>1, <2>1, <2>2, <2>3, <2>4, StandStep
<1> QED
  BY <1>2, <1>3 DEF Compile

LEMMA SelectStep == ASSUME IInv, NEW p \in Tools, Select(p) PROVE IInv'
<1>1. /\ tool[p].at = "select" /\ UNCHANGED <<fs, second, spoiled, uprooted, disturbed>>
      /\ Typed /\ Course(p) /\ Mine(p) /\ Busy(p) /\ tool[p].kind = "makemigration"
      /\ tool[p].own = Nowhere /\ tool[p].answer = "none" /\ disturbed' \in BOOLEAN
  BY DEF Select, At, Rest, Busy, IInv, Course, Typed, Command, Migrating
<1>2. CASE Abort(p, Nowhere)
  BY <1>1, <1>2, AbortStep
<1>3. CASE Selected(p) /\ tool' = [tool EXCEPT ![p].at = "stat pair", ![p].stamp = second]
  <2> DEFINE u == [tool[p] EXCEPT !.at = "stat pair", !.stamp = second]
  <2>1. tool' = [tool EXCEPT ![p] = u]
    BY <1>1, <1>3 DEF Typed
  <2>2. /\ u \in Command /\ u.at = "stat pair" /\ u.answer = "none"
        /\ u.kind = "makemigration" /\ u.app = tool[p].app /\ u.own = Nowhere
    BY <1>1 DEF Typed, Command, Stages, Migrating
  <2> HIDE DEF u
  <2>3. tool'[p] = u /\ Moves(p)
    BY <1>1, <2>1, <2>2 DEF Typed, Moves
  <2>4. Leaves(p) /\ Spares(p) /\ SameCore /\ Tree'
    BY <1>1, StandingTree
  <2>5. Typed'
    BY <1>1, <2>3 DEF Typed, Moves
  <2>6. Course(p)'
    BY <1>1, <2>2, <2>3 DEF Course, Making, Migrating, Registering
  <2>7. Mine(p)'
    BY <1>1 DEF Mine
  <2>8. Holding(p)'
    BY <2>2, <2>3 DEF Holding
  <2>9. ASSUME ~disturbed' PROVE Undisturbed'
    <3>1. Undisturbed /\ ~Registers(p) /\ ~Registers(p)'
      BY <1>1, <2>2, <2>3, <2>9 DEF IInv, Registers
    <3>2. tool[p].app \in Settled
      BY <1>1, <1>3, <3>1 DEF Selected, Undisturbed
    <3> QED
      BY <2>2, <2>3, <2>4, <3>1, <3>2, AsideStep
  <2>10. ASSUME ~spoiled', ~uprooted' PROVE Catalogued'
    <3>1. Catalogued
      BY <1>1, <2>10 DEF IInv
    <3> QED
      BY <1>1, <2>2, <2>3, <2>4, <3>1, NoMigrationStep
  <2> QED
    BY <1>1, <2>3, <2>4, <2>5, <2>6, <2>7, <2>8, <2>9, <2>10, Combined
<1> QED
  BY <1>2, <1>3 DEF Select

\* A tool that begins has made nothing.
LEMMA BeginStep == ASSUME IInv, NEW p \in Tools, Begin(p) PROVE IInv'
<1>1. /\ tool[p].at = "idle" /\ UNCHANGED <<fs, second, spoiled, uprooted>>
      /\ Typed /\ Course(p) /\ Mine(p) /\ tool[p] = Idle
      /\ disturbed' = (disturbed \/ \E q \in Tools : Registers(q))
  BY DEF Begin, At, IInv, Course
<1> DEFINE Begun(v) ==
             /\ v.own = Nowhere /\ v.answer = "none" /\ v.written = {} /\ v.seen = {}
             /\ \/ v.kind = "startproject" /\ v.at = "mkdir" /\ v.app = "none"
                \/ v.kind = "startapp" /\ v.at = "discover" /\ v.app \in Apps
                \/ v.kind = "makemigration" /\ v.at = "compile" /\ v.app \in Apps
<1>2. PICK u \in Command : tool' = [tool EXCEPT ![p] = u] /\ Begun(u)
  <2>1. CASE tool' = [tool EXCEPT ![p].kind = "startproject", ![p].at = "mkdir"]
    <3> DEFINE v == [tool[p] EXCEPT !.kind = "startproject", !.at = "mkdir"]
    <3>1. v \in Command
      <4>1. tool[p] \in Command
        BY <1>1 DEF Typed
      <4> QED
        BY <4>1 DEF Command, Stages
    <3>2. tool' = [tool EXCEPT ![p] = v]
      BY <2>1, <1>1 DEF Typed
    <3>3. /\ v.own = Nowhere /\ v.answer = "none" /\ v.written = {} /\ v.seen = {}
          /\ v.kind = "startproject" /\ v.at = "mkdir" /\ v.app = "none"
      BY <1>1 DEF Idle
    <3> QED
      BY <3>1, <3>2, <3>3
  <2>2. ASSUME NEW a \in Apps,
               tool' = [tool EXCEPT ![p].kind = "startapp", ![p].at = "discover",
                                    ![p].app = a]
        PROVE  \E v \in Command : tool' = [tool EXCEPT ![p] = v] /\ Begun(v)
    <3> DEFINE v == [tool[p] EXCEPT !.kind = "startapp", !.at = "discover", !.app = a]
    <3>1. v \in Command
      <4>1. tool[p] \in Command
        BY <1>1 DEF Typed
      <4> QED
        BY <4>1, <2>2 DEF Command, Stages
    <3>2. tool' = [tool EXCEPT ![p] = v]
      BY <2>2, <1>1 DEF Typed
    <3>3. /\ v.own = Nowhere /\ v.answer = "none" /\ v.written = {} /\ v.seen = {}
          /\ v.kind = "startapp" /\ v.at = "discover" /\ v.app = a
      BY <1>1 DEF Idle
    <3> QED
      BY <3>1, <3>2, <3>3
  <2>3. ASSUME NEW a \in Apps, NEW n \in Names, NEW h \in {"named", "inside", "alone"},
               tool' = [tool EXCEPT
                 ![p].kind = "makemigration", ![p].at = "compile",
                 ![p].app = a, ![p].name = n, ![p].how = h]
        PROVE  \E v \in Command : tool' = [tool EXCEPT ![p] = v] /\ Begun(v)
    <3> DEFINE v == [tool[p] EXCEPT !.kind = "makemigration", !.at = "compile",
                                    !.app = a, !.name = n, !.how = h]
    <3>1. v \in Command
      <4>1. /\ tool[p] \in Command /\ "compile" \in Stages /\ a \in Apps \cup {"none"}
            /\ n \in Names \cup {"none"} /\ h \in {"none", "named", "inside", "alone"}
        BY <1>1 DEF Typed, Stages, Migrating
      <4> QED
        BY <4>1 DEF Command
    <3>2. tool' = [tool EXCEPT ![p] = v]
      BY <2>3, <1>1 DEF Typed
    <3>3. /\ v.own = Nowhere /\ v.answer = "none" /\ v.written = {} /\ v.seen = {}
          /\ v.kind = "makemigration" /\ v.at = "compile" /\ v.app = a
      BY <1>1 DEF Idle
    <3> QED
      BY <3>1, <3>2, <3>3
  <2> QED
    BY <2>1, <2>2, <2>3 DEF Begin
<1>3. tool'[p] = u /\ Moves(p)
  BY <1>1, <1>2 DEF Typed, Moves
<1>4. Leaves(p) /\ Spares(p) /\ SameCore /\ Tree' /\ Present' = Present
  BY <1>1, StandingTree
<1>5. Typed'
  BY <1>1, <1>3 DEF Typed, Moves
<1>6. Course(p)'
  BY <1>2, <1>3 DEF Course, Making, Migrating, Registering
<1>7. Mine(p)'
  BY <1>1 DEF Mine
<1>8. Holding(p)'
  BY <1>2, <1>3 DEF Holding
<1>9. ASSUME ~disturbed' PROVE Undisturbed'
  <2>1. Undisturbed /\ \A q \in Tools : ~Registers(q)
    BY <1>1, <1>9 DEF IInv
  <2>2. CASE u.kind = "makemigration"
    <3>1. ~Registers(p)' /\ u.at = "compile"
      BY <1>2, <1>3, <2>2 DEF Registers
    <3> QED
      BY <1>3, <1>4, <2>1, <3>1, AsideStep
  <2>3. CASE u.kind \in {"startproject", "startapp"}
    <3>1. (Exists(Root)' <=> Exists(Root)) /\ (Built' <=> Built)
      BY <1>4, CoreKept
    <3>2. \A q \in Tools \ {p} : tool'[q] = tool[q] /\ ~Registers(q)'
      BY <1>3, <2>1, SameTool DEF Moves
    <3>3. u.at \in {"mkdir", "discover"} /\ u.at \in Calm
      BY <1>2, <2>3 DEF Calm
    <3>4. Progress(p)'
      BY <1>3, <2>1, <3>1, <3>3 DEF Progress, Undisturbed, Making, Registering
    <3>5. Registers(p)'
      BY <1>3, <2>3, <3>3 DEF Registers, Busy
    <3>6. Settled \subseteq Settled'
      BY <1>3, <1>4, <3>2, <3>3 DEF Settled
    <3>7. \A q \in Tools :
            /\ tool'[q].at = "select" => tool'[q].seen \subseteq Settled'
            /\ tool'[q].at = "stat pair" => tool'[q].app \in Settled'
      BY <1>3, <2>1, <3>2, <3>3, <3>6 DEF Undisturbed
    <3>8. \A q, r \in Tools : Registers(q)' /\ Registers(r)' => q = r
      BY <3>2
    <3>9. \A q \in Tools : Registers(q)' => Progress(q)'
      BY <3>2, <3>4
    <3> QED
      BY <3>5, <3>7, <3>8, <3>9 DEF Undisturbed
  <2> QED
    BY <1>2, <2>2, <2>3
<1>10. ASSUME ~spoiled', ~uprooted' PROVE Catalogued'
  <2>1. Catalogued /\ tool[p].kind # "makemigration"
    BY <1>1, <1>10 DEF IInv, Idle
  <2> QED
    BY <1>1, <1>2, <1>3, <1>4, <2>1, NoMigrationStep
<1> QED
  BY <1>1, <1>3, <1>4, <1>5, <1>6, <1>7, <1>8, <1>9, <1>10, Combined

\* The clock, and nothing at all.
LEMMA TickStep ==
  ASSUME IInv, UNCHANGED <<fs, tool, disturbed, spoiled, uprooted>>, second' \in Nat
  PROVE  IInv'
<1>1. Typed'
  BY DEF IInv, Typed
<1>2. Tree'
  BY DEF IInv, Tree
<1>3. SameCore
  BY DEF SameCore, Exists
<1>4. \A q \in Tools : /\ tool'[q] = tool[q] /\ Pair(q, "up")' = Pair(q, "up")
                       /\ Sides(q)' = Sides(q) /\ (Failed(q)' <=> Failed(q))
                       /\ (Busy(q)' <=> Busy(q)) /\ (Registers(q)' <=> Registers(q))
  BY SameTool
<1>5. ASSUME NEW q \in Tools
      PROVE  Course(q)' /\ Mine(q)' /\ (Holding(q) => Holding(q)')
  <2>1. Course(q)'
    BY <1>4, SameTool DEF IInv
  <2>2. Mine(q)'
    BY <1>4 DEF IInv, Mine
  <2>3. Holding(q) => Holding(q)'
    BY <1>4 DEF Holding, Exists
  <2> QED
    BY <2>1, <2>2, <2>3
<1>6. ASSUME Undisturbed PROVE Undisturbed'
  <2>1. (Exists(Root)' <=> Exists(Root)) /\ (Built' <=> Built) /\ Present' = Present
    BY <1>3, CoreKept
  <2>2. Settled' = Settled
    BY <1>4, <2>1 DEF Settled
  <2>3. \A q \in Tools : Registers(q)' => Progress(q)'
    BY <1>3, <1>4, <1>6, CoreProgress DEF Undisturbed, IInv
  <2> QED
    BY <1>4, <1>6, <2>1, <2>2, <2>3 DEF Undisturbed
<1>7. Catalogued => Catalogued'
  BY <1>4 DEF Catalogued, Migrations, Exists
<1> QED
  BY <1>1, <1>2, <1>5, <1>6, <1>7 DEF IInv
-----------------------------------------------------------------------------
(* Steps that add to the tree                                                *)

LEMMA GrownTree ==
  ASSUME IInv, NEW p \in Tools, NEW paths \in SUBSET Paths,
         NEW state \in {"whole", "partial"}, Grows(p, paths, state),
         \A x \in paths : x.where # "nowhere" /\ Above(x) \subseteq DOMAIN fs \cup paths
  PROVE  /\ Leaves(p) /\ Spares(p) /\ Tree'
         /\ DOMAIN fs' \subseteq Paths /\ \A x \in DOMAIN fs' : fs'[x] \in Nodes
<1>1. Node(p, state) \in Nodes /\ Node(p, state).by = p
  BY NodeIs
<1>2. Leaves(p) /\ Spares(p)
  BY <1>1 DEF Grows, Leaves, Spares
<1>3. Tree'
  BY DEF IInv, Tree, Grows
<1>4. DOMAIN fs' \subseteq Paths
  BY DEF IInv, Typed, Grows
<1>5. \A x \in DOMAIN fs' : fs'[x] \in Nodes
  BY <1>1 DEF IInv, Typed, Grows
<1> QED
  BY <1>2, <1>3, <1>4, <1>5

\* What was said of the files stays true, of the apps there were.
LEMMA GrownFiles ==
  ASSUME NEW p, NEW paths, NEW state, Grows(p, paths, state)
  PROVE  /\ \A x : Exists(x) => Exists(x)'
         /\ \A x : Exists(x)' => Exists(x) \/ x \in paths
         /\ \A x : Whole(x) => Whole(x)'
         /\ \A x : Blank(x) => Blank(x)'
         /\ \A x, apps : Lists(x, apps) => Lists(x, apps)'
         /\ \A x : Exists(x) => fs'[x] = fs[x]
<1>1. \A x : Exists(x) => Exists(x)' /\ fs'[x] = fs[x]
  BY DEF Grows, Exists
<1>2. \A x : Exists(x)' => Exists(x) \/ x \in paths
  BY DEF Grows, Exists
<1> QED
  BY <1>1, <1>2 DEF Whole, Blank, Lists

LEMMA GrownKept ==
  ASSUME NEW p, NEW paths, NEW state, Grows(p, paths, state)
  PROVE  \A apps : Kept(apps) => Kept(apps)'
<1> SUFFICES ASSUME NEW apps, Kept(apps)
    PROVE  /\ \A x \in Skeleton : Whole(x)'
           /\ \A a \in apps : \A x \in Sources(a) : Whole(x)'
  BY DEF Kept, Sound
<1> QED
  BY GrownFiles DEF Kept, Sound

LEMMA GrownPresent ==
  ASSUME NEW p, NEW paths, NEW state, Grows(p, paths, state)
  PROVE  /\ Present \subseteq Present'
         /\ \A a \in Present' : a \in Present \/ AppDir(a) \in paths
         /\ (\A x \in paths : x.where # "app") => Present' = Present
<1>1. Present \subseteq Present' /\ \A a \in Present' : a \in Present \/ AppDir(a) \in paths
  BY GrownFiles DEF Present
<1>2. \A a : AppDir(a).where = "app"
  BY PlaceIn
<1> QED
  BY <1>1, <1>2

\* A migration, or its directory, is nothing to the registry.
LEMMA GrownCore ==
  ASSUME NEW p, NEW paths, NEW state, Grows(p, paths, state),
         \A x \in paths : Exists(x) \/ ~Core(x)
  PROVE  SameCore
BY GrownFiles DEF SameCore

\* What there is of p's own, besides what is added.
LEMMA GrownMine ==
  ASSUME NEW p, NEW paths, NEW state, Grows(p, paths, state),
         NEW x \in DOMAIN fs', fs'[x].by = p
  PROVE  \/ x \in paths \ DOMAIN fs /\ fs'[x] = Node(p, state)
         \/ x \in DOMAIN fs /\ fs'[x] = fs[x] /\ fs[x].by = p
BY DEF Grows

\* What the directory of a command is above.
LEMMA PlannedHome ==
  ASSUME NEW p \in Tools, tool[p].kind \in {"startproject", "startapp"}
  PROVE  /\ \A x \in Planned(p) : Home(p) \in Above(x)
         /\ \A x \in Planned(p) : \A d \in Above(x) : Dir(d)
         /\ \A x \in Planned(p) : \A d \in Above(x) :
              d \in {Root, AppsDir} \/ (tool[p].kind = "startapp" /\ d = Home(p))
<1>1. \A x \in Planned(p) :
        /\ tool[p].kind = "startproject" => Above(x) = {Root}
        /\ tool[p].kind = "startapp" => Above(x) = {Root, AppsDir, AppDir(tool[p].app)}
  BY PlaceOf, PlaceIn, AboveOf DEF Planned
<1>2. Dir(Root) /\ Dir(AppsDir) /\ Dir(AppDir(tool[p].app))
  BY PlaceOf, PlaceIn DEF Dir
<1> QED
  BY <1>1, <1>2 DEF Home

\* One that has made its directory keeps it while it adds to the tree.
LEMMA GrownHolding ==
  ASSUME NEW p, NEW paths, NEW state, Grows(p, paths, state),
         NEW at, NEW answer, Turns(p, at, answer),
         at \notin {"down", "undo"}, at \notin {"idle", "done", "killed"} => Busy(p),
         Holding(p)
  PROVE  Holding(p)'
<1>1. Busy(p)' => Busy(p)
  BY TurnedTool
<1> QED
  BY <1>1, GrownFiles DEF Holding, Turns

LEMMA MkdirStep == ASSUME IInv, NEW p \in Tools, Mkdir(p) PROVE IInv'
<1>1. /\ tool[p].at = "mkdir" /\ UNCHANGED <<second, spoiled, uprooted, disturbed>>
      /\ Typed /\ Tree /\ Course(p) /\ Mine(p) /\ Busy(p) /\ disturbed' \in BOOLEAN
      /\ tool[p].kind \in {"startproject", "startapp"}
      /\ tool[p].own = Nowhere /\ tool[p].answer = "none" /\ tool[p].written = {}
  BY DEF Mkdir, At, Rest, Busy, IInv, Course, Typed, Command, Making
<1> DEFINE d == Home(p)
<1>2. CASE Abort(p, tool[p].own) /\ UNCHANGED fs
  BY <1>1, <1>2, AbortStep DEF Registering
<1>3. CASE /\ ~Exists(d) /\ (d = Root \/ Exists(AppsDir))
           /\ fs' = Adding(p, {d}, "whole")
           /\ tool' = [tool EXCEPT ![p].at = "dirs", ![p].own = d]
  <2>1. /\ Grows(p, {d}, "whole") /\ d \in Paths /\ d.where \in {"root", "app"}
        /\ tool[p].kind = "startproject" => d = Root /\ tool[p].app = "none"
        /\ tool[p].kind = "startapp" => d = AppDir(tool[p].app) /\ tool[p].app \in Apps
        /\ tool[p].kind = "startapp" => d.where = "app"
    <3>1. tool[p].app \in Apps \cup {"none"} /\ "whole" \in {"whole", "partial"}
      BY <1>1 DEF Typed, Command
    <3>2. Grows(p, {d}, "whole")
      BY <1>3, AddingGrows
    <3>3. /\ tool[p].kind = "startproject" => d = Root /\ tool[p].app = "none"
          /\ tool[p].kind = "startapp" => d = AppDir(tool[p].app) /\ tool[p].app \in Apps
      BY <1>1 DEF Home, Course
    <3>4. d \in Paths
      BY <1>1, <3>1, <3>3, PathTypes
    <3>5. d.where \in {"root", "app"} /\ (tool[p].kind = "startapp" => d.where = "app")
      BY <3>3, HomeIs, PlaceIn
    <3> QED
      BY <3>2, <3>3, <3>4, <3>5
  <2>2. Above(d) \subseteq DOMAIN fs
    <3>1. CASE d.where = "root"
      BY <3>1, AboveOf
    <3>2. CASE d.where = "app"
      <4>1. AppsDir \in DOMAIN fs
        BY <1>3, <3>2, PlaceOf DEF Exists
      <4>2. Root \in Above(AppsDir)
        BY AboveOf, PlaceOf
      <4> QED
        BY <1>1, <3>2, <4>1, <4>2, AboveOf DEF Tree
    <3> QED
      BY <2>1, <3>1, <3>2
  <2>3. /\ Leaves(p) /\ Spares(p) /\ Tree'
        /\ DOMAIN fs' \subseteq Paths /\ \A x \in DOMAIN fs' : fs'[x] \in Nodes
    <3>1. \A x \in {d} : x.where # "nowhere" /\ Above(x) \subseteq DOMAIN fs \cup {d}
      BY <2>1, <2>2
    <3>2. {d} \in SUBSET Paths
      BY <2>1
    <3> HIDE DEF d
    <3> QED
      BY <2>1, <3>1, <3>2, GrownTree
  <2> DEFINE u == [tool[p] EXCEPT !.at = "dirs", !.own = d]
  <2>4. tool' = [tool EXCEPT ![p] = u]
    BY <1>1, <1>3 DEF Typed
  <2>5. /\ u \in Command /\ u.at = "dirs" /\ u.answer = "none" /\ u.own = d
        /\ u.kind = tool[p].kind /\ u.app = tool[p].app
        /\ u.written = {} /\ u.seen = tool[p].seen
    <3>1. tool[p] \in Command
      BY <1>1 DEF Typed
    <3> QED
      BY <3>1, <1>1, <2>1 DEF Command, Stages, Making
  <2> HIDE DEF u
  <2>6. tool'[p] = u /\ Moves(p)
    BY <1>1, <2>4, <2>5 DEF Typed, Moves
  <2>7. Typed'
    BY <1>1, <2>3, <2>6 DEF Typed, Moves
  <2>8. Home(p)' = d
    BY <2>5, <2>6 DEF Home
  <2>9. Course(p)'
    BY <1>1, <2>5, <2>6, <2>8 DEF Course, Making, Migrating, Registering
  <2>10. Mine(p)'
    <3>1. ~Failed(p)'
      BY <2>5, <2>6 DEF Failed, At
    <3> SUFFICES ASSUME NEW x \in DOMAIN fs', fs'[x].by = p
        PROVE  Dir(x) \/ x \in Registry
      BY <1>1, <2>5, <2>6, <3>1 DEF Mine
    <3>2. CASE x = d
      BY <2>1, <3>2 DEF Dir
    <3>3. CASE x # d
      <4>1. x \in DOMAIN fs /\ fs[x].by = p /\ x.where \in Wheres
        BY <1>1, <2>1, <3>3, GrownMine DEF Typed, Paths
      <4>2. Nowhere \notin Above(x)
        BY <4>1, AboveAbove, PlaceOf DEF Directories
      <4> QED
        BY <1>1, <4>1, <4>2 DEF Mine
    <3> QED
      BY <3>2, <3>3
  <2>11. Holding(p)'
    <3>1. d \in DOMAIN fs' /\ fs'[d].by = p
      <4>1. d \in {d} \ DOMAIN fs
        BY <1>3 DEF Exists
      <4>2. Node(p, "whole").by = p
        BY NodeIs
      <4> HIDE DEF d
      <4> QED
        BY <2>1, <4>1, <4>2 DEF Grows
    <3>2. /\ ~At(p, "down")' /\ ~At(p, "undo")'
          /\ tool'[p].own = d
      BY <2>5, <2>6 DEF At
    <3> HIDE DEF d
    <3> QED
      BY <3>1, <3>2 DEF Holding, Exists, At
  <2>12. ASSUME ~disturbed' PROVE Undisturbed'
    <3>1. Undisturbed /\ Registers(p) /\ Progress(p)
      BY <1>1, <2>12 DEF IInv, Registers, Undisturbed
    <3>2. Registers(p)'
      BY <1>1, <2>5, <2>6 DEF Registers, Busy
    <3>3. CASE tool[p].kind = "startproject"
      <4>1. ~Exists(Root)
        BY <1>3, <2>1, <3>3
      <4>2. Present = {}
        <5>1. \A a : Root \in Above(AppDir(a))
          BY AboveOf, PlaceIn
        <5> QED
          BY <1>1, <4>1, <5>1 DEF Present, Tree, Exists
      <4>3. ~Exists(AppsGo)
        <5>1. Root \in Above(AppsGo)
          BY AboveOf, PlaceOf
        <5> QED
          BY <1>1, <4>1, <5>1 DEF Tree, Exists
      <4>4. Present' = {}
        <5>1. \A x \in {d} : x.where # "app"
          BY <2>1, <3>3, PlaceOf
        <5> HIDE DEF d
        <5> QED
          BY <2>1, <4>2, <5>1, GrownPresent
      <4>5. ~Exists(AppsGo)'
        BY <2>1, <3>3, <4>3, PlaceOf, GrownFiles
      <4>6. Progress(p)'
        BY <2>5, <2>6, <3>3, <4>4, <4>5 DEF Progress, Making, Registering
      <4>7. Settled \subseteq Present'
        BY <4>2, <4>4 DEF Settled
      <4> QED
        BY <2>5, <2>6, <3>1, <3>2, <3>3, <4>6, <4>7, RegisterStep
    <3>4. CASE tool[p].kind = "startapp"
      <4>1. d = AppDir(tool[p].app) /\ tool[p].app \in Apps /\ tool[p].app \notin Present
        BY <1>3, <2>1, <3>4 DEF Present
      <4>2. Built
        <5>1. Exists(AppsDir)
          BY <1>3, <2>1, <3>4, PlaceOf
        <5>2. Root \in Above(AppsDir)
          BY AboveOf, PlaceOf
        <5> QED
          BY <1>1, <3>1, <5>1, <5>2 DEF Tree, Progress, Exists
      <4>3. Present' \ {tool[p].app} = Present
        <5>1. \A a : AppDir(a).app = a
          BY PlaceIn
        <5>2. \A a \in Present' : a \in Present \/ AppDir(a) = d
          BY <2>1, GrownPresent
        <5>3. Present \subseteq Present'
          BY <2>1, GrownPresent
        <5> QED
          BY <4>1, <5>1, <5>2, <5>3
      <4>4. tool'[p].app = tool[p].app /\ tool'[p].at = "dirs" /\ tool'[p].kind = "startapp"
        BY <2>5, <2>6, <3>4
      <4>5. (Present \ {tool[p].app})' = Present
        BY <4>3, <4>4
      <4>6. Exists(AppDir(tool[p].app))'
        <5>1. d \in DOMAIN fs'
          BY <2>1 DEF Grows
        <5> QED
          BY <4>1, <4>4, <5>1 DEF Exists
      <4>7. /\ Kept(Present \ {tool[p].app})' /\ Lists(AppsGo, Present \ {tool[p].app})'
            /\ Lists(CommandsGo, Present \ {tool[p].app})'
        <5>1. Kept(Present) /\ Lists(AppsGo, Present) /\ Lists(CommandsGo, Present)
          BY <4>2 DEF Built
        <5>2. /\ \A apps : Kept(apps) => Kept(apps)'
              /\ \A x, apps : Lists(x, apps) => Lists(x, apps)'
          BY <2>1, GrownKept, GrownFiles
        <5> QED
          BY <4>5, <5>1, <5>2
      <4>8. Progress(p)'
        BY <4>4, <4>6, <4>7 DEF Progress, Making, Registering
      <4>9. Settled \subseteq Present'
        BY <4>3 DEF Settled
      <4> QED
        BY <2>6, <3>1, <3>2, <3>4, <4>1, <4>4, <4>8, <4>9, RegisterStep
    <3> QED
      BY <1>1, <3>3, <3>4
  <2>13. ASSUME ~spoiled', ~uprooted' PROVE Catalogued'
    <3>1. Catalogued
      BY <1>1, <2>13 DEF IInv
    <3>2. \A x \in DOMAIN fs' \ DOMAIN fs : ~IsMigration(x)
      BY <2>1 DEF Grows, IsMigration
    <3> QED
      BY <1>1, <2>3, <2>5, <2>6, <3>1, <3>2, NoMigrationStep
  <2>14. ~uprooted' => ~uprooted /\ Spares(p) /\ Holding(p)'
    BY <1>1, <2>3, <2>11
  <2> QED
    BY <1>1, <2>3, <2>6, <2>7, <2>9, <2>10, <2>12, <2>13, <2>14, Combined
<1>4. d = IF tool[p].kind = "startproject" THEN Root ELSE AppDir(tool[p].app)
  BY DEF Home
<1> QED
  BY <1>2, <1>3, <1>4 DEF Mkdir

\* A project or an app gets its directories and its files.
LEMMA CreateStep ==
  ASSUME IInv, NEW p \in Tools, UNCHANGED <<second, spoiled, uprooted, disturbed>>,
         tool[p].at \in {"dirs", "files"}, Moves(p),
         NEW at, NEW answer, Turns(p, at, answer), tool'[p].seen = tool[p].seen,
         \/ at = "files" /\ answer = "none" /\ tool'[p].written \subseteq Planned(p)
         \/ at = "cleanup" /\ answer = "failed",
         NEW paths \in SUBSET Paths, NEW state \in {"whole", "partial"},
         Grows(p, paths, state),
         \A x \in paths :
           /\ x.where \notin {"nowhere", "migration"} /\ x \notin Registry
           /\ Above(x) \subseteq DOMAIN fs \cup paths
           /\ x.where = "app" => x = Home(p)
           /\ Dir(x) \/ Home(p) \in Above(x),
         Progress(p) /\ at = "files" => \A x \in tool'[p].written : Whole(x)'
  PROVE  IInv'
<1>1. /\ Typed /\ Tree /\ Course(p) /\ Mine(p) /\ Busy(p)
      /\ tool[p].kind \in {"startproject", "startapp"}
      /\ tool[p].own = Home(p) /\ tool[p].answer = "none" /\ tool[p].at \in Making
      /\ tool[p].kind = "startapp" => tool[p].app \in Apps
  BY DEF Busy, IInv, Course, Typed, Command, Making
<1>2. /\ Home(p)' = Home(p) /\ Planned(p)' = Planned(p) /\ Busy(p)' /\ ~Failed(p)'
  BY TurnedTool
<1>3. /\ Leaves(p) /\ Spares(p) /\ Tree'
      /\ DOMAIN fs' \subseteq Paths /\ \A x \in DOMAIN fs' : fs'[x] \in Nodes
  BY GrownTree
<1>4. Typed'
  BY <1>1, <1>3 DEF Typed, Moves
<1>5. Course(p)'
  BY <1>1, <1>2 DEF Course, Turns, Making, Migrating, Registering
<1>6. Mine(p)'
  <2> SUFFICES ASSUME NEW x \in DOMAIN fs', fs'[x].by = p
      PROVE  Dir(x) \/ x \in Registry \/ Home(p) \in Above(x)
    BY <1>1, <1>2 DEF Mine, Turns
  <2>1. CASE x \in paths
    BY <2>1
  <2>2. CASE x \notin paths
    <3>1. x \in DOMAIN fs /\ fs[x].by = p
      BY <2>2, GrownMine
    <3> QED
      BY <1>1, <3>1 DEF Mine
  <2> QED
    BY <2>1, <2>2
<1>7. Holding(p) => Holding(p)'
  <2>1. at \notin {"down", "undo"}
    OBVIOUS
  <2> QED
    BY <1>1, <2>1, GrownHolding
<1>8. ASSUME ~disturbed' PROVE Undisturbed'
  <2>1. Undisturbed /\ Registers(p) /\ Progress(p)
    BY <1>1, <1>8 DEF IInv, Registers, Undisturbed
  <2>2. /\ Registers(p)' /\ tool'[p].kind = tool[p].kind /\ tool'[p].app = tool[p].app
        /\ tool'[p].at = at /\ tool'[p].at \notin {"select", "stat pair"}
    BY <1>1, <1>2 DEF Registers, Turns
  <2>3. Present' = Present
    <3>1. \A a \in Present' : a \in Present \/ AppDir(a) \in paths
      BY GrownPresent
    <3>2. ASSUME NEW a \in Apps, AppDir(a) \in paths PROVE a \in Present
      <4>1. AppDir(a).where = "app" /\ AppDir(a) = Home(p)
        BY <3>2, PlaceIn
      <4>2. tool[p].kind = "startapp"
        BY <1>1, <4>1, PlaceOf DEF Home
      <4>3. Exists(AppDir(tool[p].app))
        BY <1>1, <2>1, <4>2 DEF Progress
      <4> QED
        BY <4>1, <4>2, <4>3 DEF Home, Present
    <3>3. Present \subseteq Present'
      BY GrownPresent
    <3> QED
      BY <3>1, <3>2, <3>3 DEF Present
  <2>4. (Present \ {tool[p].app})' = Present \ {tool[p].app}
    BY <2>2, <2>3
  <2>5. ASSUME tool[p].kind = "startproject"
        PROVE  Present' = {} /\ (Exists(AppsGo)' => Blank(AppsGo)')
    <3>1. Present = {} /\ (Exists(AppsGo) => Blank(AppsGo))
      BY <1>1, <2>1, <2>5 DEF Progress
    <3>2. AppsGo \notin paths
      BY DEF Registry
    <3>3. Exists(AppsGo)' => Exists(AppsGo)
      BY <3>2, GrownFiles
    <3>4. Blank(AppsGo) => Blank(AppsGo)'
      BY GrownFiles
    <3> QED
      BY <2>3, <3>1, <3>3, <3>4
  <2>6. ASSUME tool[p].kind = "startapp"
        PROVE  /\ Exists(AppDir(tool[p].app))' /\ Kept(Present \ {tool[p].app})'
               /\ Lists(AppsGo, Present \ {tool[p].app})'
               /\ Lists(CommandsGo, Present \ {tool[p].app})'
    <3>1. /\ Exists(AppDir(tool[p].app)) /\ Kept(Present \ {tool[p].app})
          /\ Lists(AppsGo, Present \ {tool[p].app})
          /\ Lists(CommandsGo, Present \ {tool[p].app})
      <4>1. tool[p].at \notin Registering
        BY DEF Registering
      <4> QED
        BY <1>1, <2>1, <2>6, <4>1 DEF Progress, Registering
    <3>2. /\ \A apps : Kept(apps) => Kept(apps)'
          /\ \A x, apps : Lists(x, apps) => Lists(x, apps)'
      BY GrownKept, GrownFiles
    <3>3. Exists(AppDir(tool[p].app))'
      <4>1. AppDir(tool[p].app) \in DOMAIN fs'
        BY <3>1 DEF Exists, Grows
      <4> QED
        BY <2>2, <4>1 DEF Exists
    <3> QED
      BY <2>4, <3>1, <3>2, <3>3
  <2>7. Progress(p)'
    BY <1>1, <2>1, <2>2, <2>5, <2>6 DEF Progress, Making, Registering
  <2>8. Settled \subseteq Present'
    BY <2>3 DEF Settled
  <2>9. tool[p].at \notin Calm
    BY DEF Calm
  <2> QED
    BY <2>1, <2>2, <2>7, <2>8, <2>9, RegisterStep
<1>9. ASSUME ~spoiled', ~uprooted' PROVE Catalogued'
  <2>1. Catalogued
    BY <1>9 DEF IInv
  <2>2. \A x \in DOMAIN fs' \ DOMAIN fs : ~IsMigration(x)
    BY DEF Grows, IsMigration
  <2>3. tool'[p].kind # "makemigration" /\ tool[p].kind # "makemigration"
    BY <1>1 DEF Turns
  <2> QED
    BY <1>3, <2>1, <2>2, <2>3, NoMigrationStep
<1>10. ~uprooted' => ~uprooted /\ Spares(p) /\ Holding(p)'
  BY <1>3, <1>7 DEF IInv
<1> QED
  BY <1>3, <1>4, <1>5, <1>6, <1>8, <1>9, <1>10, Combined

LEMMA DirsStep == ASSUME IInv, NEW p \in Tools, Dirs(p) PROVE IInv'
<1>1. /\ tool[p].at = "dirs" /\ UNCHANGED <<second, spoiled, uprooted, disturbed>>
      /\ Typed /\ Tree /\ Course(p) /\ Busy(p) /\ disturbed' \in BOOLEAN
      /\ tool[p].kind \in {"startproject", "startapp"}
      /\ tool[p].own = Home(p) /\ tool[p].answer = "none" /\ tool[p].written = {}
      /\ tool[p].kind = "startapp" => tool[p].app \in Apps
  BY DEF Dirs, At, Rest, Busy, IInv, Course, Typed, Command, Making
<1>2. CASE Abort(p, tool[p].own) /\ UNCHANGED fs
  BY <1>1, <1>2, AbortStep DEF Registering
<1>3. ASSUME Go(p, "files")
      PROVE  /\ Moves(p) /\ Turns(p, "files", "none") /\ tool'[p].seen = tool[p].seen
             /\ tool'[p].written = {}
  <2>1. "files" \in Stages
    BY DEF Stages, Making
  <2>2. Moves(p) /\ Turns(p, "files", tool[p].answer) /\ Recalls(p)
    BY <1>1, <1>3, <2>1, Went
  <2> QED
    BY <1>1, <2>2 DEF Recalls
<1>4. CASE /\ tool[p].kind = "startproject" /\ Go(p, "files")
           /\ fs' = Adding(p, {Root, Internal, AppsDir}, "whole")
  <2> DEFINE paths == {Root, Internal, AppsDir}
  <2>1. /\ Grows(p, paths, "whole") /\ paths \in SUBSET Paths
        /\ "whole" \in {"whole", "partial"}
    BY <1>4, AddingGrows, PathTypes
  <2>2. /\ Above(Root) = {} /\ Above(Internal) = {Root} /\ Above(AppsDir) = {Root}
    BY AboveOf, PlaceOf
  <2>3. \A x \in paths :
          /\ x.where \in {"root", "internal", "apps"}
          /\ Above(x) \subseteq DOMAIN fs \cup paths
    BY <2>2, PlaceOf
  <2>4. \A x \in paths :
          /\ x.where \notin {"nowhere", "migration"} /\ x \notin Registry
          /\ Above(x) \subseteq DOMAIN fs \cup paths
          /\ x.where = "app" => x = Home(p)
          /\ Dir(x) \/ Home(p) \in Above(x)
    BY <2>3, PlaceOf DEF Dir
  <2> HIDE DEF paths
  <2> QED
    BY <1>1, <1>3, <1>4, <2>1, <2>4, CreateStep
<1>5. CASE /\ tool[p].kind = "startapp" /\ Exists(tool[p].own) /\ Go(p, "files")
           /\ fs' = Adding(p, {SubDir(tool[p].app)}, "whole")
  <2> DEFINE paths == {SubDir(tool[p].app)}
  <2>1. /\ Grows(p, paths, "whole") /\ paths \in SUBSET Paths
        /\ "whole" \in {"whole", "partial"}
    BY <1>1, <1>5, AddingGrows, PathTypes
  <2>2. Home(p) = AppDir(tool[p].app) /\ Home(p) \in DOMAIN fs
    BY <1>1, <1>5 DEF Home, Exists
  <2>3. Above(SubDir(tool[p].app)) = {Root, AppsDir, AppDir(tool[p].app)}
    BY AboveOf, PlaceIn
  <2>4. Above(AppDir(tool[p].app)) = {Root, AppsDir}
    BY AboveOf, PlaceIn
  <2>5. \A x \in paths :
          /\ x.where = "migrations"
          /\ Above(x) \subseteq DOMAIN fs \cup paths
    BY <1>1, <2>2, <2>3, <2>4, PlaceIn DEF Tree
  <2>6. \A x \in paths :
          /\ x.where \notin {"nowhere", "migration"} /\ x \notin Registry
          /\ Above(x) \subseteq DOMAIN fs \cup paths
          /\ x.where = "app" => x = Home(p)
          /\ Dir(x) \/ Home(p) \in Above(x)
    BY <2>5, PlaceOf DEF Dir
  <2> HIDE DEF paths
  <2> QED
    BY <1>1, <1>3, <1>5, <2>1, <2>6, CreateStep
<1> QED
  BY <1>1, <1>2, <1>4, <1>5 DEF Dirs

\* A file, and the directories it needs.
LEMMA PlannedPaths ==
  ASSUME IInv, NEW p \in Tools, tool[p].kind \in {"startproject", "startapp"},
         NEW f \in Planned(p)
  PROVE  /\ {f} \cup Above(f) \in SUBSET Paths
         /\ \A x \in {f} \cup Above(f) :
              /\ x.where \notin {"nowhere", "migration"} /\ x \notin Registry
              /\ Above(x) \subseteq DOMAIN fs \cup ({f} \cup Above(f))
              /\ x.where = "app" => x = Home(p)
              /\ Dir(x) \/ Home(p) \in Above(x)
<1>1. f \in Paths
  <2>1. tool[p].app \in Apps \cup {"none"}
    BY DEF IInv, Typed, Command
  <2> QED
    BY <2>1, PathTypes DEF Planned
<1>2. {f} \cup Above(f) \in SUBSET Paths
  BY <1>1, AboveTypes
<1>3. f.where \in {"marker", "go.mod", "app.go", "rest"}
  BY PlaceOf, PlaceIn DEF Planned
<1>4. /\ f.where \notin {"nowhere", "migration", "app"} /\ f \notin Registry
      /\ Home(p) \in Above(f)
  BY <1>3, PlaceOf, PlannedHome
<1>5. ASSUME NEW x \in Above(f)
      PROVE  /\ x.where \notin {"nowhere", "migration"} /\ x \notin Registry
             /\ Above(x) \subseteq Above(f)
             /\ x.where = "app" => x = Home(p)
             /\ Dir(x)
  <2>1. Above(x) \subseteq Above(f) /\ x.where \in Directories
    BY <1>1, AboveAbove DEF Paths
  <2>2. x.where \notin {"nowhere", "migration"} /\ x \notin Registry
    BY <2>1, PlaceOf DEF Directories
  <2>3. x.where = "app" => x = Home(p)
    BY PlannedHome, PlaceOf
  <2> QED
    BY <2>1, <2>2, <2>3, PlannedHome
<1> QED
  BY <1>2, <1>4, <1>5

LEMMA WriteNewStep == ASSUME IInv, NEW p \in Tools, WriteNew(p) PROVE IInv'
<1>1. /\ tool[p].at = "files" /\ UNCHANGED <<second, spoiled, uprooted, disturbed>>
      /\ Typed /\ Course(p) /\ Busy(p) /\ disturbed' \in BOOLEAN
      /\ tool[p].kind \in {"startproject", "startapp"} /\ tool[p].answer = "none"
      /\ tool[p].written \subseteq Planned(p)
  BY DEF WriteNew, At, Rest, Busy, IInv, Course, Typed, Command, Making
<1>2. PICK f \in Planned(p) \ tool[p].written :
        \/ Abort(p, tool[p].own) /\ UNCHANGED fs
        \/ /\ ~Exists(f) /\ fs' = Adding(p, {f} \cup Above(f), "whole")
           /\ tool' = [tool EXCEPT ![p].written = @ \cup {f}]
  BY DEF WriteNew
<1>3. CASE Abort(p, tool[p].own) /\ UNCHANGED fs
  BY <1>1, <1>3, AbortStep DEF Registering
<1>4. CASE /\ ~Exists(f) /\ fs' = Adding(p, {f} \cup Above(f), "whole")
           /\ tool' = [tool EXCEPT ![p].written = @ \cup {f}]
  <2> DEFINE paths == {f} \cup Above(f)
             u == [tool[p] EXCEPT !.written = @ \cup {f}]
  <2>1. /\ Grows(p, paths, "whole") /\ "whole" \in {"whole", "partial"}
        /\ f \in paths \ DOMAIN fs
    BY <1>4, AddingGrows DEF Exists
  <2>2. /\ paths \in SUBSET Paths
        /\ \A x \in paths :
             /\ x.where \notin {"nowhere", "migration"} /\ x \notin Registry
             /\ Above(x) \subseteq DOMAIN fs \cup paths
             /\ x.where = "app" => x = Home(p)
             /\ Dir(x) \/ Home(p) \in Above(x)
    BY <1>1, PlannedPaths
  <2> HIDE DEF paths
  <2>3. tool' = [tool EXCEPT ![p] = u]
    BY <1>1, <1>4 DEF Typed
  <2>4. /\ u \in Command /\ u.at = "files" /\ u.answer = "none"
        /\ u.kind = tool[p].kind /\ u.app = tool[p].app /\ u.name = tool[p].name
        /\ u.own = tool[p].own /\ u.seen = tool[p].seen /\ u.stamp = tool[p].stamp
        /\ u.written = tool[p].written \cup {f}
    BY <1>1, <2>1, <2>2 DEF Typed, Command
  <2> HIDE DEF u
  <2>5. tool'[p] = u /\ Moves(p)
    BY <1>1, <2>3, <2>4 DEF Typed, Moves
  <2>6. /\ Turns(p, "files", "none") /\ tool'[p].seen = tool[p].seen
        /\ tool'[p].written \subseteq Planned(p)
    BY <1>1, <1>2, <2>4, <2>5 DEF Turns
  <2>7. ASSUME Progress(p) PROVE \A x \in tool'[p].written : Whole(x)'
    <3>1. \A x \in tool[p].written : Whole(x)
      BY <1>1, <2>7 DEF Progress, Making
    <3>2. Whole(f)'
      <4>1. Node(p, "whole").state = "whole"
        BY NodeIs
      <4> QED
        BY <2>1, <4>1 DEF Grows, Whole, Exists
    <3> QED
      BY <2>1, <2>4, <2>5, <3>1, <3>2, GrownFiles
  <2> QED
    BY <1>1, <2>1, <2>2, <2>5, <2>6, <2>7, CreateStep
<1> QED
  BY <1>2, <1>3, <1>4

\* A file of a project or of an app that is cut off.
LEMMA CutFileStep ==
  ASSUME IInv, NEW p \in Tools, At(p, "files"), NEW f \in Planned(p), ~Exists(f),
         fs' = Adding(p, {f} \cup Above(f), "partial"), Abort(p, tool[p].own),
         UNCHANGED <<second, spoiled, uprooted, disturbed>>
  PROVE  IInv'
<1>1. /\ tool[p].at = "files" /\ Typed /\ Course(p)
      /\ tool[p].kind \in {"startproject", "startapp"} /\ tool[p].own # Nowhere
  BY HomeIs DEF At, IInv, Course, Making
<1> DEFINE paths == {f} \cup Above(f)
<1>2. Grows(p, paths, "partial") /\ "partial" \in {"whole", "partial"}
  BY AddingGrows
<1>3. /\ paths \in SUBSET Paths
      /\ \A x \in paths :
           /\ x.where \notin {"nowhere", "migration"} /\ x \notin Registry
           /\ Above(x) \subseteq DOMAIN fs \cup paths
           /\ x.where = "app" => x = Home(p)
           /\ Dir(x) \/ Home(p) \in Above(x)
  BY <1>1, PlannedPaths
<1> HIDE DEF paths
<1>4. Moves(p) /\ Recalls(p) /\ Turns(p, "cleanup", "failed")
  BY <1>1, Aborted
<1> QED
  BY <1>1, <1>2, <1>3, <1>4, CreateStep DEF Recalls
-----------------------------------------------------------------------------
(* Steps of makemigration                                                    *)

\* What there is of p's own when it is at `at', with `answer'.
SidesOnly(p, at, answer) ==
  \A x \in DOMAIN fs' : fs'[x].by = p =>
    \/ Dir(x)
    \/ /\ x \in Sides(p)
       /\ \/ fs'[x].state = "partial" \/ answer = "ok"
          \/ x = Pair(p, "up") /\ at \in {"down", "undo"}

LEMMA MigrateStep ==
  ASSUME IInv, NEW p \in Tools, UNCHANGED <<second, uprooted, disturbed>>,
         spoiled' \in BOOLEAN,
         tool[p].kind = "makemigration", tool[p].at \in {"stat pair", "up", "down"},
         Moves(p), NEW at, NEW answer, Turns(p, at, answer),
         \/ at \in {"up", "down", "undo"} /\ answer = "none"
         \/ at = "done" /\ answer \in {"ok", "failed"},
         NEW paths \in SUBSET Paths, NEW state \in {"whole", "partial"},
         Grows(p, paths, state),
         \A x \in paths : x.where # "nowhere" /\ Above(x) \subseteq DOMAIN fs \cup paths,
         Undisturbed => \A x \in paths : Exists(x) \/ ~Core(x),
         SidesOnly(p, at, answer),
         Holding(p) /\ at \in {"down", "undo"} =>
           Pair(p, "up") \in DOMAIN fs' /\ fs'[Pair(p, "up")].by = p,
         ~spoiled' /\ ~uprooted /\ IInv => Catalogued'
  PROVE  IInv'
<1>1. /\ Typed /\ Tree /\ Course(p) /\ tool[p].own = Nowhere
  BY DEF IInv, Course
<1>2. /\ Home(p)' = Home(p) /\ Sides(p)' = Sides(p) /\ Pair(p, "up")' = Pair(p, "up")
  BY TurnedTool
<1>3. /\ Leaves(p) /\ Spares(p) /\ Tree'
      /\ DOMAIN fs' \subseteq Paths /\ \A x \in DOMAIN fs' : fs'[x] \in Nodes
  BY GrownTree
<1>4. Typed'
  BY <1>1, <1>3 DEF Typed, Moves
<1>5. Course(p)'
  <2>1. at \notin Making /\ at \notin {"idle", "discover", "mkdir", "dirs"}
    BY DEF Making, Registering
  <2> QED
    BY <1>1, <2>1 DEF Course, Turns
<1>6. Mine(p)'
  <2>1. at \notin {"idle", "compile", "select"}
    OBVIOUS
  <2>2. tool'[p].kind = "makemigration" /\ tool'[p].at = at /\ tool'[p].answer = answer
    BY DEF Turns
  <2> QED
    BY <1>2, <2>1, <2>2 DEF Mine, SidesOnly
<1>7. Holding(p) => Holding(p)'
  BY <1>1, <1>2 DEF Holding, Turns, Exists
<1>8. ASSUME ~disturbed' PROVE Undisturbed'
  <2>1. Undisturbed /\ ~Registers(p) /\ ~Registers(p)'
    BY <1>8 DEF IInv, Registers, Turns
  <2>2. SameCore
    BY <2>1, GrownCore
  <2>3. tool'[p].at \notin {"select", "stat pair"}
    BY DEF Turns
  <2> QED
    BY <2>1, <2>2, <2>3, AsideStep
<1>9. ~uprooted' => ~uprooted /\ Spares(p) /\ Holding(p)'
  BY <1>3, <1>7 DEF IInv
<1> QED
  BY <1>3, <1>4, <1>5, <1>6, <1>8, <1>9, Combined

\* What it has before its first side is written, and between the two.
LEMMA MigrationsOwn ==
  ASSUME IInv, NEW p \in Tools, tool[p].at \in {"stat pair", "up", "down"}
  PROVE  /\ Typed /\ Tree /\ Course(p) /\ Busy(p) /\ tool[p].kind = "makemigration"
         /\ tool[p].own = Nowhere /\ tool[p].answer = "none" /\ tool[p].app \in Apps
         /\ tool[p].name \in Names \cup {"none"} /\ tool[p].stamp \in Nat
         /\ \A x \in DOMAIN fs : fs[x].by = p =>
              \/ Dir(x)
              \/ /\ x \in Sides(p)
                 /\ fs[x].state = "partial" \/ (x = Pair(p, "up") /\ tool[p].at = "down")
         /\ Catalogued => \A x \in Migrations :
              fs[x].by = p => x = Pair(p, "up") /\ tool[p].at = "down"
<1>1. /\ Typed /\ Tree /\ Course(p) /\ Busy(p) /\ tool[p].kind = "makemigration"
      /\ tool[p].own = Nowhere /\ tool[p].answer = "none" /\ tool[p].app \in Apps
  BY DEF IInv, Course, Busy, Typed, Command, Migrating
<1>2. Mine(p)
  BY DEF IInv
<1>3. tool[p].name \in Names \cup {"none"} /\ tool[p].stamp \in Nat
  BY <1>1 DEF Typed, Command
<1>4. \A x \in DOMAIN fs : fs[x].by = p =>
        \/ Dir(x)
        \/ /\ x \in Sides(p)
           /\ fs[x].state = "partial" \/ (x = Pair(p, "up") /\ tool[p].at = "down")
  BY <1>1, <1>2 DEF Mine
<1>5. Catalogued => \A x \in Migrations :
        fs[x].by = p => x = Pair(p, "up") /\ tool[p].at = "down"
  BY <1>1 DEF Catalogued
<1> QED
  BY <1>1, <1>3, <1>4, <1>5

LEMMA StatPairStep == ASSUME IInv, NEW p \in Tools, StatPair(p) PROVE IInv'
<1>1. /\ tool[p].at = "stat pair" /\ UNCHANGED <<second, spoiled, uprooted, disturbed>>
      /\ spoiled' \in BOOLEAN
  BY DEF StatPair, At, Rest, IInv, Typed
<1>2. /\ Typed /\ Tree /\ Course(p) /\ Busy(p) /\ tool[p].kind = "makemigration"
      /\ tool[p].own = Nowhere /\ tool[p].answer = "none" /\ tool[p].app \in Apps
      /\ \A x \in DOMAIN fs : fs[x].by = p =>
           Dir(x) \/ (x \in Sides(p) /\ fs[x].state = "partial")
  BY <1>1, MigrationsOwn
<1> DEFINE d == SubDir(tool[p].app)
           paths == {d} \cup Above(d)
<1>3. /\ Grows(p, paths, "whole") /\ "whole" \in {"whole", "partial"}
      /\ paths \in SUBSET Paths
  <2>1. d \in Paths
    BY <1>2, PathTypes
  <2> QED
    BY <2>1, AddingGrows, AboveTypes DEF StatPair
<1>4. PICK at, answer :
        /\ \/ at = "up" /\ answer = "none"
           \/ at = "done" /\ answer = "failed"
        /\ Moves(p) /\ Turns(p, at, answer)
  <2>1. CASE Abort(p, Nowhere)
    <3>1. Moves(p) /\ Turns(p, "done", "failed")
      BY <1>2, <2>1, Aborted
    <3> QED
      BY <3>1
  <2>2. CASE Go(p, "up")
    <3>1. "up" \in Stages
      BY DEF Stages, Migrating
    <3>2. Moves(p) /\ Turns(p, "up", "none")
      BY <1>2, <2>2, <3>1, Went
    <3> QED
      BY <3>2
  <2> QED
    BY <2>1, <2>2 DEF StatPair
<1>5. Above(d) = {Root, AppsDir, AppDir(tool[p].app)} /\ d.where = "migrations"
  BY PlaceIn, AboveOf
<1>6. \A x \in paths :
        /\ x.where \in Directories \ {"nowhere"} /\ Above(x) \subseteq paths
  <2>1. \A x \in Above(d) : x.where \in Directories /\ Above(x) \subseteq Above(d)
    BY <1>5, AboveAbove DEF Wheres, Directories
  <2> QED
    BY <1>5, <2>1 DEF Directories
<1>7. ASSUME Undisturbed PROVE \A x \in paths : Exists(x) \/ ~Core(x)
  <2>1. AppDir(tool[p].app) \in DOMAIN fs
    BY <1>1, <1>7 DEF Undisturbed, Settled, Present, Exists
  <2>2. Above(AppDir(tool[p].app)) = {Root, AppsDir}
    BY PlaceIn, AboveOf
  <2> QED
    BY <1>2, <1>5, <2>1, <2>2 DEF Tree, Exists, Core
<1>8. \A x \in DOMAIN fs' : fs'[x].by = p =>
        Dir(x) \/ (x \in Sides(p) /\ fs'[x].state = "partial")
  BY <1>2, <1>3, <1>6, GrownMine DEF Dir, Directories
<1>9. ASSUME ~spoiled', ~uprooted PROVE Catalogued'
  <2>1. Catalogued
    BY <1>1, <1>9 DEF IInv
  <2>2. Leaves(p) /\ Spares(p)
    BY <1>3, <1>6, GrownTree
  <2>3. \A x \in DOMAIN fs' \ DOMAIN fs : ~IsMigration(x)
    BY <1>3, <1>6 DEF Grows, IsMigration, Directories
  <2>4. tool'[p].answer # "ok"
    BY <1>4 DEF Turns
  <2> QED
    BY <1>1, <1>4, <2>1, <2>2, <2>3, <2>4, NoMigrationStep
<1> HIDE DEF paths, d
<1>10. \A x \in paths : x.where # "nowhere" /\ Above(x) \subseteq DOMAIN fs \cup paths
  BY <1>6 DEF Directories
<1>11. SidesOnly(p, at, answer)
  BY <1>8 DEF SidesOnly
<1>12. /\ \/ at \in {"up", "down", "undo"} /\ answer = "none"
          \/ at = "done" /\ answer \in {"ok", "failed"}
       /\ at \notin {"down", "undo"} /\ Moves(p) /\ Turns(p, at, answer)
  BY <1>4
<1>13. /\ tool[p].at \in {"stat pair", "up", "down"} /\ tool[p].kind = "makemigration"
       /\ UNCHANGED <<second, uprooted, disturbed>> /\ spoiled' \in BOOLEAN
  BY <1>1, <1>2
<1>14. /\ Undisturbed => \A x \in paths : Exists(x) \/ ~Core(x)
       /\ ~spoiled' /\ ~uprooted /\ IInv => Catalogued'
       /\ Holding(p) /\ at \in {"down", "undo"} =>
            Pair(p, "up") \in DOMAIN fs' /\ fs'[Pair(p, "up")].by = p
  BY <1>7, <1>9, <1>12
<1> QED
  BY <1>3, <1>10, <1>11, <1>12, <1>13, <1>14, MigrateStep

\* A side that can be made.
LEMMA SidePath ==
  ASSUME IInv, NEW p \in Tools, tool[p].at \in {"up", "down"},
         NEW side \in {"up", "down"}, FreeSide(Pair(p, side))
  PROVE  /\ Pair(p, side) \in Paths /\ Pair(p, side) \notin DOMAIN fs
         /\ Pair(p, side).where # "nowhere" /\ Above(Pair(p, side)) \subseteq DOMAIN fs
         /\ ~Core(Pair(p, side))
<1>1. /\ Typed /\ Tree /\ tool[p].app \in Apps
      /\ tool[p].name \in Names \cup {"none"} /\ tool[p].stamp \in Nat
  BY MigrationsOwn
<1> DEFINE y == Pair(p, side)
<1>2. y \in Paths /\ y.where = "migration" /\ y.app = tool[p].app
  <2>1. y = Migration(tool[p].app, tool[p].stamp, tool[p].name, side)
    BY DEF Pair
  <2>2. "migration" \in Wheres
    BY DEF Wheres
  <2> QED
    BY <1>1, <2>1, <2>2 DEF Migration, Paths
<1>3. y \notin DOMAIN fs /\ SubDir(tool[p].app) \in DOMAIN fs
  BY <1>2 DEF FreeSide, Exists
<1>4. Above(y) = Above(SubDir(tool[p].app)) \cup {SubDir(tool[p].app)}
  <2>1. Above(y) = {Root, AppsDir, AppDir(tool[p].app), SubDir(tool[p].app)}
    BY <1>2, AboveOf
  <2>2. Above(SubDir(tool[p].app)) = {Root, AppsDir, AppDir(tool[p].app)}
    BY PlaceIn, AboveOf
  <2> QED
    BY <2>1, <2>2
<1>5. Above(y) \subseteq DOMAIN fs
  BY <1>1, <1>3, <1>4 DEF Tree
<1>6. y.where # "nowhere" /\ ~Core(y)
  BY <1>2 DEF Core
<1> QED
  BY <1>2, <1>3, <1>5, <1>6

\* One side is written, or cut off, and the command goes on, or ends.
LEMMA SideStep ==
  ASSUME IInv, NEW p \in Tools, UNCHANGED <<second, uprooted, disturbed>>,
         NEW side \in {"up", "down"}, tool[p].at = side, FreeSide(Pair(p, side)),
         NEW state \in {"whole", "partial"},
         fs' = Adding(p, {Pair(p, side)}, state),
         Moves(p), NEW at, NEW answer, Turns(p, at, answer),
         spoiled' = (spoiled \/ state = "partial"),
         \/ side = "up" /\ state = "whole" /\ at = "down" /\ answer = "none"
         \/ side = "up" /\ state = "partial" /\ at = "done" /\ answer = "failed"
         \/ side = "down" /\ state = "whole" /\ at = "done" /\ answer = "ok"
         \/ side = "down" /\ state = "partial" /\ at = "undo" /\ answer = "none"
  PROVE  IInv'
<1> DEFINE y == Pair(p, side)
           paths == {y}
<1>1. /\ Typed /\ Tree /\ Course(p) /\ Busy(p) /\ tool[p].kind = "makemigration"
      /\ tool[p].own = Nowhere /\ tool[p].answer = "none" /\ tool[p].app \in Apps
      /\ \A x \in DOMAIN fs : fs[x].by = p =>
              \/ Dir(x)
              \/ /\ x \in Sides(p)
                 /\ fs[x].state = "partial" \/ (x = Pair(p, "up") /\ tool[p].at = "down")
      /\ Catalogued => \A x \in Migrations :
           fs[x].by = p => x = Pair(p, "up") /\ tool[p].at = "down"
  BY MigrationsOwn
<1>2. /\ paths \in SUBSET Paths /\ Grows(p, paths, state)
      /\ \A x \in paths : x.where # "nowhere" /\ Above(x) \subseteq DOMAIN fs \cup paths
      /\ \A x \in paths : Exists(x) \/ ~Core(x)
      /\ y \in DOMAIN fs' /\ fs'[y].by = p /\ fs'[y].state = state
      /\ Leaves(p) /\ Spares(p)
  <2>1. tool[p].at \in {"up", "down"}
    OBVIOUS
  <2>2. /\ y \in Paths /\ y \notin DOMAIN fs /\ y.where # "nowhere"
        /\ Above(y) \subseteq DOMAIN fs /\ ~Core(y)
    BY <2>1, SidePath
  <2>3. Grows(p, paths, state) /\ Node(p, state).by = p /\ Node(p, state).state = state
    BY AddingGrows, NodeIs
  <2> HIDE DEF y
  <2>4. /\ paths \in SUBSET Paths
        /\ \A x \in paths : x.where # "nowhere" /\ Above(x) \subseteq DOMAIN fs \cup paths
        /\ \A x \in paths : Exists(x) \/ ~Core(x)
    BY <2>2
  <2>5. Leaves(p) /\ Spares(p)
    <3> HIDE DEF paths
    <3> QED
      BY <2>3, <2>4, GrownTree
  <2>6. y \in DOMAIN fs' /\ fs'[y].by = p /\ fs'[y].state = state
    BY <2>2, <2>3 DEF Grows
  <2> QED
    BY <2>3, <2>4, <2>5, <2>6
<1>3. y \in Sides(p) /\ Sides(p) = {Pair(p, "up"), Pair(p, "down")}
  BY DEF Sides
<1>4. \A x \in DOMAIN fs' : fs'[x].by = p =>
        x = y \/ (x \in DOMAIN fs /\ fs'[x] = fs[x] /\ fs[x].by = p)
  <2>1. \A x \in DOMAIN fs' : fs'[x].by = p =>
          \/ x \in paths \ DOMAIN fs /\ fs'[x] = Node(p, state)
          \/ x \in DOMAIN fs /\ fs'[x] = fs[x] /\ fs[x].by = p
    <3>1. Grows(p, paths, state)
      BY <1>2
    <3> HIDE DEF paths
    <3> QED
      BY <3>1, GrownMine
  <2> QED
    BY <2>1
<1>5. spoiled' \in BOOLEAN
  BY <1>1 DEF Typed
<1>6. SidesOnly(p, at, answer)
  <2> SUFFICES ASSUME NEW x \in DOMAIN fs', fs'[x].by = p
      PROVE  \/ Dir(x)
             \/ /\ x \in Sides(p)
                /\ \/ fs'[x].state = "partial" \/ answer = "ok"
                   \/ x = Pair(p, "up") /\ at \in {"down", "undo"}
    BY DEF SidesOnly
  <2>1. CASE x = y
    BY <1>2, <1>3, <2>1
  <2>2. CASE x # y
    <3>1. x \in DOMAIN fs /\ fs'[x] = fs[x] /\ fs[x].by = p
      BY <1>4, <2>2
    <3> QED
      BY <1>1, <3>1
  <2> QED
    BY <2>1, <2>2
<1>7. Holding(p) /\ at \in {"down", "undo"} =>
        Pair(p, "up") \in DOMAIN fs' /\ fs'[Pair(p, "up")].by = p
  <2>1. CASE side = "up"
    BY <1>2, <2>1
  <2>2. CASE side = "down"
    <3>1. Holding(p) => Pair(p, "up") \in DOMAIN fs /\ fs[Pair(p, "up")].by = p
      BY <2>2 DEF Holding, Exists
    <3> QED
      BY <1>2, <3>1 DEF Grows
  <2> QED
    BY <2>1, <2>2
<1>8. ASSUME ~spoiled', ~uprooted PROVE Catalogued'
  <2>1. Catalogued /\ Holding(p) /\ state = "whole"
    BY <1>8 DEF IInv
  <2>2. Sides(p)' = Sides(p) /\ Pair(p, "up")' = Pair(p, "up")
    BY TurnedTool
  <2>3. tool'[p].kind = "makemigration" /\ tool'[p].at = at /\ tool'[p].answer = answer
    BY <1>1 DEF Turns
  <2>4. ASSUME NEW x \in DOMAIN fs', IsMigration(x), fs'[x].by = p
        PROVE  \/ x = Pair(p, "up")' /\ at \in {"down", "undo"}
               \/ x \in Sides(p)' /\ answer = "ok"
    <3>1. x = y \/ (x = Pair(p, "up") /\ tool[p].at = "down")
      BY <1>1, <1>4, <2>1, <2>4 DEF Migrations
    <3> QED
      BY <1>3, <2>1, <2>2, <3>1
  <2>5. ASSUME answer = "ok", NEW x \in Sides(p)' PROVE Exists(x)' /\ fs'[x].by = p
    <3>1. side = "down" /\ tool[p].at = "down"
      BY <2>5
    <3>2. Pair(p, "up") \in DOMAIN fs /\ fs[Pair(p, "up")].by = p
      BY <2>1, <3>1 DEF Holding, Exists
    <3>3. Pair(p, "up") \in DOMAIN fs' /\ fs'[Pair(p, "up")].by = p
      BY <1>2, <3>2 DEF Grows
    <3> QED
      BY <1>2, <1>3, <2>2, <2>5, <3>1, <3>3 DEF Exists
  <2> QED
    BY <1>2, <2>1, <2>3, <2>4, <2>5, CatalogueStep
<1> HIDE DEF y, paths
<1>9. /\ \/ at \in {"up", "down", "undo"} /\ answer = "none"
         \/ at = "done" /\ answer \in {"ok", "failed"}
      /\ tool[p].at \in {"stat pair", "up", "down"}
  OBVIOUS
<1> QED
  BY <1>1, <1>2, <1>5, <1>6, <1>7, <1>8, <1>9, MigrateStep

LEMMA WriteUpStep == ASSUME IInv, NEW p \in Tools, WriteUp(p) PROVE IInv'
<1>1. /\ tool[p].at = "up" /\ UNCHANGED <<second, spoiled, uprooted, disturbed>>
      /\ spoiled' \in BOOLEAN /\ spoiled \in BOOLEAN /\ disturbed' \in BOOLEAN
  BY DEF WriteUp, At, Rest, IInv, Typed
<1>2. /\ Typed /\ Course(p) /\ Busy(p) /\ tool[p].own = Nowhere /\ tool[p].answer = "none"
  BY <1>1, MigrationsOwn
<1>3. CASE Abort(p, Nowhere) /\ UNCHANGED fs
  BY <1>1, <1>2, <1>3, AbortStep DEF Registering
<1>4. CASE /\ FreeSide(Pair(p, "up")) /\ Go(p, "down")
           /\ fs' = Adding(p, {Pair(p, "up")}, "whole")
  <2>1. "down" \in Stages
    BY DEF Stages, Migrating
  <2>2. Moves(p) /\ Turns(p, "down", "none")
    BY <1>2, <1>4, <2>1, Went
  <2>3. spoiled' = (spoiled \/ "whole" = "partial")
    BY <1>1
  <2> QED
    BY <1>1, <1>4, <2>2, <2>3, SideStep
<1> QED
  BY <1>3, <1>4 DEF WriteUp

LEMMA WriteDownStep == ASSUME IInv, NEW p \in Tools, WriteDown(p) PROVE IInv'
<1>1. /\ tool[p].at = "down" /\ UNCHANGED <<second, spoiled, uprooted, disturbed>>
      /\ spoiled' \in BOOLEAN /\ spoiled \in BOOLEAN /\ disturbed' \in BOOLEAN
  BY DEF WriteDown, At, Rest, IInv, Typed
<1>2. Typed
  BY DEF IInv
<1>3. CASE Go(p, "undo") /\ UNCHANGED fs
  BY <1>1, <1>3, UndoingStep
<1>4. CASE /\ FreeSide(Pair(p, "down")) /\ End(p, "ok")
           /\ fs' = Adding(p, {Pair(p, "down")}, "whole")
  <2>1. Moves(p) /\ Turns(p, "done", "ok")
    BY <1>2, <1>4, Ended
  <2>2. spoiled' = (spoiled \/ "whole" = "partial")
    BY <1>1
  <2> QED
    BY <1>1, <1>4, <2>1, <2>2, SideStep
<1> QED
  BY <1>3, <1>4 DEF WriteDown

LEMMA WriteFailsStep == ASSUME IInv, NEW p \in Tools, WriteFails(p) PROVE IInv'
<1>1. /\ UNCHANGED <<second, uprooted, disturbed>> /\ Typed
  BY DEF WriteFails, IInv
<1>2. CASE /\ At(p, "files") /\ UNCHANGED spoiled /\ Abort(p, tool[p].own)
           /\ \E x \in Planned(p) \ tool[p].written :
                ~Exists(x) /\ fs' = Adding(p, {x} \cup Above(x), "partial")
  BY <1>1, <1>2, CutFileStep
<1>3. ASSUME NEW side \in {"up", "down"}, At(p, side), FreeSide(Pair(p, side)),
             fs' = Adding(p, {Pair(p, side)}, "partial"),
             IF side = "up" THEN Abort(p, Nowhere) ELSE Go(p, "undo"), spoiled' = TRUE
      PROVE  IInv'
  <2>1. /\ tool[p].at = side /\ spoiled' = (spoiled \/ "partial" = "partial")
        /\ tool[p].own = Nowhere /\ tool[p].answer = "none"
    BY <1>3, MigrationsOwn DEF At
  <2>2. CASE side = "up"
    <3>1. Moves(p) /\ Turns(p, "done", "failed")
      BY <1>1, <1>3, <2>1, <2>2, Aborted
    <3> QED
      BY <1>1, <1>3, <2>1, <2>2, <3>1, SideStep
  <2>3. CASE side = "down"
    <3>1. "undo" \in Stages
      BY DEF Stages, Migrating
    <3>2. Moves(p) /\ Turns(p, "undo", "none")
      BY <1>1, <1>3, <2>1, <2>3, <3>1, Went
    <3> QED
      BY <1>1, <1>3, <2>1, <2>3, <3>2, SideStep
  <2> QED
    BY <2>2, <2>3
<1> QED
  BY <1>2, <1>3 DEF WriteFails
-----------------------------------------------------------------------------
(* Steps that write the registry                                             *)

\* One of its files is written, with n.
Touches(f, n) ==
  /\ DOMAIN fs' = DOMAIN fs \cup {f} /\ fs'[f] = n
  /\ \A x \in DOMAIN fs \ {f} : fs'[x] = fs[x]

\* No other is.
RegistryOnly ==
  /\ DOMAIN fs' \subseteq DOMAIN fs \cup Registry
  /\ \A x \in DOMAIN fs \ Registry : x \in DOMAIN fs' /\ fs'[x] = fs[x]

LEMMA TouchedTree ==
  ASSUME IInv, NEW p \in Tools, NEW f \in Registry, NEW n \in Nodes, n.by = p,
         Above(f) \subseteq DOMAIN fs, Touches(f, n)
  PROVE  /\ Leaves(p) /\ RegistryOnly /\ Tree'
         /\ DOMAIN fs' \subseteq Paths /\ \A x \in DOMAIN fs' : fs'[x] \in Nodes
<1>1. Typed /\ Tree /\ f \in Paths /\ f.where # "nowhere"
  BY PathTypes, PlaceOf DEF IInv
<1>2. Leaves(p) /\ RegistryOnly
  BY DEF Touches, Leaves, RegistryOnly
<1>3. Tree'
  BY <1>1 DEF Touches, Tree
<1> QED
  BY <1>1, <1>2, <1>3 DEF Typed, Touches

LEMMA TouchedFiles ==
  ASSUME NEW f \in Registry, NEW n, Touches(f, n)
  PROVE  /\ \A x : x # f => /\ (Exists(x)' <=> Exists(x)) /\ (Whole(x)' <=> Whole(x))
                            /\ (Blank(x)' <=> Blank(x))
                            /\ \A apps : Lists(x, apps)' <=> Lists(x, apps)
         /\ Present' = Present
         /\ \A apps : Kept(apps) => Kept(apps)'
         /\ \A x : Exists(x) => Exists(x)'
         /\ Blank(f)' <=> n.apps = {}
         /\ \A apps : Lists(f, apps)' <=> n.state = "whole" /\ n.apps = apps
<1>1. \A x : x # f => (Exists(x)' <=> Exists(x)) /\ (Exists(x) => fs'[x] = fs[x])
  BY DEF Touches, Exists
<1>2. \A x : x # f => /\ (Whole(x)' <=> Whole(x)) /\ (Blank(x)' <=> Blank(x))
                      /\ \A apps : Lists(x, apps)' <=> Lists(x, apps)
  BY <1>1 DEF Whole, Blank, Lists
<1>3. /\ \A a : AppDir(a) # f /\ \A x \in Sources(a) : x # f
      /\ \A x \in Skeleton : x # f
  BY PlaceOf, PlaceIn
<1>4. Present' = Present
  BY <1>1, <1>3 DEF Present
<1>5. \A apps : Kept(apps) => Kept(apps)'
  <2> SUFFICES ASSUME NEW apps, Kept(apps)
      PROVE  /\ \A x \in Skeleton : Whole(x)'
             /\ \A a \in apps : \A x \in Sources(a) : Whole(x)'
    BY DEF Kept, Sound
  <2> QED
    BY <1>2, <1>3 DEF Kept, Sound
<1>6. \A x : Exists(x) => Exists(x)'
  BY DEF Touches, Exists
<1>7. /\ Blank(f)' <=> n.apps = {}
      /\ \A apps : Lists(f, apps)' <=> n.state = "whole" /\ n.apps = apps
  BY DEF Touches, Blank, Lists, Whole, Exists
<1> QED
  BY <1>1, <1>2, <1>4, <1>5, <1>6, <1>7

\* What a step must do to be one of the command that registers.
LEMMA RegisteredStep ==
  ASSUME IInv, NEW p \in Tools, UNCHANGED <<second, spoiled, uprooted, disturbed>>,
         tool[p].at \in Registering, Moves(p),
         NEW at, NEW answer, Turns(p, at, answer), Recalls(p),
         \/ at \in {"write apps", "open commands", "write commands"} /\ answer = "none"
         \/ at = "tidy" /\ answer = "none" /\ tool[p].kind = "startproject"
         \/ at = "done" /\ answer = "ok" /\ tool[p].kind = "startapp",
         tool[p].at \in Calm => at \in {"write commands", "tidy", "done"},
         Leaves(p), RegistryOnly, Tree', DOMAIN fs' \subseteq Paths,
         \A x \in DOMAIN fs' : fs'[x] \in Nodes,
         Undisturbed /\ Progress(p) =>
           /\ Present' = Present
           /\ at # "done" => Progress(p)'
           /\ at = "done" => Built'
  PROVE  IInv'
<1>1. /\ Typed /\ Tree /\ Course(p) /\ Mine(p) /\ Busy(p)
      /\ tool[p].kind \in {"startproject", "startapp"}
      /\ tool[p].own = Home(p) /\ tool[p].answer = "none" /\ tool[p].at \in Making
  BY DEF Busy, IInv, Course, Typed, Command, Making, Registering
<1>2. /\ Home(p)' = Home(p) /\ (Busy(p)' <=> at # "done") /\ ~Failed(p)'
  BY TurnedTool
<1>3. Typed'
  BY <1>1 DEF Typed, Moves
<1>4. Course(p)'
  BY <1>1, <1>2 DEF Course, Turns, Recalls, Making, Migrating, Registering
<1>5. Mine(p)'
  <2> SUFFICES ASSUME NEW x \in DOMAIN fs', fs'[x].by = p
      PROVE  Dir(x) \/ x \in Registry \/ Home(p) \in Above(x)
    BY <1>1, <1>2 DEF Mine, Turns
  <2> QED
    BY <1>1 DEF Mine, RegistryOnly
<1>6. Holding(p) => Holding(p)'
  <2> SUFFICES ASSUME Holding(p), at # "done"
      PROVE  Home(p) \in DOMAIN fs' /\ fs'[Home(p)].by = p
    BY <1>1, <1>2 DEF Holding, Turns, Exists
  <2>1. Home(p) \in DOMAIN fs /\ fs[Home(p)].by = p
    BY <1>1, HomeIs DEF Holding, Exists
  <2>2. Home(p) \notin Registry
    BY HomeIs, PlaceOf
  <2> QED
    BY <2>1, <2>2 DEF RegistryOnly
<1>7. ASSUME ~disturbed' PROVE Undisturbed'
  <2>1. Undisturbed /\ Registers(p) /\ Progress(p)
    BY <1>1, <1>7 DEF IInv, Registers, Undisturbed
  <2>2. /\ tool'[p].kind = tool[p].kind /\ tool'[p].app = tool[p].app
        /\ tool'[p].at = at /\ tool'[p].at \notin {"select", "stat pair"}
        /\ Registers(p)' <=> at # "done"
    BY <1>1, <1>2 DEF Registers, Turns
  <2>3. Settled \subseteq Present'
    BY <2>1 DEF Settled
  <2>4. tool[p].at \in Calm /\ tool[p].kind = "startapp" /\ Registers(p)' => at \in Calm
    BY <2>2 DEF Calm
  <2> QED
    BY <2>1, <2>2, <2>3, <2>4, RegisterStep
<1>8. ASSUME ~spoiled', ~uprooted' PROVE Catalogued'
  <2>1. Catalogued
    BY <1>8 DEF IInv
  <2>2. (\A x \in DOMAIN fs' \ DOMAIN fs : ~IsMigration(x)) /\ Spares(p)
    BY PlaceOf DEF RegistryOnly, IsMigration, Spares
  <2>3. tool'[p].kind # "makemigration" /\ tool[p].kind # "makemigration"
    BY <1>1 DEF Turns
  <2> QED
    BY <2>1, <2>2, <2>3, NoMigrationStep
<1>9. ~uprooted' => ~uprooted /\ Spares(p) /\ Holding(p)'
  BY <1>6 DEF IInv, RegistryOnly, Spares
<1> QED
  BY <1>3, <1>4, <1>5, <1>7, <1>8, <1>9, Combined

\* What is left of the progress of a command after it has written a file.
LEMMA TouchedProgress ==
  ASSUME IInv, NEW p \in Tools, Progress(p), tool[p].at \in Registering,
         NEW at \in {"write apps", "open commands", "write commands", "tidy"},
         NEW answer, Turns(p, at, answer), Recalls(p),
         NEW f \in Registry, NEW n, Touches(f, n),
         tool[p].kind = "startproject" => (Exists(AppsGo)' => Blank(AppsGo)'),
         tool[p].kind = "startapp" => at # "tidy",
         tool[p].kind = "startapp" /\ at # "write commands" => f = AppsGo,
         at = "write apps" => Blank(AppsGo)',
         at \in {"open commands", "write commands", "tidy"} => Lists(AppsGo, Present)',
         at = "write commands" => tool[p].at = "open commands" /\ Blank(CommandsGo)',
         at # "write commands" /\ tool[p].kind = "startapp" =>
           tool[p].at \in {"open apps", "write apps"},
         at = "tidy" => Lists(CommandsGo, Present)'
  PROVE  Progress(p)'
<1>1. Course(p) /\ tool[p].at \in Making
  BY DEF IInv, Making
<1>2. /\ tool'[p].at = at /\ tool'[p].kind = tool[p].kind /\ tool'[p].app = tool[p].app
      /\ tool'[p].seen = tool[p].seen /\ Planned(p)' = Planned(p)
  BY TurnedTool DEF Turns, Recalls
<1>3. /\ \A x : x # f => (Whole(x)' <=> Whole(x))
                         /\ \A apps : Lists(x, apps)' <=> Lists(x, apps)
      /\ Present' = Present /\ \A apps : Kept(apps) => Kept(apps)'
      /\ \A x : Exists(x) => Exists(x)'
  BY TouchedFiles
<1>4. (Present \ {tool[p].app})' = Present \ {tool[p].app}
  BY <1>2, <1>3
<1>5. ASSUME tool[p].kind = "startproject"
      PROVE  Present' = {} /\ (Exists(AppsGo)' => Blank(AppsGo)')
  BY <1>1, <1>3, <1>5 DEF Progress
<1>6. ASSUME tool[p].kind = "startapp"
      PROVE  /\ Exists(AppDir(tool[p].app))' /\ Kept(Present \ {tool[p].app})'
             /\ at # "write commands" => Lists(CommandsGo, Present \ {tool[p].app})'
  <2>1. Exists(AppDir(tool[p].app)) /\ Kept(Present \ {tool[p].app})
    BY <1>1, <1>6 DEF Progress
  <2>2. AppDir(tool[p].app) \in DOMAIN fs'
    BY <2>1 DEF Exists, Touches
  <2>3. at # "write commands" =>
          Lists(CommandsGo, Present \ {tool[p].app}) /\ CommandsGo # f
    BY <1>1, <1>6, PlaceOf DEF Progress
  <2>4. Exists(AppDir(tool[p].app))'
    BY <1>2, <2>2 DEF Exists
  <2> QED
    BY <1>3, <1>4, <2>1, <2>3, <2>4
<1>7. \A x \in Planned(p)' : Whole(x)'
  <2>1. \A x \in Planned(p) : Whole(x) /\ x # f
    BY <1>1, PlannedCore DEF Progress
  <2> QED
    BY <1>2, <1>3, <2>1
<1>8. tool'[p].seen = Present'
  BY <1>1, <1>2, <1>3 DEF Progress
<1>9. at \notin {"discover", "mkdir", "files", "open apps"}
  OBVIOUS
<1> QED
  BY <1>2, <1>5, <1>6, <1>7, <1>8, <1>9 DEF Progress, Registering

LEMMA OpenRegistryStep == ASSUME IInv, NEW p \in Tools, OpenRegistry(p) PROVE IInv'
<1>1. /\ UNCHANGED <<second, spoiled, uprooted, disturbed>>
      /\ tool[p].at \in {"open apps", "open commands"} /\ tool[p].at \in Registering
      /\ Typed /\ Tree /\ Course(p) /\ Busy(p) /\ disturbed' \in BOOLEAN
      /\ tool[p].kind \in {"startproject", "startapp"} /\ tool[p].answer = "none"
      /\ tool[p].own = Home(p) /\ tool[p].at \in Making
  BY DEF OpenRegistry, Rest, Busy, IInv, Course, Typed, Command, Making, Registering
<1>2. CASE ~Exists(Internal) /\ Abort(p, tool[p].own) /\ UNCHANGED fs
  <2>1. ASSUME ~disturbed', tool[p].kind = "startapp", tool[p].at = "open commands"
        PROVE  FALSE
    <3>1. Progress(p)
      BY <1>1, <2>1 DEF IInv, Undisturbed, Registers
    <3>2. AppsGo \in DOMAIN fs
      BY <1>1, <2>1, <3>1 DEF Progress, Lists, Whole, Exists
    <3>3. Internal \in Above(AppsGo)
      BY AboveOf, PlaceOf
    <3> QED
      BY <1>1, <1>2, <3>2, <3>3 DEF Tree, Exists
  <2>2. ~disturbed' => ~disturbed /\
          (tool[p].kind = "startapp" => tool[p].at \notin Registering \ {"open apps"})
    BY <1>1, <2>1
  <2>3. tool[p].at \notin {"cleanup", "down", "undo"}
    BY <1>1
  <2> QED
    BY <1>1, <1>2, <2>2, <2>3, AbortStep
<1>3. CASE /\ Exists(Internal)
           /\ fs' = [x \in DOMAIN fs \cup {File(p)} |->
                      IF x = File(p) THEN Node(p, "partial") ELSE fs[x]]
           /\ Go(p, IF At(p, "open apps") THEN "write apps" ELSE "write commands")
  <2> DEFINE at == IF At(p, "open apps") THEN "write apps" ELSE "write commands"
             f == File(p)
             n == Node(p, "partial")
  <2>1. /\ at \in {"write apps", "write commands"}
        /\ at = "write apps" <=> tool[p].at = "open apps"
        /\ f = IF at = "write apps" THEN AppsGo ELSE CommandsGo
        /\ f \in Registry /\ AppsGo # CommandsGo
    BY <1>1, PlaceOf DEF At, File, Registry
  <2>2. n \in Nodes /\ n.by = p /\ n.apps = {}
    BY NodeIs
  <2>3. Touches(f, n)
    BY <1>3 DEF Touches
  <2>4. Above(f) \subseteq DOMAIN fs
    <3>1. Above(f) = {Root, Internal} /\ Above(Internal) = {Root}
      BY <2>1, AboveOf, PlaceOf
    <3> QED
      BY <1>1, <1>3, <3>1 DEF Tree, Exists
  <2>5. Go(p, at)
    BY <1>3
  <2> HIDE DEF at, f, n
  <2>6. /\ Leaves(p) /\ RegistryOnly /\ Tree'
        /\ DOMAIN fs' \subseteq Paths /\ \A x \in DOMAIN fs' : fs'[x] \in Nodes
    BY <2>1, <2>2, <2>3, <2>4, TouchedTree
  <2>7. Moves(p) /\ Turns(p, at, "none") /\ Recalls(p)
    <3>1. at \in Stages
      BY <2>1 DEF Stages, Making, Registering
    <3> QED
      BY <1>1, <2>5, <3>1, Went
  <2>8. ASSUME Undisturbed, Progress(p) PROVE Progress(p)' /\ Present' = Present
    <3>1. /\ \A x : x # f => /\ (Blank(x)' <=> Blank(x)) /\ (Exists(x)' <=> Exists(x))
                             /\ \A apps : Lists(x, apps)' <=> Lists(x, apps)
          /\ Present' = Present
      BY <2>1, <2>2, <2>3, TouchedFiles
    <3>2. tool[p].kind = "startproject" => (Exists(AppsGo)' => Blank(AppsGo)')
      <4>1. tool[p].kind = "startproject" => (Exists(AppsGo) => Blank(AppsGo))
        BY <1>1, <2>8 DEF Progress
      <4>2. CASE f = AppsGo
        <5>1. Blank(AppsGo)'
          BY <2>2, <2>3, <4>2 DEF Touches, Blank, Exists
        <5> QED
          BY <5>1
      <4>3. CASE f # AppsGo
        BY <3>1, <4>1, <4>3
      <4> QED
        BY <4>2, <4>3
    <3>3. at = "write apps" => Blank(AppsGo)'
      <4> SUFFICES ASSUME at = "write apps" PROVE Blank(AppsGo)'
        OBVIOUS
      <4>1. f = AppsGo
        BY <2>1
      <4> QED
        BY <2>2, <2>3, <4>1 DEF Touches, Blank, Exists
    <3>4. at = "write commands" =>
            Blank(CommandsGo)' /\ Lists(AppsGo, Present)' /\ tool[p].at = "open commands"
      <4> SUFFICES ASSUME at = "write commands"
          PROVE Blank(CommandsGo)' /\ Lists(AppsGo, Present)' /\ tool[p].at = "open commands"
        OBVIOUS
      <4>1. f = CommandsGo /\ AppsGo # f /\ tool[p].at = "open commands"
        BY <1>1, <2>1
      <4>2. Lists(AppsGo, Present)
        BY <1>1, <2>8, <4>1 DEF Progress
      <4>3. Blank(CommandsGo)'
        BY <2>2, <2>3, <4>1 DEF Touches, Blank, Exists
      <4> QED
        BY <3>1, <4>1, <4>2, <4>3
    <3>5. /\ at \in {"write apps", "open commands", "write commands", "tidy"}
          /\ at \notin {"open commands", "tidy"}
          /\ at # "write commands" => f = AppsGo /\ tool[p].at = "open apps"
      BY <2>1
    <3>6. Progress(p)'
      BY <1>1, <2>1, <2>3, <2>7, <2>8, <3>2, <3>3, <3>4, <3>5, TouchedProgress
    <3> QED
      BY <3>1, <3>6
  <2>9. at # "done" /\ at \in {"write apps", "open commands", "write commands"}
    BY <2>1
  <2>10. tool[p].at \in Calm => at \in {"write commands", "tidy", "done"}
    BY <2>1 DEF Calm
  <2> QED
    BY <1>1, <2>6, <2>7, <2>8, <2>9, <2>10, RegisteredStep
<1> QED
  BY <1>2, <1>3 DEF OpenRegistry

\* Where a command goes when it has written a file of the registry.
LEMMA WrittenTool ==
  ASSUME IInv, NEW p \in Tools, WriteRegistry(p)
  PROVE  \E at, answer :
           /\ Moves(p) /\ Turns(p, at, answer) /\ Recalls(p)
           /\ \/ tool[p].at = "write apps" /\ at = "open commands" /\ answer = "none"
              \/ /\ tool[p].at = "write commands" /\ tool[p].kind = "startproject"
                 /\ at = "tidy" /\ answer = "none"
              \/ /\ tool[p].at = "write commands" /\ tool[p].kind = "startapp"
                 /\ at = "done" /\ answer = "ok"
<1>1. /\ Typed /\ Course(p) /\ tool[p].answer = "none"
      /\ tool[p].kind \in {"startproject", "startapp"}
      /\ tool[p].at \in {"write apps", "write commands"}
      /\ "open commands" \in Stages /\ "tidy" \in Stages
  BY DEF WriteRegistry, IInv, Course, Typed, Command, Making, Registering, Stages
<1>2. CASE tool[p].at = "write apps"
  <2>1. Go(p, "open commands")
    BY <1>2 DEF WriteRegistry, At
  <2> QED
    BY <1>1, <1>2, <2>1, Went
<1>3. CASE tool[p].at = "write commands" /\ tool[p].kind = "startproject"
  <2>1. Go(p, "tidy")
    BY <1>3 DEF WriteRegistry, At
  <2> QED
    BY <1>1, <1>3, <2>1, Went
<1>4. CASE tool[p].at = "write commands" /\ tool[p].kind = "startapp"
  <2>1. End(p, "ok")
    BY <1>4 DEF WriteRegistry, At
  <2> QED
    BY <1>1, <1>4, <2>1, Ended
<1> QED
  BY <1>1, <1>2, <1>3, <1>4

LEMMA WriteRegistryStep == ASSUME IInv, NEW p \in Tools, WriteRegistry(p) PROVE IInv'
<1>1. /\ UNCHANGED <<second, spoiled, uprooted, disturbed>>
      /\ tool[p].at \in {"write apps", "write commands"} /\ tool[p].at \in Registering
      /\ Typed /\ Tree /\ Course(p)
      /\ tool[p].kind \in {"startproject", "startapp"} /\ tool[p].at \in Making
      /\ tool[p].kind = "startapp" => tool[p].app \in Apps
  BY DEF WriteRegistry, Rest, IInv, Course, Typed, Command, Making, Registering
<1>2. PICK at, answer :
        /\ Moves(p) /\ Turns(p, at, answer) /\ Recalls(p)
        /\ \/ tool[p].at = "write apps" /\ at = "open commands" /\ answer = "none"
           \/ /\ tool[p].at = "write commands" /\ tool[p].kind = "startproject"
              /\ at = "tidy" /\ answer = "none"
           \/ /\ tool[p].at = "write commands" /\ tool[p].kind = "startapp"
              /\ at = "done" /\ answer = "ok"
  BY WrittenTool
<1>3. /\ \/ at \in {"write apps", "open commands", "write commands"} /\ answer = "none"
         \/ at = "tidy" /\ answer = "none" /\ tool[p].kind = "startproject"
         \/ at = "done" /\ answer = "ok" /\ tool[p].kind = "startapp"
      /\ tool[p].at \in Calm => at \in {"write commands", "tidy", "done"}
  BY <1>2 DEF Calm
<1>4. PICK f \in Registry : f = File(p)
  BY <1>1 DEF File, Registry
<1>5. /\ f = IF tool[p].at = "write apps" THEN AppsGo ELSE CommandsGo
      /\ AppsGo # CommandsGo /\ {AppsGo, CommandsGo} \subseteq Registry
  BY <1>1, <1>4, PlaceOf DEF File, Registry
<1>6. CASE ~Exists(f) /\ UNCHANGED fs
  <2>1. Leaves(p) /\ Tree' /\ RegistryOnly
    BY <1>6, StandingTree DEF RegistryOnly
  <2>2. ~Progress(p)
    BY <1>1, <1>5, <1>6 DEF Progress, Blank
  <2>3. DOMAIN fs' \subseteq Paths /\ \A x \in DOMAIN fs' : fs'[x] \in Nodes
    BY <1>1, <1>6 DEF Typed
  <2> QED
    BY <1>1, <1>2, <1>3, <2>1, <2>2, <2>3, RegisteredStep
<1>7. ASSUME Exists(f), NEW state \in {"whole", "partial"},
             fs[f].apps \subseteq tool[p].seen => state = "whole",
             fs' = [fs EXCEPT ![f] = [by |-> p, state |-> state,
                      apps |-> IF state = "whole" THEN tool[p].seen ELSE {}]]
      PROVE  IInv'
  <2> DEFINE n == [by |-> p, state |-> state,
                   apps |-> IF state = "whole" THEN tool[p].seen ELSE {}]
  <2>1. /\ n \in Nodes /\ n.by = p /\ n.state = state
        /\ state = "whole" => n.apps = tool[p].seen
    BY <1>1 DEF Nodes, Typed, Command
  <2>2. Touches(f, n) /\ Above(f) \subseteq DOMAIN fs
    BY <1>1, <1>7 DEF Touches, Exists, Tree
  <2> HIDE DEF n
  <2>3. /\ Leaves(p) /\ RegistryOnly /\ Tree'
        /\ DOMAIN fs' \subseteq Paths /\ \A x \in DOMAIN fs' : fs'[x] \in Nodes
    BY <2>1, <2>2, TouchedTree
  <2>4. ASSUME Undisturbed, Progress(p)
        PROVE  /\ Present' = Present
               /\ at # "done" => Progress(p)'
               /\ at = "done" => Built'
    <3>1. /\ \A x : x # f => /\ (Blank(x)' <=> Blank(x)) /\ (Exists(x)' <=> Exists(x))
                             /\ (Whole(x)' <=> Whole(x))
                             /\ \A apps : Lists(x, apps)' <=> Lists(x, apps)
          /\ Present' = Present
      BY <2>2, TouchedFiles
    <3>2. tool[p].seen = Present /\ Blank(f)
      BY <1>1, <1>5, <2>4 DEF Progress
    <3>3. state = "whole" /\ n.state = "whole" /\ n.apps = Present
      BY <1>7, <2>1, <3>2 DEF Blank
    <3>4. Lists(f, Present)'
      BY <2>2, <3>1, <3>3 DEF Touches, Lists, Whole, Exists
    <3>5. Lists(AppsGo, Present)'
      <4>1. CASE tool[p].at = "write apps"
        BY <1>5, <3>4, <4>1
      <4>2. CASE tool[p].at = "write commands"
        <5>1. Lists(AppsGo, Present)
          BY <1>1, <2>4, <4>2 DEF Progress
        <5> QED
          BY <1>5, <3>1, <4>2, <5>1
      <4> QED
        BY <1>1, <4>1, <4>2
    <3>6. tool[p].at = "write commands" => Lists(CommandsGo, Present)'
      BY <1>5, <3>4
    <3>7. CASE at # "done"
      <4>1. tool[p].kind = "startproject" => (Exists(AppsGo)' => Blank(AppsGo)')
        <5>1. tool[p].kind = "startproject" => Present = {}
          BY <1>1, <2>4 DEF Progress
        <5> QED
          BY <3>1, <3>5, <5>1 DEF Lists, Whole, Blank
      <4>2. /\ at \in {"write apps", "open commands", "write commands", "tidy"}
            /\ at \notin {"write apps", "write commands"}
            /\ at = "tidy" => tool[p].at = "write commands"
            /\ tool[p].kind = "startapp" =>
                 at = "open commands" /\ f = AppsGo /\ tool[p].at = "write apps"
        BY <1>2, <1>5, <3>7
      <4>3. Progress(p)'
        BY <1>1, <1>2, <2>2, <2>4, <3>5, <3>6, <4>1, <4>2, TouchedProgress
      <4> QED
        BY <3>1, <3>7, <4>3
    <3>8. CASE at = "done"
      <4>1. tool[p].kind = "startapp" /\ tool[p].at = "write commands"
        BY <1>2, <3>8
      <4>2. Kept(Present \ {tool[p].app}) /\ tool[p].app \in Present
        BY <1>1, <2>4, <4>1 DEF Progress, Present
      <4>3. \A x \in Sources(tool[p].app) : Whole(x)
        BY <1>1, <2>4, <4>1 DEF Progress, Planned
      <4>4. Kept(Present)
        BY <4>2, <4>3 DEF Kept, Sound
      <4>5. Kept(Present)'
        <5>1. \A apps : Kept(apps) => Kept(apps)'
          BY <2>2, TouchedFiles
        <5> QED
          BY <3>1, <4>4, <5>1
      <4> QED
        BY <3>1, <3>5, <3>6, <3>8, <4>1, <4>5 DEF Built
    <3> QED
      BY <3>7, <3>8
  <2> QED
    BY <1>1, <1>2, <1>3, <2>3, <2>4, RegisteredStep
<1> QED
  BY <1>4, <1>6, <1>7 DEF WriteRegistry
-----------------------------------------------------------------------------
(* Steps that remove                                                         *)

\* Some of the paths are removed.
Shrinks(gone) ==
  /\ DOMAIN fs' = DOMAIN fs \ gone /\ \A x \in DOMAIN fs' : fs'[x] = fs[x]

LEMMA RestrictShrinks ==
  ASSUME NEW gone, fs' = Restrict(fs, DOMAIN fs \ gone)
  PROVE  Shrinks(gone)
BY DEF Restrict, Shrinks

LEMMA ShrunkTree ==
  ASSUME IInv, NEW p \in Tools, NEW gone, Shrinks(gone),
         \A x \in DOMAIN fs \ gone : Above(x) \cap gone = {}
  PROVE  /\ Leaves(p) /\ Tree'
         /\ (\A x \in DOMAIN fs \cap gone : fs[x].by = p) => Spares(p)
         /\ DOMAIN fs' \subseteq Paths /\ \A x \in DOMAIN fs' : fs'[x] \in Nodes
<1>1. Tree /\ Typed
  BY DEF IInv
<1>2. Leaves(p)
  BY DEF Shrinks, Leaves
<1>3. Tree'
  BY <1>1 DEF Tree, Shrinks
<1>4. (\A x \in DOMAIN fs \cap gone : fs[x].by = p) => Spares(p)
  BY DEF Shrinks, Spares
<1> QED
  BY <1>1, <1>2, <1>3, <1>4 DEF Typed, Shrinks

LEMMA CleanupStep == ASSUME IInv, NEW p \in Tools, Cleanup(p) PROVE IInv'
<1>1. /\ UNCHANGED <<second, spoiled, disturbed>> /\ tool[p].at = "cleanup"
      /\ uprooted' = (uprooted \/ \E x \in Below(tool[p].own) : fs[x].by # p)
      /\ Typed /\ Tree /\ Course(p) /\ Mine(p) /\ Busy(p)
      /\ tool[p].kind \in {"startproject", "startapp"} /\ tool[p].at \in Making
      /\ tool[p].own = Home(p)
      /\ tool[p].kind = "startapp" => tool[p].app \in Apps
  BY DEF Cleanup, At, Busy, IInv, Course, Typed, Command, Making
<1>2. PICK d : d = Home(p)
  OBVIOUS
<1>3. Shrinks(Below(d))
  BY <1>1, <1>2, RestrictShrinks DEF Cleanup
<1>4. Moves(p) /\ Turns(p, "done", "failed") /\ Recalls(p)
  BY <1>1, Ended DEF Cleanup
<1>5. /\ Home(p)' = Home(p) /\ ~Busy(p)' /\ ~Registers(p)'
      /\ tool'[p].kind = tool[p].kind /\ tool'[p].app = tool[p].app
      /\ tool'[p].at = "done" /\ tool'[p].own = d
  BY <1>1, <1>2, <1>4, TurnedTool DEF Turns, Registers
<1>6. \A x : x \in Below(d) <=> x \in DOMAIN fs /\ (x = d \/ d \in Above(x))
  BY DEF Below
<1>7. \A x \in DOMAIN fs \ Below(d) : Above(x) \cap Below(d) = {}
  <2> SUFFICES ASSUME NEW x \in DOMAIN fs, NEW y \in Above(x), y = d \/ d \in Above(y)
      PROVE  d \in Above(x)
    BY <1>6
  <2>1. x.where \in Wheres
    BY <1>1 DEF Typed, Paths
  <2> QED
    BY <2>1, AboveAbove
<1>8. /\ Leaves(p) /\ Tree'
      /\ DOMAIN fs' \subseteq Paths /\ \A x \in DOMAIN fs' : fs'[x] \in Nodes
  BY <1>3, <1>7, ShrunkTree
<1>9. ~uprooted' => ~uprooted /\ Spares(p)
  <2> SUFFICES ASSUME ~uprooted' PROVE Spares(p)
    BY <1>1
  <2>1. \A x \in DOMAIN fs \cap Below(d) : fs[x].by = p
    BY <1>1, <1>2
  <2> QED
    BY <1>3, <1>7, <2>1, ShrunkTree
<1>10. Typed'
  <2>1. uprooted' \in BOOLEAN
    BY <1>1 DEF Typed
  <2> QED
    BY <1>1, <1>4, <1>8, <2>1 DEF Typed, Moves
<1>11. Course(p)'
  BY <1>1, <1>4, <1>5 DEF Course, Turns, Recalls, Making, Migrating, Registering
<1>12. Mine(p)'
  <2> SUFFICES ASSUME NEW x \in DOMAIN fs', fs'[x].by = p
      PROVE  /\ Dir(x) \/ x \in Registry \/ d \in Above(x)
             /\ d # x /\ d \notin Above(x)
    BY <1>1, <1>5 DEF Mine
  <2>1. x \in DOMAIN fs /\ fs[x].by = p /\ x \notin Below(d)
    BY <1>3 DEF Shrinks
  <2>2. d # x /\ d \notin Above(x)
    BY <1>6, <2>1
  <2> QED
    BY <1>1, <1>2, <2>1, <2>2 DEF Mine
<1>13. Holding(p)'
  BY <1>5 DEF Holding
<1>14. ASSUME ~disturbed' PROVE Undisturbed'
  <2>1. Undisturbed /\ Registers(p) /\ Progress(p)
    BY <1>1, <1>14 DEF IInv, Registers, Undisturbed
  <2>2. CASE tool[p].kind = "startproject"
    <3>1. Present = {} /\ ~Exists(Root)'
      <4>1. d = Root
        BY <1>2, <2>2 DEF Home
      <4>2. Root \notin DOMAIN fs'
        BY <1>3, <1>6, <4>1 DEF Shrinks
      <4> QED
        BY <1>1, <2>1, <2>2, <4>2 DEF Progress, Exists
    <3>2. Settled \subseteq Present'
      BY <3>1 DEF Settled
    <3> QED
      BY <1>4, <1>5, <2>1, <2>2, <3>1, <3>2, RegisterStep
  <2>3. CASE tool[p].kind = "startapp"
    <3>1. /\ d = AppDir(tool[p].app) /\ d.where = "app" /\ d.app = tool[p].app
          /\ tool[p].app \in Apps
      BY <1>1, <1>2, <2>3, PlaceIn DEF Home
    <3>2. /\ Kept(Present \ {tool[p].app}) /\ Lists(AppsGo, Present \ {tool[p].app})
          /\ Lists(CommandsGo, Present \ {tool[p].app})
      <4>1. tool[p].at \notin Registering
        BY <1>1 DEF Registering
      <4> QED
        BY <1>1, <2>1, <2>3, <4>1 DEF Progress
    <3>3. ASSUME NEW x,
                 \/ x \in Skeleton \cup {AppsGo, CommandsGo}
                 \/ \E a \in Apps \ {tool[p].app} : x = AppDir(a) \/ x \in Sources(a)
          PROVE  x # d /\ d \notin Above(x)
      <4>1. CASE x \in Skeleton \cup {AppsGo, CommandsGo}
        <5>1. x.where \in {"marker", "go.mod", "apps.go", "commands.go"}
          BY <4>1, PlaceOf
        <5>2. Above(x) \subseteq {Root, Internal}
          BY <5>1, AboveOf
        <5> QED
          BY <3>1, <5>1, <5>2, PlaceOf
      <4>2. ASSUME NEW a \in Apps \ {tool[p].app}, x = AppDir(a) \/ x \in Sources(a)
            PROVE  x # d /\ d \notin Above(x)
        <5>1. x.where \in {"app", "app.go", "rest"} /\ x.app = a
          BY <4>2, PlaceIn
        <5>2. Above(x) \subseteq {Root, AppsDir, AppDir(a)}
          BY <5>1, AboveOf
        <5>3. AppDir(a).app = a
          BY PlaceIn
        <5> QED
          BY <3>1, <5>1, <5>2, <5>3, PlaceOf
      <4> QED
        BY <3>3, <4>1, <4>2
    <3>4. ASSUME NEW x, x # d, d \notin Above(x)
          PROVE  /\ (Exists(x)' <=> Exists(x)) /\ (Whole(x)' <=> Whole(x))
                 /\ \A apps : Lists(x, apps)' <=> Lists(x, apps)
      <4>1. x \notin Below(d)
        BY <1>6, <3>4
      <4>2. (Exists(x)' <=> Exists(x)) /\ (Exists(x) => fs'[x] = fs[x])
        BY <1>3, <4>1 DEF Shrinks, Exists
      <4> QED
        BY <4>2 DEF Whole, Lists
    <3>5. Present' = Present \ {tool[p].app}
      <4>1. AppDir(tool[p].app) \notin DOMAIN fs'
        BY <1>3, <1>6, <3>1 DEF Shrinks
      <4>2. \A a \in Apps \ {tool[p].app} : AppDir(a) \in DOMAIN fs' <=> AppDir(a) \in DOMAIN fs
        BY <3>3, <3>4 DEF Exists
      <4> QED
        BY <4>1, <4>2 DEF Present, Exists
    <3>6. Built'
      <4>1. Lists(AppsGo, Present)' /\ Lists(CommandsGo, Present)'
        BY <3>2, <3>3, <3>4, <3>5
      <4>2. (\A x \in Skeleton : Whole(x)') /\ Sound(Present)'
        <5>1. \A x \in Skeleton : Whole(x)'
          BY <3>2, <3>3, <3>4 DEF Kept
        <5>2. \A a \in Present' : \A x \in Sources(a) : Whole(x)'
          BY <3>2, <3>3, <3>4, <3>5 DEF Kept, Sound, Present
        <5> QED
          BY <5>1, <5>2 DEF Sound
      <4> QED
        BY <4>1, <4>2 DEF Built, Kept
    <3>7. Settled \subseteq Present'
      BY <1>1, <2>1, <2>3, <3>5 DEF Settled, Calm
    <3> QED
      BY <1>4, <1>5, <2>1, <2>3, <3>6, <3>7, RegisterStep
  <2> QED
    BY <1>1, <2>2, <2>3
<1>15. ASSUME ~spoiled', ~uprooted' PROVE Catalogued'
  <2>1. Catalogued /\ Spares(p)
    BY <1>1, <1>9, <1>15 DEF IInv
  <2>2. \A x \in DOMAIN fs' \ DOMAIN fs : ~IsMigration(x)
    BY <1>3 DEF Shrinks
  <2> QED
    BY <1>1, <1>4, <1>5, <1>8, <2>1, <2>2, NoMigrationStep
<1> QED
  BY <1>4, <1>8, <1>9, <1>10, <1>11, <1>12, <1>13, <1>14, <1>15, Combined

LEMMA UndoStep == ASSUME IInv, NEW p \in Tools, Undo(p) PROVE IInv'
<1>1. /\ UNCHANGED <<second, spoiled, uprooted, disturbed>> /\ tool[p].at = "undo"
      /\ Typed /\ Tree /\ Course(p) /\ Mine(p) /\ Busy(p)
      /\ tool[p].kind = "makemigration" /\ tool[p].own = Nowhere
      /\ tool[p].answer = "none"
  BY DEF Undo, At, Rest, Busy, IInv, Course, Typed, Command, Migrating
<1>2. PICK y : y = Pair(p, "up")
  OBVIOUS
<1>3. y.where = "migration"
  BY <1>2, SideOf
<1>4. Shrinks({y})
  BY <1>1, <1>2, RestrictShrinks DEF Undo
<1>5. Moves(p) /\ Turns(p, "done", "failed") /\ Recalls(p)
  BY <1>1, Ended DEF Undo
<1>6. /\ Home(p)' = Home(p) /\ Sides(p)' = Sides(p) /\ Pair(p, "up")' = y
      /\ ~Busy(p)' /\ tool'[p].kind = "makemigration"
      /\ tool'[p].at = "done" /\ tool'[p].answer = "failed"
  BY <1>1, <1>2, <1>5, TurnedTool DEF Turns
<1>7. \A x \in DOMAIN fs \ {y} : Above(x) \cap {y} = {}
  <2> SUFFICES ASSUME NEW x \in DOMAIN fs, y \in Above(x) PROVE FALSE
    OBVIOUS
  <2>1. x.where \in Wheres
    BY <1>1 DEF Typed, Paths
  <2> QED
    BY <1>3, <2>1, AboveAbove DEF Directories
<1>8. /\ Leaves(p) /\ Tree'
      /\ DOMAIN fs' \subseteq Paths /\ \A x \in DOMAIN fs' : fs'[x] \in Nodes
      /\ (\A x \in DOMAIN fs \cap {y} : fs[x].by = p) => Spares(p)
  BY <1>4, <1>7, ShrunkTree
<1>9. ~uprooted' => ~uprooted /\ Spares(p)
  <2> SUFFICES ASSUME ~uprooted PROVE fs[y].by = p
    BY <1>1, <1>8
  <2>1. Holding(p)
    BY DEF IInv
  <2> QED
    BY <1>1, <1>2, <2>1 DEF Holding
<1>10. Typed'
  BY <1>1, <1>5, <1>8 DEF Typed, Moves
<1>11. Course(p)'
  BY <1>1, <1>5, <1>6 DEF Course, Turns, Recalls, Making, Migrating, Registering
<1>12. \A x \in DOMAIN fs' : x \in DOMAIN fs /\ fs'[x] = fs[x] /\ x # y
  BY <1>4 DEF Shrinks
<1>13. Mine(p)'
  <2> SUFFICES ASSUME NEW x \in DOMAIN fs', fs'[x].by = p
      PROVE  Dir(x) \/ (x \in Sides(p) /\ fs'[x].state = "partial")
    BY <1>6 DEF Mine
  <2> QED
    BY <1>1, <1>2, <1>12 DEF Mine
<1>14. Holding(p)'
  BY <1>6 DEF Holding
<1>15. ASSUME ~disturbed' PROVE Undisturbed'
  <2>1. Undisturbed /\ ~Registers(p) /\ ~Registers(p)'
    BY <1>1, <1>6, <1>15 DEF IInv, Registers
  <2>2. SameCore
    BY <1>3, <1>4 DEF SameCore, Core, Shrinks, Exists
  <2> QED
    BY <1>5, <1>6, <2>1, <2>2, AsideStep
<1>16. ASSUME ~spoiled', ~uprooted' PROVE Catalogued'
  <2>1. Catalogued /\ Spares(p)
    BY <1>1, <1>9, <1>16 DEF IInv
  <2>2. ASSUME NEW x \in DOMAIN fs', IsMigration(x), fs'[x].by = p PROVE FALSE
    <3>1. x \in Migrations /\ fs[x].by = p
      BY <1>12, <2>2 DEF Migrations
    <3> QED
      BY <1>1, <1>2, <1>12, <2>1, <2>2, <3>1 DEF Catalogued
  <2> QED
    BY <1>5, <1>6, <1>8, <2>1, <2>2, CatalogueStep
<1> QED
  BY <1>5, <1>8, <1>9, <1>10, <1>11, <1>13, <1>14, <1>15, <1>16, Combined
-----------------------------------------------------------------------------
(* The invariant                                                             *)

LEMMA NextStep == ASSUME IInv, [Next]_vars PROVE IInv'
<1>1. CASE Tick
  BY <1>1, TickStep DEF Tick, IInv, Typed
<1>2. CASE UNCHANGED vars
  BY <1>2, TickStep DEF vars, IInv, Typed
<1>3. ASSUME NEW p \in Tools, Step(p) PROVE IInv'
  BY <1>3, BeginStep, DiscoverStep, MkdirStep, DirsStep, WriteNewStep, FilesDoneStep,
     ReadDirStep, StatStep, OpenRegistryStep, WriteRegistryStep, TidyStep, CleanupStep,
     CompileStep, SelectStep, StatPairStep, WriteUpStep, WriteDownStep, UndoStep,
     FailsStep, WriteFailsStep, KilledStep
     DEF Step
<1> QED
  BY <1>1, <1>2, <1>3 DEF Next

\* A project as earlier commands leave it.
LEMMA MadeIs ==
  ASSUME NEW apps \in SUBSET Apps, fs = Made(apps)
  PROVE  /\ DOMAIN fs \subseteq Paths /\ Tree /\ Exists(Root)
         /\ \A x \in DOMAIN fs :
              fs[x] \in Nodes /\ fs[x].by = NoTool /\ ~IsMigration(x)
         /\ Built
<1> DEFINE D == {Root, Internal, AppsDir} \cup Skeleton \cup Registry
                  \cup UNION {Sources(a) \cup {AppDir(a), SubDir(a)} : a \in apps}
<1>1. DOMAIN fs = D /\ Exists(Root)
  BY DEF Made, Exists
<1>2. /\ {Root, Internal, AppsDir} \subseteq D /\ Skeleton \subseteq D /\ Registry \subseteq D
      /\ \A a \in apps : AppDir(a) \in D /\ SubDir(a) \in D /\ Sources(a) \subseteq D
  OBVIOUS
<1>3. ASSUME NEW x \in D
      PROVE  \/ x \in {Root, Internal, AppsDir} \cup Skeleton \cup Registry
             \/ \E a \in apps : x \in Sources(a) \/ x = AppDir(a) \/ x = SubDir(a)
  OBVIOUS
<1>4. \A x \in D : /\ fs[x].by = NoTool /\ fs[x].state = "whole" /\ fs[x] \in Nodes
                   /\ fs[x].apps = IF x \in Registry THEN apps ELSE {}
  <2> SUFFICES ASSUME NEW x \in D
      PROVE  /\ fs[x].by = NoTool /\ fs[x].state = "whole" /\ fs[x] \in Nodes
             /\ fs[x].apps = IF x \in Registry THEN apps ELSE {}
    OBVIOUS
  <2>1. fs[x] = [Node(NoTool, "whole") EXCEPT !.apps = IF x \in Registry THEN apps ELSE {}]
    BY DEF Made
  <2> HIDE DEF D
  <2> QED
    BY <2>1 DEF Node, Nodes
<1> HIDE DEF D
<1>5. ASSUME NEW x \in D
      PROVE  /\ x \in Paths /\ x.where \notin {"nowhere", "migration"}
             /\ Above(x) \subseteq D
  <2>1. CASE x \in {Root, Internal, AppsDir} \cup Skeleton \cup Registry
    <3>1. x \in Paths
      BY <2>1, PathTypes
    <3>2. x.where \in {"root", "internal", "apps", "marker", "go.mod", "apps.go", "commands.go"}
      BY <2>1, PlaceOf
    <3>3. Above(x) \subseteq {Root, Internal}
      BY <3>2, AboveOf
    <3> QED
      BY <1>2, <3>1, <3>2, <3>3
  <2>2. ASSUME NEW a \in apps, x \in Sources(a) \/ x = AppDir(a) \/ x = SubDir(a)
        PROVE  /\ x \in Paths /\ x.where \notin {"nowhere", "migration"}
               /\ Above(x) \subseteq D
    <3>1. x \in Paths
      BY <2>2, PathTypes
    <3>2. x.where \in {"app", "app.go", "rest", "migrations"} /\ x.app = a
      BY <2>2, PlaceIn
    <3>3. Above(x) \subseteq {Root, AppsDir, AppDir(a)}
      BY <3>2, AboveOf
    <3> QED
      BY <1>2, <3>1, <3>2, <3>3
  <2> QED
    BY <1>3, <2>1, <2>2
<1>6. Tree
  BY <1>1, <1>5 DEF Tree
<1>7. Present = apps
  <2>1. apps \subseteq Present
    BY <1>1, <1>2 DEF Present, Exists
  <2>2. ASSUME NEW a \in Apps, AppDir(a) \in D PROVE a \in apps
    <3>1. AppDir(a).where = "app" /\ AppDir(a).app = a
      BY PlaceIn
    <3>2. AppDir(a) \notin {Root, Internal, AppsDir} \cup Skeleton \cup Registry
      BY <3>1, PlaceOf
    <3>3. PICK b \in apps : AppDir(a) \in Sources(b) \/ AppDir(a) = AppDir(b) \/ AppDir(a) = SubDir(b)
      BY <1>3, <2>2, <3>2
    <3>4. AppDir(a).app = b
      BY <3>3, PlaceIn
    <3> QED
      BY <3>1, <3>4
  <2> QED
    BY <1>1, <2>1, <2>2 DEF Present, Exists
<1>8. Built
  <2>1. \A x \in D : Whole(x)
    BY <1>1, <1>4 DEF Whole, Exists
  <2>2. Kept(Present)
    BY <1>2, <1>7, <2>1 DEF Kept, Sound
  <2>3. AppsGo \in Registry /\ CommandsGo \in Registry
    BY DEF Registry
  <2> QED
    BY <1>2, <1>4, <1>7, <2>1, <2>2, <2>3 DEF Built, Lists
<1> QED
  BY <1>1, <1>4, <1>5, <1>6, <1>8 DEF IsMigration

LEMMA InitIInv == Init => IInv
<1> SUFFICES ASSUME Init PROVE IInv
  OBVIOUS
<1>1. /\ \A p \in Tools : tool[p] = Idle
      /\ Idle.at = "idle" /\ Idle.kind = "none" /\ Idle.own = Nowhere
      /\ Idle.written = {} /\ Idle.answer = "none" /\ Idle.seen = {} /\ Idle.app = "none"
  BY DEF Init, Idle
<1>2. tool \in [Tools -> Command]
  <2>1. Idle \in Command
    BY PathTypes DEF Idle, Command, Stages
  <2> QED
    BY <2>1 DEF Init
<1>3. /\ DOMAIN fs \subseteq Paths /\ Tree
      /\ \A x \in DOMAIN fs : fs[x] \in Nodes /\ fs[x].by = NoTool /\ ~IsMigration(x)
      /\ Exists(Root) => Built
  <2>1. CASE fs = <<>>
    <3>1. DOMAIN fs = {}
      BY <2>1
    <3> QED
      BY <3>1 DEF Tree, Exists
  <2> QED
    BY <2>1, MadeIs DEF Init
<1>4. Typed
  BY <1>2, <1>3 DEF Init, Typed
<1>5. \A p \in Tools : Course(p) /\ Mine(p) /\ Holding(p) /\ ~Registers(p)
  BY <1>1, <1>3, ToolsAssumption
     DEF Course, Mine, Holding, Registers, Busy, Making, Migrating, Registering
<1>6. Undisturbed
  BY <1>1, <1>3, <1>5 DEF Undisturbed
<1>7. Catalogued
  BY <1>1, <1>3 DEF Catalogued, Migrations
<1> QED
  BY <1>3, <1>4, <1>5, <1>6, <1>7 DEF IInv

\* The invariant: what each tool has made and can rely on, and how far the
\* registry and the catalogue are.
THEOREM InductiveInvariant == Spec => []IInv
<1>1. IInv /\ [Next]_vars => IInv'
  BY NextStep
<1> QED
  BY InitIInv, <1>1, PTL DEF Spec
-----------------------------------------------------------------------------
(* What follows from it                                                      *)

\* An error return leaves nothing of what the command made, whatever the other
\* tools did meanwhile (the deferred RemoveAll, and the removal of a first side).
THEOREM ErrorsLeaveNothing == Spec => []FailureLeavesNothing
<1>1. IInv => FailureLeavesNothing
  <2> SUFFICES ASSUME IInv, NEW p \in Tools, tool[p].at = "done", tool[p].answer = "failed"
      PROVE  /\ \A x \in DOMAIN fs \ Registry :
                  fs[x].by = p => Dir(x) \/ (IsMigration(x) /\ fs[x].state = "partial")
             /\ tool[p].own \in DOMAIN fs => fs[tool[p].own].by # p
    BY DEF FailureLeavesNothing, At
  <2>1. /\ Mine(p) /\ Course(p) /\ Tree /\ Failed(p)
        /\ tool[p].kind \in {"startproject", "startapp", "makemigration"}
    BY DEF IInv, Failed, At, Course, Typed, Command
  <2>2. \A x \in Sides(p) : IsMigration(x)
    BY SideOf DEF Sides, IsMigration
  <2>3. ASSUME NEW x \in DOMAIN fs \ Registry, fs[x].by = p
        PROVE  Dir(x) \/ (IsMigration(x) /\ fs[x].state = "partial")
    BY <2>1, <2>2, <2>3 DEF Mine
  <2>4. ASSUME tool[p].own \in DOMAIN fs, fs[tool[p].own].by = p PROVE FALSE
    <3>1. tool[p].own # Nowhere
      BY <2>1, <2>4, PlaceOf DEF Tree
    <3> QED
      BY <2>1, <2>4, <3>1 DEF Mine, Course
  <2> QED
    BY <2>3, <2>4
<1> QED
  BY <1>1, InductiveInvariant, PTL

\* Commands that write the registry one after the other, and succeed or fail
\* cleanly, leave a project that builds, with every app that has a directory.
THEOREM RegistryIsWhole == Spec => []RegistryMatchesApps
<1>1. IInv => RegistryMatchesApps
  <2> SUFFICES ASSUME IInv, ~disturbed, Exists(Root), \A p \in Tools : ~Registers(p)
      PROVE  Compiles /\ \A x \in Registry : fs[x].apps = {a \in Apps : Exists(AppDir(a))}
    BY DEF RegistryMatchesApps
  <2>1. Built
    BY DEF IInv, Undisturbed
  <2>2. \A x \in Registry : Whole(x) /\ fs[x].apps = Present
    BY <2>1 DEF Built, Lists, Registry
  <2>3. Compiles
    BY <2>1, <2>2 DEF Compiles, Built, Kept, Sound, Registry
  <2> QED
    BY <2>2, <2>3 DEF Present
<1> QED
  BY <1>1, InductiveInvariant, PTL

\* When no makemigration is under way or was cut off, every migration has both
\* sides and an identity of its own, but for two that chose one second.
THEOREM CatalogueIsUsable == Spec => []CatalogueUsable
<1>1. IInv => CatalogueUsable
  <2> SUFFICES ASSUME IInv, ~spoiled, ~uprooted,
                      \A p \in Tools : Busy(p) => tool[p].kind # "makemigration",
                      \A p, q \in Tools :
                        /\ p # q
                        /\ tool[p].kind = "makemigration" /\ tool[p].answer = "ok"
                        /\ tool[q].kind = "makemigration" /\ tool[q].answer = "ok"
                        => tool[p].stamp # tool[q].stamp
      PROVE  Usable
    BY DEF CatalogueUsable
  <2>1. Catalogued
    BY DEF IInv
  <2>2. ASSUME NEW x \in Migrations
        PROVE  \E p \in Tools :
                 /\ tool[p].kind = "makemigration" /\ tool[p].answer = "ok"
                 /\ x \in Sides(p)
    BY <2>1 DEF Catalogued, Busy
  <2>3. \A p \in Tools : \A x \in Sides(p) :
          x.stamp = tool[p].stamp /\ x.name = tool[p].name /\ x.app = tool[p].app
    BY SideOf DEF Sides
  <2>4. ASSUME NEW x \in Migrations, NEW y \in Migrations, x.stamp = y.stamp
        PROVE  x.name = y.name /\ x.app = y.app
    BY <2>2, <2>3, <2>4
  <2>5. ASSUME NEW x \in Migrations, NEW side \in {"up", "down"}
        PROVE  Migration(x.app, x.stamp, x.name, side) \in Migrations
    <3>1. PICK p \in Tools :
            /\ tool[p].kind = "makemigration" /\ tool[p].answer = "ok" /\ x \in Sides(p)
      BY <2>2
    <3>2. Migration(x.app, x.stamp, x.name, side) = Pair(p, side)
      BY <2>3, <3>1 DEF Pair
    <3>3. Pair(p, side) \in Sides(p) /\ IsMigration(Pair(p, side))
      BY SideOf DEF Sides, IsMigration
    <3> QED
      BY <2>1, <3>1, <3>2, <3>3 DEF Catalogued, Migrations, Exists
  <2> QED
    BY <2>4, <2>5 DEF Usable
<1> QED
  BY <1>1, InductiveInvariant, PTL

\* Only one tool moves in a step.
LEMMA StepMoves ==
  ASSUME Typed, NEW p \in Tools, Step(p), NEW q \in Tools, tool'[q] # tool[q]
  PROVE  q = p
<1>1. \A at : Go(p, at) => q = p
  BY DEF Typed, Go
<1>2. \A own : Abort(p, own) => q = p
  BY DEF Typed, Abort
<1>3. \A answer : End(p, answer) => q = p
  BY DEF Typed, End
<1>4. CASE Begin(p) \/ FilesDone(p) \/ ReadDir(p) \/ Stat(p)
  BY <1>2, <1>4 DEF Typed, Begin, FilesDone, ReadDir, Stat
<1>5. CASE Mkdir(p) \/ WriteNew(p) \/ Compile(p) \/ Select(p)
  BY <1>2, <1>5 DEF Typed, Mkdir, WriteNew, Compile, Select
<1>6. CASE Discover(p) \/ Dirs(p) \/ OpenRegistry(p) \/ WriteRegistry(p) \/ Tidy(p)
  BY <1>1, <1>2, <1>3, <1>6 DEF Discover, Dirs, OpenRegistry, WriteRegistry, Tidy
<1>7. CASE Cleanup(p) \/ StatPair(p) \/ WriteUp(p) \/ WriteDown(p) \/ Undo(p)
  BY <1>1, <1>2, <1>3, <1>7 DEF Cleanup, StatPair, WriteUp, WriteDown, Undo
<1>8. CASE Fails(p) \/ WriteFails(p) \/ Killed(p)
  BY <1>1, <1>2, <1>8 DEF Fails, WriteFails, Killed
<1> QED
  BY <1>4, <1>5, <1>6, <1>7, <1>8 DEF Step

\* All but the two removals keep what is there.
Keeps == \A x \in DOMAIN fs \ Registry : x \in DOMAIN fs' /\ fs'[x] = fs[x]

LEMMA StepKeeps ==
  ASSUME NEW p \in Tools, Step(p), ~Cleanup(p), ~Undo(p)
  PROVE  Keeps
<1>1. UNCHANGED fs => Keeps
  BY DEF Keeps
<1>2. \A paths, state : fs' = Adding(p, paths, state) => Keeps
  BY AddingGrows DEF Grows, Keeps
<1>3. CASE \/ Begin(p) \/ Discover(p) \/ FilesDone(p) \/ ReadDir(p) \/ Stat(p) \/ Tidy(p)
           \/ Compile(p) \/ Select(p) \/ Fails(p) \/ Killed(p)
  BY <1>1, <1>3
     DEF Begin, Discover, FilesDone, ReadDir, Stat, Tidy, Compile, Select, Fails, Killed
<1>4. CASE Mkdir(p) \/ Dirs(p) \/ WriteNew(p)
  BY <1>1, <1>2, <1>4 DEF Mkdir, Dirs, WriteNew
<1>5. CASE StatPair(p) \/ WriteUp(p) \/ WriteDown(p) \/ WriteFails(p)
  BY <1>1, <1>2, <1>5 DEF StatPair, WriteUp, WriteDown, WriteFails
<1>6. CASE OpenRegistry(p) \/ WriteRegistry(p)
  <2>1. File(p) \in Registry
    BY DEF File, Registry
  <2> QED
    BY <1>1, <1>6, <2>1 DEF OpenRegistry, WriteRegistry, Keeps, Exists
<1> QED
  BY <1>3, <1>4, <1>5, <1>6 DEF Step

\* A command changes or removes only what it made, or what is in a directory
\* that it made, as long as no removal took another's files with it.
THEOREM OthersAreKept == Spec => OthersFilesKept
<1> DEFINE A == ~uprooted => \A p \in Tools : tool'[p] # tool[p] =>
                  \A x \in DOMAIN fs \ Registry :
                    (x \in DOMAIN fs' /\ fs'[x] = fs[x])
                      \/ \E d \in {x} \cup Above(x) : Exists(d) /\ fs[d].by = p
<1>1. IInv /\ [Next]_vars => [A]_vars
  <2> SUFFICES ASSUME IInv, Next, ~uprooted, NEW p \in Tools, tool'[p] # tool[p],
                      NEW x \in DOMAIN fs \ Registry
      PROVE  \/ x \in DOMAIN fs' /\ fs'[x] = fs[x]
             \/ \E d \in {x} \cup Above(x) : Exists(d) /\ fs[d].by = p
    BY DEF A
  <2>1. Typed /\ Holding(p) /\ Course(p)
    BY DEF IInv
  <2>2. Step(p)
    BY <2>1, StepMoves DEF Next, Tick, vars
  <2>3. CASE Cleanup(p)
    <3>1. tool[p].at = "cleanup" /\ Busy(p) /\ tool[p].own # Nowhere
      BY <2>1, <2>3, HomeIs DEF Cleanup, At, Busy, Course, Making
    <3>2. Exists(tool[p].own) /\ fs[tool[p].own].by = p
      BY <2>1, <3>1 DEF Holding
    <3>3. Shrinks(Below(tool[p].own))
      BY <2>3, RestrictShrinks DEF Cleanup
    <3> QED
      BY <3>2, <3>3 DEF Shrinks, Below
  <2>4. CASE Undo(p)
    <3>1. Exists(Pair(p, "up")) /\ fs[Pair(p, "up")].by = p
      BY <2>1, <2>4 DEF Holding, Undo, At
    <3>2. Shrinks({Pair(p, "up")})
      BY <2>4, RestrictShrinks DEF Undo
    <3> QED
      BY <3>1, <3>2 DEF Shrinks
  <2>5. CASE ~Cleanup(p) /\ ~Undo(p)
    BY <2>2, <2>5, StepKeeps DEF Keeps
  <2> QED
    BY <2>3, <2>4, <2>5
<1> QED
  BY <1>1, InductiveInvariant, PTL DEF Spec, OthersFilesKept
=============================================================================
