----------------------------- MODULE Migrations -----------------------------
(* Operators' processes applying and rolling back migrations of one database *)
(* (migrations/migrations.go over Bun's migrator). Every statement, and each *)
(* migration's transaction, is a step of its own; a statement may fail, with *)
(* or without having had its effect, and a process may die between two.      *)
(* All processes run the same catalog, numbered in the order of the names.   *)
EXTENDS Naturals, FiniteSets

CONSTANTS
  Last,         \* the catalog is 1..Last
  Runners, NoRunner,
  MaxGroup,     \* bound on group ids
  MaxFaults,    \* bound on failing statements
  MaxCrashes    \* bound on processes that die

ASSUME ConstantsAssumption ==
  /\ Last \in Nat /\ MaxGroup \in Nat /\ MaxFaults \in Nat /\ MaxCrashes \in Nat
  /\ NoRunner \notin Runners

Catalog == 1..Last
Groups  == 0..MaxGroup

VARIABLES
  schema,    \* the migrations whose SQL is in effect
  group,     \* the bookkeeping table: the group of a migration, 0 if no row
  lock,      \* who inserted the row of the lock table, or NoRunner; the row
             \* itself names no owner
  pc,        \* where each process is
  command,   \* what it runs
  todo,      \* the migrations it read it has to run
  number,    \* the group id it records them under
  faults, crashes,
  torn,      \* history: migrations whose SQL and bookkeeping were separated
  cutOff     \* history: processes whose lock or unlock statement failed

store == <<schema, group>>
vars == <<store, lock, pc, command, todo, number, faults, crashes,
          torn, cutOff>>

Phases   == {"idle", "lock", "plan", "run", "record", "unlock", "done", "dead"}
Critical == {"plan", "run", "record", "unlock"}

Recorded == {m \in Catalog : group[m] # 0}

\* The greatest group id in the bookkeeping table, 0 if it is empty.
LastGroup(g) ==
  /\ g = 0 \/ \E m \in Catalog : group[m] = g
  /\ \A m \in Catalog : group[m] <= g

Init ==
  /\ schema = {} /\ group = [m \in Catalog |-> 0]
  /\ lock = NoRunner
  /\ pc = [r \in Runners |-> "idle"]
  /\ command = [r \in Runners |-> "apply"]
  /\ todo = [r \in Runners |-> {}] /\ number = [r \in Runners |-> 0]
  /\ faults = 0 /\ crashes = 0 /\ torn = {} /\ cutOff = {}
-----------------------------------------------------------------------------
Goto(r, from, to) == pc[r] = from /\ pc' = [pc EXCEPT ![r] = to]

Fault == faults < MaxFaults /\ faults' = faults + 1

\* Mutant: a rolled-back group is taken down in the order it was applied in.
FollowsUpwards(c, m, n) == m <= n

\* A catalog runs upwards; a group is rolled back downwards.
Follows(c, m, n) == IF c = "apply" THEN m <= n ELSE n <= m

Current(r, m) ==
  m \in todo[r] /\ \A n \in todo[r] : Follows(command[r], m, n)

\* The transaction of one migration, and the bookkeeping row it then gets
\* (WithMarkAppliedOnSuccess) or loses.
Executed(r, m) ==
  IF command[r] = "apply" THEN schema \cup {m} ELSE schema \ {m}

\* Mutant: a rollback leaves the bookkeeping row behind.
BookedAppliedOnly(r, m) ==
  [group EXCEPT ![m] = IF command[r] = "apply" THEN number[r] ELSE group[m]]

Booked(r, m) ==
  [group EXCEPT ![m] = IF command[r] = "apply" THEN number[r] ELSE 0]

\* Apply and Rollback first create the bookkeeping tables if they are missing.
Begin(r) ==
  /\ Goto(r, "idle", "lock")
  /\ \E c \in {"apply", "rollback"} : command' = [command EXCEPT ![r] = c]
  /\ UNCHANGED <<store, lock, todo, number, faults, crashes, torn, cutOff>>

\* Without the confirmation a rollback returns before any statement.
Unconfirmed(r) ==
  /\ Goto(r, "idle", "done")
  /\ UNCHANGED <<store, lock, command, todo, number, faults, crashes, torn,
                 cutOff>>

\* Mutant: the lock table accepts a second row.
LockTwice(r) ==
  /\ Goto(r, "lock", "plan")
  /\ lock' = r
  /\ UNCHANGED <<store, command, todo, number, faults, crashes, torn, cutOff>>

Lock(r) ==
  /\ lock = NoRunner
  /\ Goto(r, "lock", "plan")
  /\ lock' = r
  /\ UNCHANGED <<store, command, todo, number, faults, crashes, torn, cutOff>>

\* Mutants: unlocking is deferred before the lock is taken; the lock is
\* waited for.
LockRefusedUnlocks(r) ==
  /\ lock # NoRunner
  /\ Goto(r, "lock", "unlock")
  /\ UNCHANGED <<store, lock, command, todo, number, faults, crashes, torn,
                 cutOff>>
LockAwaited(r) == lock # NoRunner /\ pc[r] = "lock" /\ UNCHANGED vars

\* The row is there already: the error returns before unlocking is deferred.
LockRefused(r) ==
  /\ lock # NoRunner
  /\ Goto(r, "lock", "done")
  /\ UNCHANGED <<store, lock, command, todo, number, faults, crashes, torn,
                 cutOff>>

\* The insert reports an error, but may have happened.
LockFails(r) ==
  /\ lock = NoRunner
  /\ Goto(r, "lock", "done") /\ Fault
  /\ lock' \in {lock, r}
  /\ cutOff' = cutOff \cup {r}
  /\ UNCHANGED <<store, command, todo, number, crashes, torn>>

NextGroup(g) == g + 1

\* What is to be done is read once, under the lock: for Apply the migrations
\* without a row, under a new group id; for Rollback the last group.
Plan(r) ==
  \E g \in Groups :
    LET work == IF command[r] = "apply" THEN Catalog \ Recorded
                ELSE {m \in Recorded : group[m] = g}
    IN
    /\ LastGroup(g)
    /\ Goto(r, "plan", IF work = {} THEN "unlock" ELSE "run")
    /\ todo' = [todo EXCEPT ![r] = work]
    /\ number' = [number EXCEPT ![r] = NextGroup(g)]
    /\ UNCHANGED <<store, lock, command, faults, crashes, torn, cutOff>>

PlanFails(r) ==
  /\ Goto(r, "plan", "unlock") /\ Fault
  /\ UNCHANGED <<store, lock, command, todo, number, crashes, torn, cutOff>>

Run(r) ==
  \E m \in Catalog :
    /\ Current(r, m)
    /\ Goto(r, "run", "record")
    /\ schema' = Executed(r, m)
    /\ UNCHANGED <<group, lock, command, todo, number, faults, crashes, torn,
                   cutOff>>

\* A migration's SQL fails: of itself, when its effect is there already or is
\* missing, or for any reason, a lost answer to its COMMIT included.
RunRejected(r) ==
  \E m \in Catalog :
    /\ Current(r, m)
    /\ Executed(r, m) = schema
    /\ Goto(r, "run", "unlock")
    /\ UNCHANGED <<store, lock, command, todo, number, faults, crashes, torn,
                   cutOff>>

\* Mutant: a failing migration returns without the deferred unlock.
RunFailsLocked(r) ==
  \E m \in Catalog :
    /\ Current(r, m)
    /\ Goto(r, "run", "done") /\ Fault
    /\ UNCHANGED <<store, torn, lock, command, todo, number, crashes, cutOff>>

RunFails(r) ==
  \E m \in Catalog :
    /\ Current(r, m)
    /\ Goto(r, "run", "unlock") /\ Fault
    /\ \/ UNCHANGED <<schema, torn>>
       \/ schema' = Executed(r, m) /\ torn' = torn \cup {m}
    /\ UNCHANGED <<group, lock, command, todo, number, crashes, cutOff>>

Record(r) ==
  \E m \in Catalog :
    /\ Current(r, m)
    /\ Goto(r, "record", IF todo[r] = {m} THEN "unlock" ELSE "run")
    /\ group' = Booked(r, m)
    /\ todo' = [todo EXCEPT ![r] = @ \ {m}]
    /\ torn' = torn \ {m}
    /\ UNCHANGED <<schema, lock, command, number, faults, crashes, cutOff>>

RecordFails(r) ==
  \E m \in Catalog :
    /\ Current(r, m)
    /\ Goto(r, "record", "unlock") /\ Fault
    /\ \/ UNCHANGED group /\ torn' = torn \cup {m}
       \/ group' = Booked(r, m) /\ torn' = torn \ {m}
    /\ UNCHANGED <<schema, lock, command, todo, number, crashes, cutOff>>

\* The deferred unlock, in a context of its own that a cancellation of the
\* command does not reach: it deletes the row, whoever inserted it.
Unlock(r) ==
  /\ Goto(r, "unlock", "done")
  /\ lock' = NoRunner
  /\ UNCHANGED <<store, command, todo, number, faults, crashes, torn, cutOff>>

UnlockFails(r) ==
  /\ Goto(r, "unlock", "done") /\ Fault
  /\ lock' \in {lock, NoRunner}
  /\ cutOff' = cutOff \cup {r}
  /\ UNCHANGED <<store, command, todo, number, crashes, torn>>

\* The process dies: nothing is undone, nothing is released.
Crash(r) ==
  /\ crashes < MaxCrashes /\ crashes' = crashes + 1
  /\ pc[r] \notin {"idle", "done", "dead"}
  /\ pc' = [pc EXCEPT ![r] = "dead"]
  /\ torn' = torn \cup {m \in Catalog : pc[r] = "record" /\ Current(r, m)}
  /\ UNCHANGED <<store, lock, command, todo, number, faults, cutOff>>

\* docs/migrations.md: an operator who has inspected the tables removes the
\* lock of a process that is gone; no code does.
RemoveStaleLock ==
  /\ lock # NoRunner
  /\ pc[lock] \in {"done", "dead"}
  /\ lock' = NoRunner
  /\ UNCHANGED <<store, pc, command, todo, number, faults, crashes, torn,
                 cutOff>>

\* Every process has ended: each runs one command.
Quiet == (\A r \in Runners : pc[r] \in {"done", "dead"}) /\ UNCHANGED vars

Step(r) ==
  \/ Lock(r) \/ LockRefused(r) \/ LockFails(r) \/ Plan(r) \/ PlanFails(r)
  \/ Run(r) \/ RunRejected(r) \/ RunFails(r) \/ Record(r) \/ RecordFails(r)
  \/ Unlock(r) \/ UnlockFails(r)

Next ==
  \/ \E r \in Runners : Begin(r) \/ Unconfirmed(r) \/ Step(r) \/ Crash(r)
  \/ RemoveStaleLock
  \/ Quiet

Spec == Init /\ [][Next]_vars

\* A started process goes on: every statement returns or fails.
FairSpec == Spec /\ \A r \in Runners : WF_vars(Step(r))
-----------------------------------------------------------------------------
TypeOK ==
  /\ schema \subseteq Catalog /\ group \in [Catalog -> Nat]
  /\ lock \in Runners \cup {NoRunner}
  /\ pc \in [Runners -> Phases]
  /\ command \in [Runners -> {"apply", "rollback"}]
  /\ todo \in [Runners -> SUBSET Catalog] /\ number \in [Runners -> Nat]
  /\ faults \in Nat /\ crashes \in Nat
  /\ torn \subseteq Catalog /\ cutOff \subseteq Runners

\* No two processes are ever between taking the lock and releasing it, whether
\* their statements fail, they die, or an operator removes a stale lock; in
\* particular a process that was refused releases nobody's lock.
LockExclusive ==
  \A r, q \in Runners : pc[r] \in Critical /\ pc[q] \in Critical => r = q

\* "Applied bookkeeping is written only after each transactional migration
\* succeeds": the bookkeeping and the schema disagree on the one migration
\* that is being recorded and on those that a failure or a death tore apart.
BookkeepingAgrees ==
  \A m \in Catalog :
    \/ m \in schema <=> m \in Recorded
    \/ m \in torn
    \/ \E r \in Runners : pc[r] = "record" /\ Current(r, m)

\* Concurrent runs share the work: a migration is never about to be applied
\* over its own effect, or rolled back without it, unless it was torn.
RunsOnce ==
  \A r \in Runners, m \in Catalog :
    pc[r] = "run" /\ Current(r, m) =>
      Executed(r, m) # schema \/ m \in torn

\* The deferred unlock runs on every path: a process that has ended leaves the
\* lock behind only if its lock or its unlock statement itself failed.
LeftLockedOnlyWhenCutOff ==
  \A r \in Runners : lock = r /\ pc[r] = "done" => r \in cutOff

\* A run that has started ends, even when the lock is stale: it is refused,
\* never blocked.
Terminates ==
  \A r \in Runners : pc[r] = "lock" ~> pc[r] \in {"done", "dead"}

\* The inductive invariant behind the theorems of MigrationsProofs: whoever is
\* at work has the lock, the records are a stack, what is left of a plan is
\* what it would be if it were made again now, and a migration that is being
\* recorded has just had its effect.
OwnersOnly ==
  \A r \in Runners :
    /\ pc[r] \in Critical => lock = r
    /\ pc[r] \in {"idle", "lock"} => lock # r

RecordsAreAStack ==
  \E k \in 0..Last :
    /\ Recorded = 1..k
    /\ \A m, n \in 1..k : m <= n => group[m] <= group[n]

PlanHolds(r) ==
  /\ todo[r] # {}
  /\ \A m \in Catalog :
       IF command[r] = "apply"
       THEN (m \in todo[r] <=> m \notin Recorded) /\ group[m] <= number[r]
       ELSE (m \in todo[r] <=> m \in Recorded /\ group[m] + 1 = number[r])
            /\ group[m] < number[r]
  /\ number[r] = 1 \/ \E m \in Catalog : group[m] + 1 >= number[r]
  /\ number[r] # 0
  /\ pc[r] = "record" =>
       \A m \in Catalog : Current(r, m) => Executed(r, m) = schema

IInv ==
  /\ TypeOK /\ OwnersOnly /\ RecordsAreAStack /\ BookkeepingAgrees
  /\ LeftLockedOnlyWhenCutOff
  /\ \A r \in Runners : pc[r] \in {"run", "record"} => PlanHolds(r)

\* The bookkeeping implements MigrationHistory.
History == INSTANCE MigrationHistory WITH
  history <- [m \in 1..Cardinality(Recorded) |-> group[m]]
HistoryIsAStack == History!Spec
=============================================================================
