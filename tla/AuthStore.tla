------------------------------ MODULE AuthStore ------------------------------
(* Accounts and permissions as auth.BunStore keeps them (auth/bun_store.go,  *)
(* its tables in auth/migrations), what auth.Manager writes, and the decision *)
(* web.RequirePermission takes from what it reads back. An operation is a    *)
(* sequence of statements; statements of other clients, and an operator's,   *)
(* fall between them. A row is a tuple of its table and its keys, a column   *)
(* that is true a row of its own. Users are not deleted.                     *)
EXTENDS Naturals, FiniteSets

CONSTANTS
  Users, Groups, Permissions,
  Clients,       \* each makes one call
  MaxEdits       \* bound on the statements of the operator

ASSUME EditsAssumption == MaxEdits \in Nat

VARIABLES
  db,        \* the committed rows
  client,    \* of each client: where it is, its call, the rows its
             \* transaction has not committed, what it has read, its answer
  moments,   \* of each client: the contents of db since its call began
  edits      \* statements of the operator so far

vars == <<db, client, moments, edits>>

Row(t, a) == {<<t, x>> : x \in a}
Link(t, a, b) == {<<t, x[1], x[2]>> : x \in a \X b}

Columns == Row("active", Users) \cup Row("superuser", Users)
Objects == Row("user", Users) \cup Row("group", Groups)
             \cup Row("permission", Permissions)
Grants == Link("user_permission", Users, Permissions)
Links == Grants \cup Link("user_group", Users, Groups)
           \cup Link("group_permission", Groups, Permissions)
Rows == Columns \cup Objects \cup Links

\* The foreign keys, all ON DELETE CASCADE; a column goes with its row.
Parents(r) ==
  CASE r \in Columns -> {<<"user", r[2]>>}
    [] r \in Objects -> {}
    [] r[1] = "user_permission" -> {<<"user", r[2]>>, <<"permission", r[3]>>}
    [] r[1] = "user_group" -> {<<"user", r[2]>>, <<"group", r[3]>>}
    [] r[1] = "group_permission" -> {<<"group", r[2]>>, <<"permission", r[3]>>}

Closed(S) == \A r \in S : Parents(r) \subseteq S

\* How a user can hold a permission (the two queries of loadUserAccess).
Direct(S, u) == {p \in Permissions : <<"user_permission", u, p>> \in S}

\* Mutant: the groups are not joined with the user's memberships.
ViaAnyGroup(S, u) ==
  {p \in Permissions : \E g \in Groups : <<"group_permission", g, p>> \in S}

ViaGroups(S, u) ==
  {p \in Permissions : \E g \in Groups :
     {<<"user_group", u, g>>, <<"group_permission", g, p>>} \subseteq S}

Calls == [kind : {"create"}, row : Objects]
           \cup [kind : {"grant"}, row : Links]
           \cup [kind : {"check", "transaction"}, row : Grants]

Idle == [at |-> "idle", call |-> [kind |-> "none", row |-> <<>>],
         pending |-> {}, super |-> FALSE, perms |-> {}, answer |-> "none"]

\* A call may find any rows that earlier ones can have left.
Init ==
  /\ db \in {S \in SUBSET Rows : Closed(S)}
  /\ client = [c \in Clients |-> Idle]
  /\ moments = [c \in Clients |-> {}]
  /\ edits = 0
-----------------------------------------------------------------------------
Busy(c) == client[c].at \notin {"idle", "done"}
Visible(c) == db \cup client[c].pending
Target(c) == client[c].call.row

\* A statement that would insert what another transaction has inserted waits.
Free(c, r) == \A d \in Clients \ {c} : r \notin client[d].pending

\* The database changes under every call in progress.
Database(new) ==
  /\ db' = new
  /\ moments' = [c \in Clients |->
                   IF Busy(c) THEN moments[c] \cup {new} ELSE moments[c]]

Unwritten == UNCHANGED <<db, moments>>

Go(c, to) == client' = [client EXCEPT ![c].at = to]

\* An error rolls the transaction back (database/sql's RunInTx).
Answer(c, a) ==
  client' = [client EXCEPT ![c] = [Idle EXCEPT !.at = "done", !.answer = a,
                                               !.call = client[c].call]]

Insert(c, rows, to) ==
  IF client[c].call.kind = "transaction"
  THEN /\ client' = [client EXCEPT ![c].pending = @ \cup rows, ![c].at = to]
       /\ Unwritten
  ELSE /\ Database(db \cup rows)
       /\ Answer(c, "ok")

Begin(c) ==
  /\ client[c].at = "idle"
  /\ \E call \in Calls :
       client' = [client EXCEPT ![c].call = call, ![c].at =
         CASE call.kind \in {"create", "transaction"} -> "create"
           [] call.kind = "grant" -> "grant"
           [] call.kind = "check" -> "user"]
  /\ moments' = [moments EXCEPT ![c] = {db}]
  /\ UNCHANGED <<db, edits>>

\* What the call creates: a transaction first creates the permission that it
\* then grants (docs/auth-persistence.md).
Created(c) ==
  IF client[c].call.kind = "transaction"
  THEN <<"permission", Target(c)[3]>> ELSE Target(c)

\* Manager.CreateUser (InsertUser): the username is unique.
CreateUser(c) ==
  /\ client[c].at = "create" /\ Created(c)[1] = "user"
  /\ IF Created(c) \in db
     THEN Answer(c, "taken") /\ Unwritten
     ELSE \E columns \in SUBSET {x \in Columns : x[2] = Created(c)[2]} :
            Insert(c, {Created(c)} \cup columns, "done")
  /\ UNCHANGED edits

\* CreateGroup, CreatePermission: ON CONFLICT DO NOTHING.
CreateObject(c) ==
  /\ client[c].at = "create" /\ Created(c)[1] # "user"
  /\ Free(c, Created(c))
  /\ Insert(c, {Created(c)} \ db, "grant")
  /\ UNCHANGED edits

\* The objects an INSERT ... SELECT looks up; the user it takes as given.
Selected(r) == {x \in Parents(r) : x[1] # "user"}

\* Mutant: a grant that inserts nothing does not ask why.
GrantUnasked(c) ==
  /\ client[c].at = "grant" /\ Free(c, Target(c))
  /\ Selected(Target(c)) \subseteq Visible(c) =>
       Parents(Target(c)) \subseteq Visible(c)
  /\ Insert(c, IF Parents(Target(c)) \subseteq Visible(c)
               THEN {Target(c)} ELSE {}, "commit")
  /\ UNCHANGED edits

\* GrantUserPermission, AddUserToGroup, GrantGroupPermission: the INSERT.
Grant(c) ==
  /\ client[c].at = "grant" /\ Free(c, Target(c))
  /\ \/ /\ ~(Selected(Target(c)) \subseteq Visible(c))
           \/ Target(c) \in Visible(c)
        /\ Go(c, "exists")                    \* nothing was affected
        /\ Unwritten
     \/ /\ Selected(Target(c)) \subseteq Visible(c)
        /\ ~(Parents(Target(c)) \subseteq Visible(c))
        /\ Answer(c, "foreign key")
        /\ Unwritten
     \/ /\ Parents(Target(c)) \subseteq Visible(c)
        /\ Target(c) \notin Visible(c)
        /\ Insert(c, {Target(c)}, "commit")
  /\ UNCHANGED edits

\* requireAffectedOrExists: nothing was inserted, so is the row there?
GrantExists(c) ==
  /\ client[c].at = "exists"
  /\ IF Target(c) \in Visible(c)
     THEN IF client[c].call.kind = "transaction"
          THEN Go(c, "commit") ELSE Answer(c, "ok")
     ELSE Answer(c, "not found")
  /\ Unwritten /\ UNCHANGED edits

\* BunStore.RunInTx, when its function has returned nil.
Commit(c) ==
  /\ client[c].at = "commit"
  /\ Database(db \cup client[c].pending)
  /\ Answer(c, "ok")
  /\ UNCHANGED edits

\* Any statement may fail; whether a COMMIT that failed took place is unknown.
Fails(c) ==
  /\ Busy(c)
  /\ Answer(c, "error")
  /\ \/ UNCHANGED db /\ moments' = [moments EXCEPT ![c] = {}]
     \/ client[c].at = "commit" /\ Database(db \cup client[c].pending)
  /\ UNCHANGED edits
-----------------------------------------------------------------------------
(* A request to a handler behind RequirePermission, signed in as a user.     *)

\* UserByID's first query. Authentication leaves a user who is not there or
\* not active unauthenticated.
ReadUser(c) ==
  LET u == Target(c)[2] IN
  /\ client[c].at = "user"
  /\ IF {<<"user", u>>, <<"active", u>>} \subseteq db
     THEN client' = [client EXCEPT ![c].at = "direct",
                                   ![c].super = <<"superuser", u>> \in db]
     ELSE Answer(c, "unauthenticated")
  /\ Unwritten /\ UNCHANGED edits

ReadDirect(c) ==
  /\ client[c].at = "direct"
  /\ client' = [client EXCEPT ![c].at = "groups",
                              ![c].perms = Direct(db, Target(c)[2])]
  /\ Unwritten /\ UNCHANGED edits

\* ModelBackend.AllPermissions, with the permission that is asked for as the
\* only one registered (RequirePermission).
AllPermissions(c, own) ==
  IF client[c].super THEN {Target(c)[3]} ELSE own

ReadGroups(c) ==
  LET own == client[c].perms \cup ViaGroups(db, Target(c)[2]) IN
  /\ client[c].at = "groups"
  /\ Answer(c, IF Target(c)[3] \in AllPermissions(c, own)
               THEN "allowed" ELSE "forbidden")
  /\ Unwritten /\ UNCHANGED edits
-----------------------------------------------------------------------------
(* The operator, in SQL: takes a row away with what refers to it, or sets a  *)
(* column. A row that an open transaction refers to is locked.               *)
Operator ==
  /\ edits < MaxEdits /\ edits' = edits + 1
  /\ \/ \E r \in db :
          /\ r[1] # "user"
          /\ \A c \in Clients : r \notin UNION {Parents(x) : x \in client[c].pending}
          /\ Database({x \in db : x # r /\ r \notin Parents(x)})
     \/ \E r \in Columns \ db : Parents(r) \subseteq db /\ Database(db \cup {r})
  /\ UNCHANGED client

Quiet == (\A c \in Clients : client[c].at = "done") /\ UNCHANGED vars

Next ==
  \/ \E c \in Clients :
       \/ Begin(c) \/ CreateUser(c) \/ CreateObject(c) \/ Grant(c)
       \/ GrantExists(c) \/ Commit(c) \/ Fails(c)
       \/ ReadUser(c) \/ ReadDirect(c) \/ ReadGroups(c)
  \/ Operator \/ Quiet

Spec == Init /\ [][Next]_vars
-----------------------------------------------------------------------------
(* Properties.                                                               *)

\* A grant that answers nil was in the database at some moment of the call,
\* and one that answers that an object was not found did not find one at some
\* moment of it, or the grant itself came or went meanwhile
\* (requireAffectedOrExists asks in a second statement).
GrantAnswersTrue ==
  \A c \in Clients : client[c].call.kind \in {"grant", "transaction"} =>
    LET r == Target(c) IN
    /\ client[c].answer = "ok" => \E S \in moments[c] : r \in S
    /\ client[c].answer = "not found" =>
         \/ \E S \in moments[c] : ~(Selected(r) \subseteq S)
         \/ \E S, T \in moments[c] : r \in S \ T

Active(S, u) == {<<"user", u>>, <<"active", u>>} \subseteq S
Super(S, u) == <<"superuser", u>> \in S

\* The ways in which S gives u the permission p.
Ways(S, u, p) ==
  {<<x>> : x \in {y \in {"direct"} : p \in Direct(S, u)}}
    \cup {<<"group", g>> : g \in {h \in Groups :
            {<<"user_group", u, h>>, <<"group_permission", h, p>>} \subseteq S}}

\* The three queries of a lookup may see three states of the database. A
\* request that is let through was made by a user active at some moment of it
\* and, at some moment, a superuser while active or holding the permission; one
\* that is refused was made by a user who did not stay active, or who did not
\* stay a superuser and kept no one way of holding it throughout.
DecisionWarranted ==
  \A c \in Clients : client[c].call.kind = "check" =>
    LET u == Target(c)[2]  p == Target(c)[3]  M == moments[c] IN
    /\ client[c].answer = "allowed" =>
         /\ \E S \in M : Active(S, u)
         /\ \E S \in M :
              (Active(S, u) /\ Super(S, u)) \/ Ways(S, u, p) # {}
    /\ client[c].answer \in {"forbidden", "unauthenticated"} =>
         \/ \E S \in M : ~Active(S, u)
         \/ /\ \E S \in M : ~Super(S, u)
            /\ \A w \in UNION {Ways(S, u, p) : S \in M} :
                 \E S \in M : w \notin Ways(S, u, p)
=============================================================================
