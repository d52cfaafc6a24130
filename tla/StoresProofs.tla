---------------------------- MODULE StoresProofs ----------------------------
(* Proofs about the two stores of package auth. AuthStore: what a grant      *)
(* answers and what a permission check decides is warranted by the states    *)
(* the database went through meanwhile, for any users, groups, permissions,  *)
(* clients and edits; the invariant says of each place in a call what has    *)
(* been seen in one of those states. SessionStore: no session is served late *)
(* and no live row is lost, for any number of requests, any lifetime and     *)
(* idle timeouts and a clock without bound; what a row or a request says of  *)
(* its expiry is bounded by when its token was generated and last written    *)
(* with.                                                                     *)
EXTENDS AuthStore, SessionStore, FiniteSetTheorems, TLAPS
-----------------------------------------------------------------------------
(* The accounts (AuthStore)                                                  *)

Stages == {"idle", "create", "grant", "exists", "commit", "user", "direct",
           "groups", "done"}

Answers == {"none", "ok", "taken", "error", "foreign key", "not found",
            "unauthenticated", "allowed", "forbidden"}

NoCall == [kind |-> "none", row |-> <<>>]

Client == [at : Stages, call : Calls \cup {NoCall}, pending : SUBSET Rows,
           super : BOOLEAN, perms : SUBSET Permissions, answer : Answers]

Shape ==
  /\ db \subseteq Rows
  /\ client \in [Clients -> Client]
  /\ moments \in [Clients -> SUBSET SUBSET Rows]

Kind(c) == client[c].call.kind

\* Where a client can be with its call, and what it can have inserted.
InPlace(c) ==
  /\ IF client[c].at = "idle" THEN client[c] = Idle ELSE client[c].call \in Calls
  /\ client[c].at = "create" => Kind(c) \in {"create", "transaction"}
  /\ client[c].at \in {"grant", "exists"} => Kind(c) \in {"grant", "transaction"}
  /\ client[c].at = "commit" => Kind(c) = "transaction"
  /\ client[c].at \in {"user", "direct", "groups"} => Kind(c) = "check"
  /\ Kind(c) # "transaction" \/ client[c].at = "create" => client[c].pending = {}
  /\ client[c].at \in {"grant", "exists"} /\ Kind(c) = "transaction" =>
       client[c].pending \subseteq {Created(c)}

\* What the statements of a call have seen.
Seen(c) ==
  LET r == Target(c)  M == moments[c] IN
  /\ Busy(c) => db \in M /\ client[c].answer = "none"
  /\ client[c].at = "exists" =>
       (\E S \in M : ~(Selected(r) \subseteq S)) \/ (\E S \in M : r \in S)
  /\ client[c].at = "commit" => r \in client[c].pending \/ \E S \in M : r \in S

SeenOfUser(c) ==
  LET u == Target(c)[2]  p == Target(c)[3]  M == moments[c] IN
  /\ client[c].at \in {"direct", "groups"} =>
       /\ \E S \in M : Active(S, u)
       /\ IF client[c].super THEN \E S \in M : Active(S, u) /\ Super(S, u)
          ELSE \E S \in M : ~Super(S, u)
  /\ client[c].at = "groups" =>
       IF p \in client[c].perms THEN \E S \in M : p \in Direct(S, u)
       ELSE \E S \in M : p \notin Direct(S, u)

\* GrantAnswersTrue and DecisionWarranted of one client.
GrantTrue(c) ==
  Kind(c) \in {"grant", "transaction"} =>
    LET r == Target(c) IN
    /\ client[c].answer = "ok" => \E S \in moments[c] : r \in S
    /\ client[c].answer = "not found" =>
         \/ \E S \in moments[c] : ~(Selected(r) \subseteq S)
         \/ \E S, T \in moments[c] : r \in S \ T

Warranted(c) ==
  Kind(c) = "check" =>
    LET u == Target(c)[2]  p == Target(c)[3]  M == moments[c] IN
    /\ client[c].answer = "allowed" =>
         /\ \E S \in M : Active(S, u)
         /\ \E S \in M :
              (Active(S, u) /\ Super(S, u)) \/ Ways(S, u, p) # {}
    /\ client[c].answer \in {"forbidden", "unauthenticated"} =>
         \/ \E S \in M : ~Active(S, u)
         \/ /\ \E S \in M : ~Super(S, u)
            /\ \A w \in UNION {Ways(S, u, p) : S \in M} :
                 \E S \in M : w \notin Ways(S, u, p)

CInv(c) == InPlace(c) /\ Seen(c) /\ SeenOfUser(c) /\ GrantTrue(c) /\ Warranted(c)

IInv == Shape /\ \A c \in Clients : CInv(c)
-----------------------------------------------------------------------------
\* Before its call a client has seen nothing.
LEMMA InitIInv == Init => IInv
<1> SUFFICES ASSUME Init PROVE IInv
  OBVIOUS
<1>1. client = [c \in Clients |-> Idle] /\ moments = [c \in Clients |-> {}] /\ db \subseteq Rows
  BY DEF Init
<1>2. Idle \in Client
  BY DEF Idle, Client, Stages, Answers, NoCall
<1>3. Shape
  BY <1>1, <1>2 DEF Shape
<1>4. ASSUME NEW c \in Clients PROVE CInv(c)
  <2>1. /\ client[c].at = "idle" /\ client[c].pending = {}
        /\ client[c].answer = "none" /\ Kind(c) = "none" /\ client[c] = Idle
    BY <1>1 DEF Idle, Kind
  <2> QED
    BY <2>1 DEF CInv, InPlace, Seen, SeenOfUser, GrantTrue, Warranted, Busy
<1> QED
  BY <1>3, <1>4 DEF IInv

\* What a client has seen stays seen, whatever others do meanwhile.
LEMMA Frame ==
  ASSUME Shape, NEW c \in Clients, CInv(c), client'[c] = client[c],
         moments[c] \subseteq moments'[c],
         IF Busy(c) THEN db' \in moments'[c] ELSE moments'[c] = moments[c]
  PROVE  CInv(c)'
<1>1. UNCHANGED <<Busy(c), Kind(c), Target(c), Created(c)>>
  BY DEF Busy, Kind, Target, Created
<1>2. InPlace(c)'
  BY <1>1 DEF CInv, InPlace
<1>3. Seen(c)'
  BY <1>1 DEF CInv, Seen, Busy
<1>4. SeenOfUser(c)'
  BY <1>1 DEF CInv, SeenOfUser
<1>5. GrantTrue(c)' /\ Warranted(c)'
  <2>1. CASE Busy(c)
    <3>1. client'[c].answer = "none"
      BY <2>1 DEF CInv, Seen
    <3> QED
      BY <3>1 DEF GrantTrue, Warranted
  <2>2. CASE ~Busy(c)
    <3>1. moments'[c] = moments[c] /\ GrantTrue(c) /\ Warranted(c)
      BY <2>2 DEF CInv
    <3>2. GrantTrue(c)'
      BY <3>1, Zenon DEF GrantTrue, Kind, Target
    <3>3. Warranted(c)'
      BY <3>1, Zenon DEF Warranted, Kind, Target
    <3> QED
      BY <3>2, <3>3
  <2> QED
    BY <2>1, <2>2
<1> QED
  BY <1>2, <1>3, <1>4, <1>5 DEF CInv

\* A step of one client, with what it does to the database.
LEMMA ClientStep ==
  ASSUME IInv, NEW c \in Clients, NEW q \in Client, client' = [client EXCEPT ![c] = q],
         \/ \E new \in SUBSET Rows : Database(new)
         \/ UNCHANGED db /\ \E M \in SUBSET SUBSET Rows : moments' = [moments EXCEPT ![c] = M],
         CInv(c)'
  PROVE  IInv'
<1>1. client' \in [Clients -> Client] /\ \A d \in Clients \ {c} : client'[d] = client[d]
  BY DEF IInv, Shape
<1>2. CASE \E new \in SUBSET Rows : Database(new)
  <2>1. PICK new \in SUBSET Rows : Database(new)
    BY <1>2
  <2>2. /\ db' = new
        /\ moments' = [d \in Clients |-> IF Busy(d) THEN moments[d] \cup {new} ELSE moments[d]]
    BY <2>1 DEF Database
  <2>3. Shape'
    BY <1>1, <2>2 DEF IInv, Shape
  <2>4. ASSUME NEW d \in Clients \ {c} PROVE CInv(d)'
    <3>1. /\ moments[d] \subseteq moments'[d]
          /\ IF Busy(d) THEN db' \in moments'[d] ELSE moments'[d] = moments[d]
      BY <2>2
    <3> QED
      BY <1>1, <3>1, Frame DEF IInv
  <2> QED
    BY <2>3, <2>4 DEF IInv
<1>3. CASE UNCHANGED db /\ \E M \in SUBSET SUBSET Rows : moments' = [moments EXCEPT ![c] = M]
  <2>1. Shape'
    BY <1>1, <1>3 DEF IInv, Shape
  <2>2. ASSUME NEW d \in Clients \ {c} PROVE CInv(d)'
    <3>1. moments'[d] = moments[d] /\ db' = db
      BY <1>3 DEF IInv, Shape
    <3>2. CInv(d) /\ client'[d] = client[d]
      BY <1>1 DEF IInv
    <3>3. Busy(d) => db \in moments[d]
      BY <3>2 DEF CInv, Seen
    <3> QED
      BY <3>1, <3>2, <3>3, Frame DEF IInv
  <2> QED
    BY <2>1, <2>2 DEF IInv
<1> QED
  BY <1>2, <1>3

\* An operator's statement.
LEMMA OperatorStep ==
  ASSUME IInv, Operator
  PROVE  IInv'
<1>1. PICK new \in SUBSET Rows : Database(new)
  BY DEF Operator, IInv, Shape, Rows
<1>2. /\ db' = new /\ client' = client
      /\ moments' = [d \in Clients |-> IF Busy(d) THEN moments[d] \cup {new} ELSE moments[d]]
  BY <1>1 DEF Database, Operator
<1>3. Shape'
  BY <1>2 DEF IInv, Shape
<1>4. ASSUME NEW d \in Clients PROVE CInv(d)'
  <2>1. /\ moments[d] \subseteq moments'[d]
        /\ IF Busy(d) THEN db' \in moments'[d] ELSE moments'[d] = moments[d]
    BY <1>2
  <2> QED
    BY <1>2, <2>1, Frame DEF IInv
<1> QED
  BY <1>3, <1>4 DEF IInv

\* An answer keeps the call, and nothing else of it.
LEMMA AnswerGives ==
  ASSUME Shape, NEW c \in Clients, NEW a \in Answers, Answer(c, a), Busy(c), InPlace(c)
  PROVE  /\ client'[c].at = "done" /\ client'[c].answer = a /\ client'[c].pending = {}
         /\ client'[c].call = client[c].call /\ client[c].call \in Calls
         /\ Kind(c)' = Kind(c) /\ Target(c)' = Target(c)
         /\ [Idle EXCEPT !.at = "done", !.answer = a, !.call = client[c].call] \in Client
BY DEF Shape, Answer, Idle, Client, Stages, Kind, Target, Busy, InPlace

\* What the database may do under a step of a client.
Moves(c) ==
  \/ \E new \in SUBSET Rows : Database(new)
  \/ UNCHANGED db /\ \E M \in SUBSET SUBSET Rows : moments' = [moments EXCEPT ![c] = M]

\* A step that writes nothing moves nothing.
LEMMA UnwrittenMoves ==
  ASSUME Shape, NEW c \in Clients, Unwritten
  PROVE  Moves(c)
<1>1. moments' = [moments EXCEPT ![c] = moments[c]] /\ moments[c] \in SUBSET SUBSET Rows
  BY DEF Shape, Unwritten
<1> QED
  BY <1>1 DEF Moves, Unwritten

\* A call ends with an answer that holds.
LEMMA AnswerStep ==
  ASSUME IInv, NEW c \in Clients, NEW a \in Answers, Answer(c, a), Busy(c), Moves(c),
         GrantTrue(c)', Warranted(c)'
  PROVE  IInv'
<1>1. Shape /\ InPlace(c)
  BY DEF IInv, CInv
<1>2. /\ client'[c].at = "done" /\ client'[c].pending = {}
      /\ client'[c].call \in Calls
      /\ [Idle EXCEPT !.at = "done", !.answer = a, !.call = client[c].call] \in Client
  BY <1>1, AnswerGives
<1>3. CInv(c)'
  BY <1>2 DEF CInv, InPlace, Seen, SeenOfUser, Busy
<1>4. client' = [client EXCEPT ![c] =
        [Idle EXCEPT !.at = "done", !.answer = a, !.call = client[c].call]]
  BY DEF Answer
<1> QED
  BY <1>2, <1>3, <1>4, ClientStep DEF Moves

\* A call goes on to another statement.
LEMMA GoStep ==
  ASSUME IInv, NEW c \in Clients, NEW to \in Stages \ {"idle", "done"}, Go(c, to), Busy(c),
         Unwritten, InPlace(c)', Seen(c)', SeenOfUser(c)'
  PROVE  IInv'
<1> DEFINE q == [client[c] EXCEPT !.at = to]
<1>1. client \in [Clients -> Client] /\ client[c] \in Client
  BY DEF IInv, Shape
<1>2. q \in Client /\ client' = [client EXCEPT ![c] = q] /\ q.answer = client[c].answer
  BY <1>1 DEF Client, Go
<1>3. client'[c].answer = "none"
  BY <1>1, <1>2 DEF IInv, CInv, Seen
<1>4. CInv(c)'
  BY <1>3 DEF CInv, GrantTrue, Warranted
<1> QED
  BY <1>2, <1>4, UnwrittenMoves, ClientStep DEF IInv, Moves

\* A call begins with the database as it is.
LEMMA BeginStep ==
  ASSUME IInv, NEW c \in Clients, Begin(c)
  PROVE  IInv'
<1>1. client \in [Clients -> Client] /\ client[c] = Idle /\ db \subseteq Rows
  BY DEF Begin, IInv, Shape, CInv, InPlace
<1>2. PICK call \in Calls : client' = [client EXCEPT ![c].call = call, ![c].at =
         CASE call.kind \in {"create", "transaction"} -> "create"
           [] call.kind = "grant" -> "grant"
           [] call.kind = "check" -> "user"]
  BY DEF Begin
<1> DEFINE to == CASE call.kind \in {"create", "transaction"} -> "create"
                   [] call.kind = "grant" -> "grant"
                   [] call.kind = "check" -> "user"
           q == [Idle EXCEPT !.call = call, !.at = to]
<1>3. call.kind \in {"create", "grant", "check", "transaction"}
  BY DEF Calls
<1>4. /\ \/ to = "create" /\ call.kind \in {"create", "transaction"}
         \/ to = "grant" /\ call.kind = "grant"
         \/ to = "user" /\ call.kind = "check"
      /\ to \in Stages
  <2>1. CASE call.kind \in {"create", "transaction"}
    BY <2>1 DEF Stages
  <2>2. CASE call.kind = "grant"
    BY <2>2 DEF Stages
  <2>3. CASE call.kind = "check"
    BY <2>3 DEF Stages
  <2> QED
    BY <1>3, <2>1, <2>2, <2>3
<1>5. client' = [client EXCEPT ![c] = q]
  <2>1. client' = [client EXCEPT ![c].call = call, ![c].at = to]
    BY <1>2
  <2> HIDE DEF to
  <2> QED
    BY <1>1, <2>1 DEF Idle
<1> HIDE DEF to
<1>6. /\ q \in Client /\ q.at = to /\ q.call = call /\ q.pending = {} /\ q.answer = "none"
  BY <1>4 DEF Idle, Client, Answers
<1> HIDE DEF q
<1>7. client'[c] = q
  BY <1>1, <1>5
<1>8. moments' = [moments EXCEPT ![c] = {db}] /\ UNCHANGED db /\ moments'[c] = {db}
  BY DEF Begin, IInv, Shape
<1>9. CInv(c)'
  BY <1>4, <1>6, <1>7, <1>8 DEF CInv, InPlace, Seen, SeenOfUser, GrantTrue, Warranted, Kind
<1> QED
  BY <1>1, <1>5, <1>6, <1>8, <1>9, ClientStep

\* A write of committed rows gives a busy client the new database to see.
LEMMA Wrote ==
  ASSUME Shape, NEW c \in Clients, Busy(c), NEW new \in SUBSET Rows, Database(new)
  PROVE  /\ Moves(c) /\ db' = new
         /\ moments'[c] = moments[c] \cup {new}
BY DEF Shape, Database, Moves

\* The target of a call, and the permission a transaction creates first.
LEMMA Targets ==
  ASSUME NEW c \in Clients, client[c].call \in Calls
  PROVE  /\ Kind(c) = "create" => Target(c) \in Objects /\ Created(c) = Target(c)
         /\ Kind(c) = "grant" => Target(c) \in Links
         /\ Kind(c) \in {"check", "transaction"} =>
              Target(c) \in Grants /\ Target(c)[2] \in Users /\ Target(c)[3] \in Permissions
         /\ Kind(c) = "transaction" =>
              /\ Created(c) \in Objects /\ Created(c)[1] = "permission"
              /\ Created(c) # Target(c)
         /\ Objects \subseteq Rows /\ Links \subseteq Rows /\ Grants \subseteq Links
         /\ Columns \subseteq Rows
<1>1. Objects \subseteq Rows /\ Links \subseteq Rows /\ Grants \subseteq Links /\ Columns \subseteq Rows
  BY DEF Rows, Links
<1>2. Kind(c) = "create" => Target(c) \in Objects /\ Created(c) = Target(c)
  BY DEF Calls, Kind, Target, Created
<1>3. Kind(c) = "grant" => Target(c) \in Links
  BY DEF Calls, Kind, Target
<1>4. ASSUME Kind(c) \in {"check", "transaction"}
      PROVE  /\ Target(c) \in Grants /\ Target(c)[2] \in Users /\ Target(c)[3] \in Permissions
             /\ Target(c)[1] = "user_permission"
  <2>1. Target(c) \in Grants
    BY <1>4 DEF Calls, Kind, Target
  <2> QED
    BY <2>1 DEF Grants, Link
<1>5. ASSUME Kind(c) = "transaction"
      PROVE  /\ Created(c) \in Objects /\ Created(c)[1] = "permission"
             /\ Created(c) # Target(c)
  <2>1. Created(c) = <<"permission", Target(c)[3]>>
    BY <1>5 DEF Created, Kind
  <2>2. <<"permission", Target(c)[3]>> \in Objects
    BY <1>4, <1>5 DEF Objects, Row
  <2> QED
    BY <2>1, <2>2, <1>4, <1>5
<1> QED
  BY <1>1, <1>2, <1>3, <1>4, <1>5

\* What a statement of a call finds of its target is in the database.
LEMMA TargetCommitted ==
  ASSUME IInv, NEW c \in Clients, client[c].at \in {"grant", "exists"}, Target(c) \in Visible(c)
  PROVE  Target(c) \in db
<1>1. InPlace(c) /\ client[c].call \in Calls
  BY DEF IInv, CInv, InPlace
<1>2. Target(c) \notin client[c].pending
  BY <1>1, Targets DEF InPlace, Busy
<1> QED
  BY <1>2 DEF Visible

\* A row inserted outside a transaction is committed at once.
LEMMA InsertedStep ==
  ASSUME IInv, NEW c \in Clients, Busy(c), Kind(c) # "transaction", Kind(c) # "check",
         NEW rows \in SUBSET Rows, NEW to, Insert(c, rows, to),
         Kind(c) = "grant" => Target(c) \in rows
  PROVE  IInv'
<1>1. Answer(c, "ok") /\ Database(db \cup rows) /\ db \cup rows \in SUBSET Rows
  BY DEF Insert, Kind, IInv, Shape
<1>2. Moves(c) /\ db' = db \cup rows /\ db' \in moments'[c]
  BY <1>1, Wrote DEF IInv
<1>3. /\ Kind(c)' = Kind(c) /\ Target(c)' = Target(c) /\ client'[c].answer = "ok"
      /\ "ok" \in Answers
  BY <1>1, AnswerGives DEF IInv, CInv, Answers
<1>4. GrantTrue(c)' /\ Warranted(c)'
  BY <1>2, <1>3 DEF GrantTrue, Warranted
<1> QED
  BY <1>1, <1>2, <1>3, <1>4, AnswerStep

\* A row inserted in a transaction is pending.
LEMMA PendingStep ==
  ASSUME IInv, NEW c \in Clients, client[c].at \in {"create", "grant"},
         Kind(c) = "transaction",
         NEW rows \in SUBSET Rows, NEW to \in {"grant", "commit"}, Insert(c, rows, to),
         to = "grant" => client[c].at = "create" /\ rows \subseteq {Created(c)},
         to = "commit" => Target(c) \in rows
  PROVE  IInv'
<1> DEFINE p == client[c].pending \cup rows
           q == [client[c] EXCEPT !.pending = p, !.at = to]
<1>1. client \in [Clients -> Client] /\ client[c] \in Client /\ CInv(c)
  BY DEF IInv, Shape
<1>2. client' = [client EXCEPT ![c] = q] /\ Unwritten
  BY <1>1 DEF Insert, Kind
<1>3. /\ q \in Client /\ q.at = to /\ q.pending = p /\ q.call = client[c].call
      /\ q.answer = client[c].answer
  BY <1>1 DEF Client, Stages
<1> HIDE DEF q
<1>4. client'[c] = q
  BY <1>1, <1>2
<1>5. Kind(c)' = Kind(c) /\ Target(c)' = Target(c) /\ Created(c)' = Created(c)
  BY <1>3, <1>4 DEF Kind, Target, Created
<1>6. client[c].at = "create" => client[c].pending = {}
  BY <1>1 DEF CInv, InPlace
<1>7. InPlace(c)'
  <2>1. client'[c].call \in Calls
    BY <1>1, <1>3, <1>4 DEF CInv, InPlace
  <2> QED
    BY <2>1, <1>3, <1>4, <1>5, <1>6 DEF InPlace
<1>8. Seen(c)' /\ SeenOfUser(c)' /\ client'[c].answer = "none"
  BY <1>1, <1>2, <1>3, <1>4, <1>5 DEF CInv, Seen, SeenOfUser, Busy, Unwritten
<1>9. CInv(c)'
  BY <1>7, <1>8 DEF CInv, GrantTrue, Warranted
<1> QED
  BY <1>2, <1>3, <1>9, UnwrittenMoves, ClientStep DEF IInv, Moves
-----------------------------------------------------------------------------
(* The statements.                                                           *)

\* CreateUser.
LEMMA CreateUserStep ==
  ASSUME IInv, NEW c \in Clients, CreateUser(c)
  PROVE  IInv'
<1>1. Busy(c) /\ client[c].call \in Calls /\ Shape /\ InPlace(c)
  BY DEF CreateUser, Busy, IInv, CInv, InPlace
<1>2. Kind(c) = "create"
  <2>1. Kind(c) \in {"create", "transaction"}
    BY <1>1 DEF InPlace, CreateUser
  <2> QED
    BY <1>1, <2>1, Targets DEF CreateUser
<1>3. CASE Created(c) \in db
  <2>1. Answer(c, "taken") /\ Unwritten /\ "taken" \in Answers
    BY <1>3 DEF CreateUser, Answers
  <2>2. client'[c].answer = "taken"
    BY <1>1, <2>1, AnswerGives
  <2> QED
    BY <1>1, <2>1, <2>2, UnwrittenMoves, AnswerStep DEF GrantTrue, Warranted
<1>4. CASE Created(c) \notin db
  <2>1. PICK columns \in SUBSET {x \in Columns : x[2] = Created(c)[2]} :
          Insert(c, {Created(c)} \cup columns, "done")
    BY <1>4 DEF CreateUser
  <2>2. {Created(c)} \cup columns \in SUBSET Rows
    BY <1>1, <1>2, Targets
  <2> QED
    BY <1>1, <1>2, <2>1, <2>2, InsertedStep
<1> QED
  BY <1>3, <1>4

\* CreateGroup and CreatePermission.
LEMMA CreateObjectStep ==
  ASSUME IInv, NEW c \in Clients, CreateObject(c)
  PROVE  IInv'
<1>1. /\ Busy(c) /\ client[c].call \in Calls /\ client[c].at = "create"
      /\ Kind(c) \in {"create", "transaction"}
  BY DEF CreateObject, Busy, IInv, CInv, InPlace
<1>2. {Created(c)} \ db \in SUBSET Rows /\ {Created(c)} \ db \subseteq {Created(c)}
  BY <1>1, Targets
<1>3. Insert(c, {Created(c)} \ db, "grant")
  BY DEF CreateObject
<1>4. CASE Kind(c) = "create"
  BY <1>1, <1>2, <1>3, <1>4, InsertedStep
<1>5. CASE Kind(c) = "transaction"
  BY <1>1, <1>2, <1>3, <1>5, PendingStep
<1> QED
  BY <1>1, <1>4, <1>5

\* A grant's INSERT.
LEMMA GrantStep ==
  ASSUME IInv, NEW c \in Clients, Grant(c)
  PROVE  IInv'
<1>1. /\ Busy(c) /\ client[c].call \in Calls /\ client[c].at = "grant"
      /\ Kind(c) \in {"grant", "transaction"} /\ Shape /\ InPlace(c)
      /\ db \in moments[c] /\ client[c].answer = "none"
  BY DEF Grant, Busy, IInv, CInv, InPlace, Seen
<1>2. CASE /\ ~(Selected(Target(c)) \subseteq Visible(c)) \/ Target(c) \in Visible(c)
           /\ Go(c, "exists") /\ Unwritten
  <2>1. ~(Selected(Target(c)) \subseteq db) \/ Target(c) \in db
    BY <1>1, <1>2, TargetCommitted DEF Visible
  <2>2. /\ client'[c].at = "exists" /\ client'[c].call = client[c].call
        /\ client'[c].pending = client[c].pending /\ client'[c].answer = "none"
    BY <1>1, <1>2 DEF Go, Shape, Client
  <2>3. Kind(c)' = Kind(c) /\ Target(c)' = Target(c) /\ Created(c)' = Created(c)
    BY <2>2 DEF Kind, Target, Created
  <2>4. InPlace(c)'
    BY <1>1, <2>2, <2>3 DEF InPlace
  <2>5. Selected(Target(c))' = Selected(Target(c)) /\ db' = db /\ moments' = moments
    BY <1>2, <2>3 DEF Selected, Unwritten
  <2>6. Seen(c)' /\ SeenOfUser(c)'
    BY <1>1, <2>1, <2>2, <2>3, <2>5 DEF Seen, SeenOfUser
  <2> QED
    BY <1>1, <1>2, <2>4, <2>6, GoStep DEF Stages
<1>3. CASE Answer(c, "foreign key") /\ Unwritten
  <2>1. client'[c].answer = "foreign key" /\ "foreign key" \in Answers
    BY <1>1, <1>3, AnswerGives DEF Answers
  <2> QED
    BY <1>1, <1>3, <2>1, UnwrittenMoves, AnswerStep DEF GrantTrue, Warranted
<1>4. CASE Insert(c, {Target(c)}, "commit")
  <2>1. {Target(c)} \in SUBSET Rows
    BY <1>1, Targets
  <2>2. CASE Kind(c) = "grant"
    BY <1>1, <1>4, <2>1, <2>2, InsertedStep
  <2>3. CASE Kind(c) = "transaction"
    BY <1>1, <1>4, <2>1, <2>3, PendingStep
  <2> QED
    BY <1>1, <2>2, <2>3
<1> QED
  BY <1>2, <1>3, <1>4 DEF Grant

\* The second statement of a grant that inserted nothing.
LEMMA GrantExistsStep ==
  ASSUME IInv, NEW c \in Clients, GrantExists(c)
  PROVE  IInv'
<1>1. /\ Busy(c) /\ client[c].call \in Calls /\ client[c].at = "exists"
      /\ Kind(c) \in {"grant", "transaction"} /\ Shape /\ InPlace(c) /\ Seen(c)
      /\ db \in moments[c] /\ client[c].answer = "none"
      /\ Unwritten /\ db' = db /\ moments' = moments /\ Moves(c)
  BY UnwrittenMoves DEF GrantExists, Busy, IInv, CInv, InPlace, Seen, Unwritten
<1>2. CASE Target(c) \in Visible(c) /\ Go(c, "commit") /\ Kind(c) = "transaction"
  <2>1. Target(c) \in db
    BY <1>1, <1>2, TargetCommitted
  <2>2. /\ client'[c].at = "commit" /\ client'[c].call = client[c].call
        /\ client'[c].pending = client[c].pending /\ client'[c].answer = "none"
    BY <1>1, <1>2 DEF Go, Shape, Client
  <2>3. Kind(c)' = Kind(c) /\ Target(c)' = Target(c)
    BY <2>2 DEF Kind, Target
  <2>4. InPlace(c)'
    BY <1>1, <1>2, <2>2, <2>3 DEF InPlace
  <2>5. Seen(c)' /\ SeenOfUser(c)'
    BY <1>1, <2>1, <2>2, <2>3 DEF Seen, SeenOfUser
  <2> QED
    BY <1>1, <1>2, <2>4, <2>5, GoStep DEF Stages
<1>3. CASE Target(c) \in Visible(c) /\ Answer(c, "ok")
  <2>1. Target(c) \in db
    BY <1>1, <1>3, TargetCommitted
  <2>2. /\ client'[c].answer = "ok" /\ "ok" \in Answers /\ Target(c)' = Target(c)
        /\ Kind(c)' = Kind(c)
    BY <1>1, <1>3, AnswerGives DEF Answers
  <2>3. GrantTrue(c)' /\ Warranted(c)'
    BY <1>1, <2>1, <2>2 DEF GrantTrue, Warranted
  <2> QED
    BY <1>1, <1>3, <2>2, <2>3, AnswerStep
<1>4. CASE Target(c) \notin Visible(c) /\ Answer(c, "not found")
  <2>1. Target(c) \notin db
    BY <1>4 DEF Visible
  <2>2. /\ client'[c].answer = "not found" /\ "not found" \in Answers
        /\ Target(c)' = Target(c) /\ Kind(c)' = Kind(c)
    BY <1>1, <1>4, AnswerGives DEF Answers
  <2>3. \/ \E S \in moments[c] : ~(Selected(Target(c)) \subseteq S)
        \/ \E S, T \in moments[c] : Target(c) \in S \ T
    BY <1>1, <2>1 DEF Seen
  <2>4. Selected(Target(c))' = Selected(Target(c)) /\ moments'[c] = moments[c]
    BY <1>1, <2>2 DEF Selected
  <2>5. \/ \E S \in moments'[c] : ~(Selected(Target(c))' \subseteq S)
        \/ \E S, T \in moments'[c] : Target(c)' \in S \ T
    <3>1. Target(c)' = Target(c)
      BY <2>2
    <3> HIDE DEF Target
    <3>2. CASE \E S \in moments[c] : ~(Selected(Target(c)) \subseteq S)
      BY <3>2, <2>4, Zenon
    <3>3. CASE \E S, T \in moments[c] : Target(c) \in S \ T
      <4>1. PICK S, T \in moments[c] : Target(c) \in S \ T
        BY <3>3
      <4>2. Target(c)' \in S \ T
        BY <3>1, <4>1
      <4> QED
        BY <2>4, <4>2
    <3> QED
      BY <2>3, <3>2, <3>3
  <2>6. client'[c].answer # "ok"
    BY <2>2
  <2>7. GrantTrue(c)'
    BY <2>5, <2>6, Zenon DEF GrantTrue
  <2>8. Warranted(c)'
    BY <1>1, <2>2 DEF Warranted
  <2> QED
    BY <1>1, <1>4, <2>2, <2>7, <2>8, AnswerStep
<1> QED
  BY <1>2, <1>3, <1>4 DEF GrantExists, Kind

\* COMMIT.
LEMMA CommitStep ==
  ASSUME IInv, NEW c \in Clients, Commit(c)
  PROVE  IInv'
<1>1. /\ Busy(c) /\ client[c].call \in Calls /\ Kind(c) = "transaction" /\ Shape /\ InPlace(c)
      /\ Target(c) \in client[c].pending \/ \E S \in moments[c] : Target(c) \in S
      /\ client[c].pending \in SUBSET Rows /\ db \in SUBSET Rows
  BY DEF Commit, Busy, IInv, CInv, InPlace, Seen, Shape, Client
<1>2. Answer(c, "ok") /\ Database(db \cup client[c].pending) /\ "ok" \in Answers
  BY DEF Commit, Answers
<1>3. Moves(c) /\ moments'[c] = moments[c] \cup {db \cup client[c].pending}
  BY <1>1, <1>2, Wrote
<1>4. client'[c].answer = "ok" /\ Target(c)' = Target(c) /\ Kind(c)' = Kind(c)
  BY <1>1, <1>2, AnswerGives
<1>5. \E S \in moments'[c] : Target(c)' \in S
  <2>1. CASE Target(c) \in client[c].pending
    <3>1. Target(c) \in db \cup client[c].pending
      BY <2>1
    <3>2. db \cup client[c].pending \in moments'[c]
      BY <1>3
    <3> QED
      BY <1>4, <3>1, <3>2
  <2>2. CASE \E S \in moments[c] : Target(c) \in S
    BY <1>3, <1>4, <2>2
  <2> QED
    BY <1>1, <2>1, <2>2
<1>6. GrantTrue(c)'
  <2>1. client'[c].answer # "not found"
    BY <1>4
  <2> QED
    BY <1>5, <2>1, Zenon DEF GrantTrue
<1>7. Warranted(c)'
  BY <1>1, <1>4 DEF Warranted
<1> QED
  BY <1>1, <1>2, <1>3, <1>6, <1>7, AnswerStep

\* A statement that fails.
LEMMA FailsStep ==
  ASSUME IInv, NEW c \in Clients, Fails(c)
  PROVE  IInv'
<1>1. /\ Busy(c) /\ Shape /\ InPlace(c) /\ Answer(c, "error") /\ "error" \in Answers
      /\ client[c].pending \in SUBSET Rows /\ db \in SUBSET Rows
  BY DEF Fails, IInv, CInv, Answers, Shape, Client
<1>2. Moves(c)
  BY <1>1, Wrote DEF Fails, Moves
<1>3. client'[c].answer = "error"
  BY <1>1, AnswerGives
<1>4. GrantTrue(c)' /\ Warranted(c)'
  BY <1>3 DEF GrantTrue, Warranted
<1> QED
  BY <1>1, <1>2, <1>4, AnswerStep

\* UserByID's first query.
LEMMA ReadUserStep ==
  ASSUME IInv, NEW c \in Clients, ReadUser(c)
  PROVE  IInv'
<1> DEFINE u == Target(c)[2]
           super == <<"superuser", u>> \in db
           q == [client[c] EXCEPT !.at = "direct", !.super = super]
<1>1. /\ Busy(c) /\ client[c].at = "user" /\ client[c].call \in Calls /\ Kind(c) = "check"
      /\ Shape /\ InPlace(c) /\ db \in moments[c] /\ client[c].answer = "none"
      /\ Unwritten /\ db' = db /\ moments' = moments /\ Moves(c)
      /\ client[c] \in Client /\ client \in [Clients -> Client] /\ client[c].pending = {}
  BY UnwrittenMoves DEF ReadUser, Busy, IInv, CInv, InPlace, Seen, Unwritten, Shape
<1>2. CASE ~Active(db, u)
  <2>1. Answer(c, "unauthenticated") /\ "unauthenticated" \in Answers
    BY <1>2 DEF ReadUser, Active, Answers
  <2>2. /\ client'[c].answer = "unauthenticated" /\ Kind(c)' = "check"
        /\ Target(c)' = Target(c)
    BY <1>1, <2>1, AnswerGives
  <2>3. \E S \in moments'[c] : ~Active(S, Target(c)'[2])
    BY <1>1, <1>2, <2>2
  <2>4. Warranted(c)'
    <3>1. client'[c].answer # "allowed"
      BY <2>2
    <3> QED
      BY <2>3, <3>1, Zenon DEF Warranted
  <2>5. GrantTrue(c)'
    BY <2>2 DEF GrantTrue
  <2> QED
    BY <1>1, <2>1, <2>4, <2>5, AnswerStep
<1>3. CASE Active(db, u)
  <2>1. client' = [client EXCEPT ![c] = q]
    BY <1>1, <1>3 DEF ReadUser, Active
  <2>2. super \in BOOLEAN
    OBVIOUS
  <2>3. super <=> Super(db, u)
    BY DEF Super
  <2> HIDE DEF super
  <2>4. /\ q \in Client /\ q.at = "direct" /\ q.super = super /\ q.call = client[c].call
        /\ q.pending = {} /\ q.answer = "none"
    BY <1>1, <2>2 DEF Client, Stages
  <2> HIDE DEF q
  <2>5. client'[c] = q
    BY <1>1, <2>1
  <2>6. Kind(c)' = "check" /\ Target(c)' = Target(c)
    BY <1>1, <2>4, <2>5 DEF Kind, Target
  <2>7. InPlace(c)' /\ Seen(c)' /\ GrantTrue(c)' /\ Warranted(c)'
    BY <1>1, <2>4, <2>5, <2>6 DEF InPlace, Seen, GrantTrue, Warranted
  <2>8. SeenOfUser(c)'
    <3>1. \E S \in moments[c] : Active(S, u)
      BY <1>1, <1>3
    <3>2. IF super THEN \E S \in moments[c] : Active(S, u) /\ Super(S, u)
          ELSE \E S \in moments[c] : ~Super(S, u)
      BY <1>1, <1>3, <2>3
    <3> QED
      BY <1>1, <3>1, <3>2, <2>4, <2>5, <2>6 DEF SeenOfUser
  <2> QED
    BY <1>1, <2>1, <2>4, <2>7, <2>8, ClientStep DEF CInv, Moves
<1> QED
  BY <1>2, <1>3

\* The query for the user's own permissions.
LEMMA ReadDirectStep ==
  ASSUME IInv, NEW c \in Clients, ReadDirect(c)
  PROVE  IInv'
<1> DEFINE u == Target(c)[2]
           own == Direct(db, u)
           q == [client[c] EXCEPT !.at = "groups", !.perms = own]
<1>1. /\ Busy(c) /\ client[c].at = "direct" /\ client[c].call \in Calls /\ Kind(c) = "check"
      /\ Shape /\ InPlace(c) /\ SeenOfUser(c) /\ db \in moments[c] /\ client[c].answer = "none"
      /\ Unwritten /\ db' = db /\ moments' = moments /\ Moves(c)
      /\ client[c] \in Client /\ client \in [Clients -> Client] /\ client[c].pending = {}
  BY UnwrittenMoves DEF ReadDirect, Busy, IInv, CInv, InPlace, Seen, Unwritten, Shape
<1>2. client' = [client EXCEPT ![c] = q]
  BY <1>1 DEF ReadDirect
<1>3. own \subseteq Permissions
  BY DEF Direct
<1>4. /\ q \in Client /\ q.at = "groups" /\ q.super = client[c].super /\ q.perms = own
      /\ q.call = client[c].call /\ q.pending = {} /\ q.answer = "none"
  <2> HIDE DEF own
  <2> QED
    BY <1>1, <1>3 DEF Client, Stages
<1> HIDE DEF q
<1>5. client'[c] = q
  BY <1>1, <1>2
<1>6. Kind(c)' = "check" /\ Target(c)' = Target(c)
  BY <1>1, <1>4, <1>5 DEF Kind, Target
<1>7. InPlace(c)' /\ Seen(c)' /\ GrantTrue(c)' /\ Warranted(c)'
  BY <1>1, <1>4, <1>5, <1>6 DEF InPlace, Seen, GrantTrue, Warranted
<1>8. SeenOfUser(c)'
  <2>1. IF Target(c)[3] \in own THEN \E S \in moments[c] : Target(c)[3] \in Direct(S, u)
        ELSE \E S \in moments[c] : Target(c)[3] \notin Direct(S, u)
    BY <1>1
  <2> HIDE DEF own
  <2> QED
    BY <1>1, <2>1, <1>4, <1>5, <1>6 DEF SeenOfUser
<1> QED
  BY <1>1, <1>2, <1>4, <1>7, <1>8, ClientStep DEF CInv, Moves

\* The query for the groups' permissions, and RequirePermission's decision.
LEMMA ReadGroupsStep ==
  ASSUME IInv, NEW c \in Clients, ReadGroups(c)
  PROVE  IInv'
<1> DEFINE u == Target(c)[2]
           p == Target(c)[3]
           M == moments[c]
           own == client[c].perms \cup ViaGroups(db, u)
           a == IF p \in AllPermissions(c, own) THEN "allowed" ELSE "forbidden"
<1>1. /\ Busy(c) /\ client[c].at = "groups" /\ client[c].call \in Calls /\ Kind(c) = "check"
      /\ Shape /\ InPlace(c) /\ SeenOfUser(c) /\ db \in M
      /\ moments' = moments /\ Moves(c) /\ p \in Permissions
  BY UnwrittenMoves, Targets DEF ReadGroups, Busy, IInv, CInv, InPlace, Seen, Unwritten
<1>2. Answer(c, a) /\ a \in Answers
  BY DEF ReadGroups, Answers
<1>3. client'[c].answer = a /\ Kind(c)' = "check" /\ Target(c)' = Target(c)
  BY <1>1, <1>2, AnswerGives
<1>4. GrantTrue(c)'
  BY <1>3 DEF GrantTrue
<1>5. p \in ViaGroups(db, u) <=>
        \E g \in Groups : {<<"user_group", u, g>>, <<"group_permission", g, p>>} \subseteq db
  BY <1>1 DEF ViaGroups
<1>6. a = "allowed" =>
        /\ \E S \in M : Active(S, u)
        /\ \E S \in M : (Active(S, u) /\ Super(S, u)) \/ Ways(S, u, p) # {}
  <2> SUFFICES ASSUME a = "allowed"
               PROVE  \E S \in M : (Active(S, u) /\ Super(S, u)) \/ Ways(S, u, p) # {}
    BY <1>1 DEF SeenOfUser
  <2>1. client[c].super \/ p \in client[c].perms \/ p \in ViaGroups(db, u)
    BY DEF AllPermissions
  <2>2. CASE client[c].super
    BY <1>1, <2>2 DEF SeenOfUser
  <2>3. CASE p \in client[c].perms
    <3>1. PICK S \in M : p \in Direct(S, u)
      BY <1>1, <2>3 DEF SeenOfUser
    <3>2. <<"direct">> \in Ways(S, u, p)
      BY <3>1 DEF Ways
    <3> QED
      BY <3>2
  <2>4. CASE p \in ViaGroups(db, u)
    <3>1. PICK g \in Groups :
            {<<"user_group", u, g>>, <<"group_permission", g, p>>} \subseteq db
      BY <1>5, <2>4
    <3>2. <<"group", g>> \in Ways(db, u, p)
      BY <3>1 DEF Ways
    <3> QED
      BY <1>1, <3>2
  <2> QED
    BY <2>1, <2>2, <2>3, <2>4
<1>7. a # "allowed" =>
        /\ \E S \in M : ~Super(S, u)
        /\ \A w \in UNION {Ways(S, u, p) : S \in M} : \E S \in M : w \notin Ways(S, u, p)
  <2> SUFFICES ASSUME a # "allowed"
               PROVE  /\ \E S \in M : ~Super(S, u)
                      /\ \A w \in UNION {Ways(S, u, p) : S \in M} :
                           \E S \in M : w \notin Ways(S, u, p)
    OBVIOUS
  <2>1. ~client[c].super /\ p \notin client[c].perms /\ p \notin ViaGroups(db, u)
    BY <1>1 DEF AllPermissions, Target
  <2>2. \E S \in M : ~Super(S, u)
    BY <1>1, <2>1 DEF SeenOfUser
  <2>3. ASSUME NEW S \in M, NEW w \in Ways(S, u, p)
        PROVE  \E T \in M : w \notin Ways(T, u, p)
    <3>1. CASE w = <<"direct">>
      <4>1. PICK T \in M : p \notin Direct(T, u)
        BY <1>1, <2>1 DEF SeenOfUser
      <4>2. <<"direct">> \notin Ways(T, u, p)
        BY <4>1 DEF Ways
      <4> QED
        BY <3>1, <4>2
    <3>2. CASE \E g \in Groups : w = <<"group", g>>
      <4>1. PICK g \in Groups : w = <<"group", g>>
        BY <3>2
      <4>2. <<"group", g>> \notin Ways(db, u, p)
        BY <4>1, <1>5, <2>1 DEF Ways
      <4> QED
        BY <1>1, <4>1, <4>2
    <3> QED
      BY <3>1, <3>2 DEF Ways
  <2> QED
    BY <2>2, <2>3
<1>8. Warranted(c)'
  <2>1. moments'[c] = M /\ Target(c)'[2] = u /\ Target(c)'[3] = p /\ client'[c].answer = a
    BY <1>1, <1>3
  <2> HIDE DEF a, u, p, M
  <2>2. a \in {"forbidden", "unauthenticated"} => a # "allowed"
    OBVIOUS
  <2>3. /\ client'[c].answer = "allowed" =>
             /\ \E S \in moments'[c] : Active(S, Target(c)'[2])
             /\ \E S \in moments'[c] :
                  \/ Active(S, Target(c)'[2]) /\ Super(S, Target(c)'[2])
                  \/ Ways(S, Target(c)'[2], Target(c)'[3]) # {}
        /\ client'[c].answer \in {"forbidden", "unauthenticated"} =>
             /\ \E S \in moments'[c] : ~Super(S, Target(c)'[2])
             /\ \A w \in UNION {Ways(S, Target(c)'[2], Target(c)'[3]) : S \in moments'[c]} :
                  \E S \in moments'[c] : w \notin Ways(S, Target(c)'[2], Target(c)'[3])
    BY <1>6, <1>7, <2>1, <2>2, Zenon
  <2> QED
    BY <2>3, Zenon DEF Warranted
<1> QED
  BY <1>1, <1>2, <1>4, <1>8, AnswerStep
-----------------------------------------------------------------------------
\* Every step keeps the invariant.
LEMMA NextIInv == IInv /\ [Next]_vars => IInv'
<1> SUFFICES ASSUME IInv, [Next]_vars PROVE IInv'
  OBVIOUS
<1>1. ASSUME NEW c \in Clients, Begin(c) PROVE IInv'
  BY <1>1, BeginStep
<1>2. ASSUME NEW c \in Clients, CreateUser(c) PROVE IInv'
  BY <1>2, CreateUserStep
<1>3. ASSUME NEW c \in Clients, CreateObject(c) PROVE IInv'
  BY <1>3, CreateObjectStep
<1>4. ASSUME NEW c \in Clients, Grant(c) PROVE IInv'
  BY <1>4, GrantStep
<1>5. ASSUME NEW c \in Clients, GrantExists(c) PROVE IInv'
  BY <1>5, GrantExistsStep
<1>6. ASSUME NEW c \in Clients, Commit(c) PROVE IInv'
  BY <1>6, CommitStep
<1>7. ASSUME NEW c \in Clients, Fails(c) PROVE IInv'
  BY <1>7, FailsStep
<1>8. ASSUME NEW c \in Clients, ReadUser(c) PROVE IInv'
  BY <1>8, ReadUserStep
<1>9. ASSUME NEW c \in Clients, ReadDirect(c) PROVE IInv'
  BY <1>9, ReadDirectStep
<1>10. ASSUME NEW c \in Clients, ReadGroups(c) PROVE IInv'
  BY <1>10, ReadGroupsStep
<1>11. CASE Operator
  BY <1>11, OperatorStep
<1>12. CASE UNCHANGED vars
  <2>1. UNCHANGED <<db, client, moments>>
    BY <1>12 DEF vars
  <2>2. Shape'
    BY <2>1 DEF IInv, Shape
  <2>3. ASSUME NEW c \in Clients PROVE CInv(c)'
    <3>1. CInv(c) /\ Shape
      BY DEF IInv
    <3>2. Busy(c) => db \in moments[c]
      BY <3>1 DEF CInv, Seen
    <3> QED
      BY <2>1, <3>1, <3>2, Frame
  <2> QED
    BY <2>2, <2>3 DEF IInv
<1> QED
  BY <1>1, <1>2, <1>3, <1>4, <1>5, <1>6, <1>7, <1>8, <1>9, <1>10, <1>11, <1>12
     DEF Next, Quiet

\* The invariant holds in every state (bun_store.go:46-329).
THEOREM InductiveInvariant == Spec => []IInv
BY InitIInv, NextIInv, PTL DEF Spec

\* Whatever other clients and an operator write between its statements, a grant
\* that answers nil was in the database at some moment of the call, and a
\* "not found" found something missing (requireAffectedOrExists).
THEOREM GrantsAnswerTrue == Spec => []GrantAnswersTrue
<1>1. IInv => GrantAnswersTrue
  BY DEF IInv, CInv, GrantTrue, GrantAnswersTrue, Kind
<1> QED
  BY <1>1, InductiveInvariant, PTL

\* Whatever changes between the queries of a lookup, a request let through by
\* RequirePermission, or refused by it, had a moment that warrants it.
THEOREM DecisionsWarranted == Spec => []DecisionWarranted
<1>1. IInv => DecisionWarranted
  BY DEF IInv, CInv, Warranted, DecisionWarranted, Kind
<1> QED
  BY <1>1, InductiveInvariant, PTL
-----------------------------------------------------------------------------
(* The sessions (SessionStore)                                               *)

\* SessionsAssumption, as a premise of the lemmas.
Configuration ==
  IsFiniteSet(Requests) /\ Lifetime \in Nat /\ IdleTimeouts \subseteq Nat

\* Before it has loaded a session a request has no token.
Loading == {"unsent", "find", "compare", "expire", "new"}

\* In these places it has not generated one yet.
Early == Loading \cup {"handle", "destroyed", "renew"}

Places == Early \cup {"stamp", "upsert", "done"}

Request == [at : Places, sent : Nat, token : Nat,
            status : {"unmodified", "modified"}, deadline : Nat, expiry : Nat]

\* A request generates a token at most once: those that no longer can.
Spent ==
  {r \in Requests : session[r].at \notin Early
                      /\ (session[r].at = "stamp" => session[r].token # NoToken)}

\* Tokens in use have been generated, no more of them than there are requests,
\* and a browser sends one that was written.
SessionShape ==
  /\ idleTimeout \in Nat /\ clock \in Nat /\ generated \in Nat
  /\ issued \subseteq 1 .. generated
  /\ DOMAIN row \subseteq 1 .. generated
  /\ row \in [DOMAIN row -> [deadline : Nat, expires : Nat]]
  /\ session \in [Requests -> Request]
  /\ \A r \in Requests : {session[r].sent, session[r].token} \subseteq 0 .. generated
  /\ \A r \in Requests :
       /\ session[r].at \in Loading => session[r].token = NoToken
       /\ session[r].at = "compare" => session[r].sent # NoToken
       /\ session[r].at = "upsert" => session[r].token # NoToken
       /\ session[r].sent \in {NoToken} \cup issued
  /\ born \in [Tokens -> Nat] /\ used \in [Tokens -> Nat]
  /\ generated <= Cardinality(Spent)

\* The token that the deadline of a request's session data belongs to.
Owner(q) == IF q.at = "compare" THEN q.sent ELSE q.token

InLifetime(q) ==
  q.deadline <= (IF Owner(q) = NoToken THEN clock ELSE born[Owner(q)]) + Lifetime

\* A deadline is at most a lifetime after its token was generated.
Deadlines ==
  /\ \A r \in Requests : InLifetime(session[r])
  /\ \A t \in DOMAIN row : row[t].deadline <= born[t] + Lifetime

\* An expiry is not after the deadline, nor an idle timeout after the last use.
InBounds(expiry, deadline, t) ==
  expiry <= deadline /\ (idleTimeout > 0 => expiry <= used[t] + idleTimeout)

Expiries ==
  /\ \A t \in Tokens : used[t] <= clock
  /\ \A t \in DOMAIN row : InBounds(row[t].expires, row[t].deadline, t)
  /\ \A r \in Requests : session[r].at \in {"compare", "upsert"} =>
       InBounds(session[r].expiry, session[r].deadline, Owner(session[r]))

\* The tokens that may lose their row without a fault.
Excused == over \cup lapsed \cup overtaken

\* What has expired is known to have, and so is what a find took for expired,
\* unless the row was another by then.
Lapses ==
  /\ Expired(clock) \subseteq lapsed
  /\ \A r \in Requests : session[r].at = "expire" => session[r].sent \in Excused

SessionIInv == SessionShape /\ Deadlines /\ Expiries /\ Lapses /\ LiveRowKept
-----------------------------------------------------------------------------
\* Nothing has happened yet.
LEMMA SessionInitIInv == Configuration /\ SessionInit => SessionIInv
<1> SUFFICES ASSUME Configuration, SessionInit PROVE SessionIInv
  OBVIOUS
<1>1. row = <<>> /\ DOMAIN row = {} /\ generated = 0
  BY DEF SessionInit
<1>2. session = [r \in Requests |-> Unsent] /\ Unsent \in Request
  BY DEF SessionInit, Unsent, Request, Places, Early, Loading, NoToken
<1>3. Spent = {}
  BY <1>2 DEF Spent, Unsent, Early, Loading
<1>4. SessionShape
  <2>1. generated <= Cardinality(Spent)
    BY <1>1, <1>3, FS_EmptySet
  <2>2. row \in [DOMAIN row -> [deadline : Nat, expires : Nat]]
    BY <1>1
  <2> QED
    BY <1>1, <1>2, <2>1, <2>2 DEF SessionShape, SessionInit, Configuration, Unsent, NoToken
<1>5. Deadlines /\ Expiries
  BY <1>1, <1>2 DEF Deadlines, InLifetime, Owner, Expiries, SessionInit, Unsent,
                    Configuration, Tokens, NoToken
<1>6. Lapses /\ LiveRowKept
  BY <1>1, <1>2 DEF Lapses, LiveRowKept, Expired, SessionInit, Unsent
<1> QED
  BY <1>4, <1>5, <1>6 DEF SessionIInv

\* A token that is about to be generated is a new one, and there is one.
LEMMA TokensLeft ==
  ASSUME Configuration, SessionShape, NEW r \in Requests, r \notin Spent
  PROVE  /\ generated + 1 \in Tokens
         /\ IsFiniteSet(Spent)
         /\ generated + 1 <= Cardinality(Spent \cup {r})
<1>1. Spent \subseteq Requests /\ Spent \cup {r} \subseteq Requests
  BY DEF Spent
<1>2. IsFiniteSet(Spent) /\ IsFiniteSet(Spent \cup {r})
  BY <1>1, FS_Subset DEF Configuration
<1>3. Cardinality(Spent \cup {r}) = Cardinality(Spent) + 1
  BY <1>2, FS_AddElement
<1>4. Cardinality(Spent \cup {r}) <= Cardinality(Requests)
  BY <1>1, FS_Subset DEF Configuration
<1>5. Cardinality(Spent) \in Nat /\ Cardinality(Requests) \in Nat
  BY <1>2, FS_CardinalityType DEF Configuration
<1> QED
  BY <1>2, <1>3, <1>4, <1>5 DEF SessionShape, Tokens

\* What has been generated is a token.
LEMMA GeneratedAreTokens ==
  ASSUME Configuration, SessionShape
  PROVE  \A t \in 1 .. generated : t \in Tokens
<1>1. Spent \subseteq Requests
  BY DEF Spent
<1>2. /\ Cardinality(Spent) <= Cardinality(Requests)
      /\ Cardinality(Spent) \in Nat /\ Cardinality(Requests) \in Nat
  BY <1>1, FS_Subset, FS_CardinalityType DEF Configuration
<1> QED
  BY <1>2 DEF SessionShape, Tokens

\* Requests that can no longer generate a token never can again.
LEMMA SpentGrows ==
  ASSUME Configuration, generated \in Nat, generated <= Cardinality(Spent),
         Spent \subseteq Spent', Spent' \subseteq Requests
  PROVE  generated <= Cardinality(Spent')
<1>1. IsFiniteSet(Spent')
  BY FS_Subset DEF Configuration
<1>2. Cardinality(Spent) <= Cardinality(Spent')
  BY <1>1, FS_Subset
<1>3. Cardinality(Spent) \in Nat /\ Cardinality(Spent') \in Nat
  BY <1>1, FS_Subset, FS_CardinalityType
<1> QED
  BY <1>2, <1>3
-----------------------------------------------------------------------------
\* The session data of one request within the bounds that SessionShape,
\* Deadlines and Expiries set, wherever it is but before an upsert.
Fits(q) ==
  /\ q \in Request /\ {q.sent, q.token} \subseteq 0 .. generated
  /\ q.at # "upsert"
  /\ q.at \in Loading => q.token = NoToken
  /\ q.at = "compare" => q.sent # NoToken /\ InBounds(q.expiry, q.deadline, q.sent)
  /\ q.sent \in {NoToken} \cup issued
  /\ InLifetime(q)

\* A step of a request that touches nothing but its own session data, and may
\* find that it has been overtaken.
LEMMA OwnStep ==
  ASSUME Configuration, SessionIInv, NEW r \in Requests, NEW q, Fits(q),
         session' = [session EXCEPT ![r] = q],
         r \in Spent => q.at = "done",
         overtaken \subseteq overtaken', q.at = "expire" => q.sent \in Excused',
         UNCHANGED <<idleTimeout, clock, row, generated, issued, born, used, over, lapsed>>
  PROVE  SessionIInv'
<1> USE DEF Fits
<1>1. /\ session' \in [Requests -> Request] /\ session'[r] = q
      /\ \A p \in Requests \ {r} : session'[p] = session[p]
  BY DEF SessionIInv, SessionShape
<1>2. Spent \subseteq Spent' /\ Spent' \subseteq Requests
  <2>1. \A p \in Spent : p # r => p \in Spent'
    BY <1>1 DEF Spent
  <2>2. r \in Spent => r \in Spent'
    BY <1>1 DEF Spent, Early, Loading
  <2> QED
    BY <2>1, <2>2 DEF Spent
<1>3. SessionShape'
  <2>1. generated' <= Cardinality(Spent')
    BY <1>2, SpentGrows DEF SessionIInv, SessionShape
  <2> QED
    BY <1>1, <2>1 DEF SessionIInv, SessionShape, NoToken, Tokens
<1>4. Deadlines'
  BY <1>1 DEF SessionIInv, Deadlines, InLifetime
<1>5. Expiries'
  BY <1>1 DEF SessionIInv, Expiries, InBounds, Owner
<1>6. Lapses' /\ LiveRowKept'
  BY <1>1 DEF SessionIInv, Lapses, LiveRowKept, Expired, Excused
<1> QED
  BY <1>3, <1>4, <1>5, <1>6 DEF SessionIInv

\* A request has its own session data to itself, and it fits.
LEMMA OwnFits ==
  ASSUME Configuration, SessionIInv, NEW r \in Requests, session[r].at # "upsert"
  PROVE  Fits(session[r])
BY DEF SessionIInv, SessionShape, Deadlines, Expiries, Fits, Owner

\* A browser sends the cookie it has, or none.
LEMMA SendStep ==
  ASSUME Configuration, SessionIInv, UNCHANGED idleTimeout, NEW r \in Requests, Send(r)
  PROVE  SessionIInv'
<1>1. PICK t \in {NoToken} \cup issued :
        session' = [session EXCEPT ![r] = Asking(t)]
  BY DEF Send, Update
<1>2. t \in 0 .. generated /\ t \in Nat /\ r \notin Spent
  BY DEF SessionIInv, SessionShape, Send, At, Spent, Early, Loading, NoToken
<1>3. clock \in Nat /\ Lifetime \in Nat /\ generated \in Nat
  BY DEF SessionIInv, SessionShape, Configuration
<1> DEFINE q == Asking(t)
<1>4. /\ q \in Request /\ q.at \in {"new", "find"} /\ q.sent = t
      /\ q.token = NoToken /\ q.deadline = 0
  BY <1>2 DEF Asking, Unsent, Request, Places, Early, Loading, NoToken
<1>5. session' = [session EXCEPT ![r] = q]
  BY <1>1
<1> HIDE DEF q
<1>6. Fits(q)
  BY <1>2, <1>3, <1>4 DEF Fits, NoToken, InLifetime, Owner
<1>7. UNCHANGED <<clock, row, generated, issued, history>>
  BY DEF Send
<1> QED
  BY <1>2, <1>4, <1>5, <1>6, <1>7, OwnStep DEF history

\* A request reads the row of its token, if there is one.
LEMMA FindStep ==
  ASSUME Configuration, SessionIInv, UNCHANGED idleTimeout, NEW r \in Requests, Find(r)
  PROVE  SessionIInv'
<1> DEFINE t == session[r].sent
<1>1. /\ session[r].at = "find" /\ session[r] \in Request /\ r \notin Spent
      /\ Fits(session[r]) /\ session[r].token = NoToken /\ t \in 0 .. generated
  BY OwnFits DEF Find, At, SessionIInv, SessionShape, Spent, Early, Loading
<1>2. CASE t \notin DOMAIN row
  <2> DEFINE q == [session[r] EXCEPT !.at = "new"]
  <2>1. session' = [session EXCEPT ![r] = q]
    BY <1>1, <1>2 DEF Find, Advance, Request
  <2>2. Fits(q) /\ q.at = "new"
    BY <1>1 DEF Fits, Request, Places, Early, Loading, InLifetime, Owner
  <2> HIDE DEF q
  <2> QED
    BY <1>1, <2>1, <2>2, OwnStep DEF Find, history
<1>3. CASE t \in DOMAIN row
  <2> DEFINE q == [session[r] EXCEPT !.at = "compare", !.deadline = row[t].deadline,
                                     !.expiry = row[t].expires]
  <2>1. session' = [session EXCEPT ![r] = q]
    BY <1>3 DEF Find, Update
  <2>2. /\ t # NoToken /\ row[t].deadline \in Nat /\ row[t].expires \in Nat
        /\ row[t].deadline <= born[t] + Lifetime
        /\ InBounds(row[t].expires, row[t].deadline, t)
    BY <1>1, <1>3 DEF SessionIInv, SessionShape, Deadlines, Expiries, NoToken
  <2>3. /\ q \in Request /\ q.at = "compare" /\ q.sent = t /\ q.token = NoToken
        /\ q.deadline = row[t].deadline /\ q.expiry = row[t].expires
    BY <1>1, <2>2 DEF Request, Places, Early, Loading
  <2>4. Fits(q)
    <3> HIDE DEF q
    <3> QED
      BY <1>1, <2>2, <2>3 DEF Fits, InLifetime, Owner, NoToken
  <2> HIDE DEF q
  <2> QED
    BY <1>1, <2>1, <2>3, <2>4, OwnStep DEF Find, history
<1> QED
  BY <1>2, <1>3

\* A request compares what it read with the time: what has expired by now and
\* is still in its row has lapsed, what is not in a row is excused already,
\* and a row that is live by now has overtaken the request.
LEMMA CompareStep ==
  ASSUME Configuration, SessionIInv, UNCHANGED idleTimeout, NEW r \in Requests, Compare(r)
  PROVE  SessionIInv'
<1> DEFINE t == session[r].sent
<1>1. /\ session[r].at = "compare" /\ session[r] \in Request /\ r \notin Spent
      /\ Fits(session[r]) /\ session[r].token = NoToken /\ t \in 0 .. generated
      /\ t # NoToken /\ t \in issued
      /\ clock \in Nat /\ Lifetime \in Nat /\ generated \in Nat
  BY OwnFits DEF Compare, At, SessionIInv, SessionShape, Spent, Early, Loading, Configuration
<1>2. /\ overtaken \subseteq overtaken'
      /\ UNCHANGED <<clock, row, generated, issued, born, used, over, lapsed>>
  BY DEF Compare
<1>3. CASE Live(session[r].expiry)
  <2> DEFINE q == [session[r] EXCEPT !.at = "handle", !.token = t,
                     !.status = IF idleTimeout > 0 THEN "modified" ELSE "unmodified"]
  <2>1. session' = [session EXCEPT ![r] = q]
    BY <1>3 DEF Compare, Update
  <2>2. /\ q \in Request /\ q.at = "handle" /\ q.sent = t /\ q.token = t
        /\ q.deadline = session[r].deadline
    BY <1>1 DEF Request, Places, Early, Loading
  <2>3. Fits(q)
    <3> HIDE DEF q
    <3> QED
      BY <1>1, <2>2 DEF Fits, InLifetime, Owner, Loading
  <2> HIDE DEF q
  <2> QED
    BY <1>1, <1>2, <2>1, <2>2, <2>3, OwnStep
<1>4. CASE ~Live(session[r].expiry)
  <2> DEFINE q == [Unsent EXCEPT !.at = "expire", !.sent = t]
  <2>1. session' = [session EXCEPT ![r] = q]
    BY <1>4 DEF Compare, Update
  <2>2. /\ q \in Request /\ q.at = "expire" /\ q.sent = t
        /\ q.token = NoToken /\ q.deadline = 0
    BY <1>1 DEF Unsent, Request, Places, Early, Loading, NoToken
  <2>3. Fits(q)
    <3> HIDE DEF q
    <3> QED
      BY <1>1, <2>2 DEF Fits, InLifetime, Owner, NoToken
  <2>4. t \in Excused'
    <3>1. t \in DOMAIN row \ Expired(clock) => t \in overtaken'
      BY <1>4 DEF Compare
    <3>2. t \in Expired(clock) => t \in lapsed
      BY DEF SessionIInv, Lapses
    <3>3. t \notin DOMAIN row => t \in over \cup lapsed \cup overtaken
      BY <1>1 DEF SessionIInv, LiveRowKept
    <3> QED
      BY <1>2, <3>1, <3>2, <3>3 DEF Excused
  <2> HIDE DEF q
  <2> QED
    BY <1>1, <1>2, <2>1, <2>2, <2>3, <2>4, OwnStep
<1> QED
  BY <1>3, <1>4

\* A new session, with a lifetime from now.
LEMMA StartStep ==
  ASSUME Configuration, SessionIInv, UNCHANGED idleTimeout, NEW r \in Requests, Start(r)
  PROVE  SessionIInv'
<1> DEFINE q == [session[r] EXCEPT !.at = "handle", !.deadline = Deadline]
<1>1. /\ session[r].at = "new" /\ session[r] \in Request /\ r \notin Spent
      /\ Fits(session[r]) /\ session[r].token = NoToken
      /\ clock \in Nat /\ Lifetime \in Nat
  BY OwnFits DEF Start, At, SessionIInv, SessionShape, Spent, Early, Loading, Configuration
<1>2. session' = [session EXCEPT ![r] = q]
  BY DEF Start, Update
<1>3. Deadline \in Nat /\ Deadline = clock + Lifetime
  BY <1>1 DEF Deadline
<1>4. /\ q \in Request /\ q.at = "handle" /\ q.sent = session[r].sent
      /\ q.token = NoToken /\ q.deadline = Deadline
  BY <1>1, <1>3 DEF Request, Places, Early, Loading
<1> HIDE DEF q
<1>5. Fits(q)
  BY <1>1, <1>3, <1>4 DEF Fits, InLifetime, Owner, Loading
<1> QED
  BY <1>1, <1>2, <1>4, <1>5, OwnStep DEF Start, history

\* A destroyed session is written to again: it is a new one.
LEMMA RewriteStep ==
  ASSUME Configuration, SessionIInv, UNCHANGED idleTimeout, NEW r \in Requests, Rewrite(r)
  PROVE  SessionIInv'
<1> DEFINE q == [session[r] EXCEPT !.at = "stamp", !.token = NoToken,
                   !.status = "modified", !.deadline = Deadline]
<1>1. /\ session[r].at = "destroyed" /\ session[r] \in Request /\ r \notin Spent
      /\ session[r].sent \in 0 .. generated /\ session[r].sent \in {NoToken} \cup issued
      /\ clock \in Nat /\ Lifetime \in Nat /\ generated \in Nat
  BY DEF Rewrite, At, SessionIInv, SessionShape, Spent, Early, Configuration
<1>2. session' = [session EXCEPT ![r] = q]
  BY DEF Rewrite, Update
<1>3. Deadline \in Nat /\ Deadline = clock + Lifetime
  BY <1>1 DEF Deadline
<1>4. /\ q \in Request /\ q.at = "stamp" /\ q.sent = session[r].sent
      /\ q.token = NoToken /\ q.deadline = Deadline
  BY <1>1, <1>3 DEF Request, Places, NoToken
<1> HIDE DEF q
<1>5. Fits(q)
  BY <1>1, <1>3, <1>4 DEF Fits, InLifetime, Owner, Loading, NoToken
<1> QED
  BY <1>1, <1>2, <1>4, <1>5, OwnStep DEF Rewrite, history

\* A request that fails, or whose handler reads or puts, keeps its token.
LEMMA WaitStep ==
  ASSUME Configuration, SessionIInv, UNCHANGED idleTimeout, NEW r \in Requests,
         StatementFails(r) \/ Put(r) \/ Read(r)
  PROVE  SessionIInv'
<1>1. /\ session[r] \in Request /\ session[r].at # "compare"
      /\ {session[r].sent, session[r].token} \subseteq 0 .. generated
      /\ session[r].sent \in {NoToken} \cup issued /\ InLifetime(session[r])
      /\ session \in [Requests -> Request]
  BY DEF SessionIInv, SessionShape, Deadlines, StatementFails, Put, Read, At
<1> DEFINE q(to) == [session[r] EXCEPT !.at = to]
           p == [session[r] EXCEPT !.at = "stamp", !.status = "modified"]
<1>2. /\ Fits(q("done")) /\ q("done").at = "done"
      /\ Fits(q("stamp")) /\ q("stamp").at = "stamp" /\ Fits(p) /\ p.at = "stamp"
  BY <1>1 DEF Fits, Request, Places, InLifetime, Owner, Loading
<1>3. CASE StatementFails(r)
  <2>1. session' = [session EXCEPT ![r] = q("done")]
    BY <1>3, <1>1 DEF StatementFails, Advance, Request
  <2> HIDE DEF q
  <2> QED
    BY <1>2, <1>3, <2>1, OwnStep DEF StatementFails, history
<1>4. CASE Put(r)
  <2>1. session' = [session EXCEPT ![r] = p] /\ r \notin Spent
    BY <1>4 DEF Put, Update, At, Spent, Early
  <2> HIDE DEF p
  <2> QED
    BY <1>2, <1>4, <2>1, OwnStep DEF Put, history
<1>5. CASE Read(r)
  <2>1. r \notin Spent
    BY <1>5 DEF Read, At, Spent, Early
  <2>2. \/ session' = [session EXCEPT ![r] = q("stamp")]
        \/ session' = [session EXCEPT ![r] = q("done")]
    <3>1. \/ session' = [session EXCEPT ![r].at = "stamp"]
          \/ session' = [session EXCEPT ![r].at = "done"]
      BY <1>5 DEF Read, Advance
    <3> QED
      BY <3>1, <1>1 DEF Request
  <2> HIDE DEF q
  <2> QED
    BY <1>2, <1>5, <2>1, <2>2, OwnStep DEF Read, history
<1> QED
  BY <1>3, <1>4, <1>5

\* The clock.
LEMMA TickStep ==
  ASSUME Configuration, SessionIInv, UNCHANGED idleTimeout, Tick
  PROVE  SessionIInv'
<1>1. /\ clock' = clock + 1 /\ clock \in Nat /\ Lifetime \in Nat
      /\ UNCHANGED <<row, session, generated, issued, born, used, over, overtaken, Spent>>
      /\ lapsed \subseteq lapsed'
  BY DEF Tick, SessionIInv, SessionShape, Configuration, Spent
<1>2. SessionShape'
  BY <1>1 DEF SessionIInv, SessionShape
<1>3. Deadlines'
  BY <1>1 DEF SessionIInv, SessionShape, Deadlines, InLifetime, Owner, Request, NoToken
<1>4. Expiries'
  BY <1>1 DEF SessionIInv, SessionShape, Expiries, InBounds, Owner
<1>5. Lapses' /\ LiveRowKept'
  BY <1>1 DEF SessionIInv, Lapses, LiveRowKept, Tick, Expired, Excused
<1> QED
  BY <1>2, <1>3, <1>4, <1>5 DEF SessionIInv

\* A row less.
LEMMA FewerRows ==
  ASSUME SessionIInv, NEW gone, UNCHANGED <<idleTimeout, clock, born, used>>,
         row' = Restrict(row, DOMAIN row \ gone)
  PROVE  /\ DOMAIN row' = DOMAIN row \ gone
         /\ \A t \in DOMAIN row' : row'[t] = row[t]
         /\ row' \in [DOMAIN row' -> [deadline : Nat, expires : Nat]]
BY DEF Restrict, SessionIInv, SessionShape

\* What a sweep takes has expired, and so lapsed.
LEMMA SweepStep ==
  ASSUME Configuration, SessionIInv, UNCHANGED idleTimeout, Sweep
  PROVE  SessionIInv'
<1>1. PICK now \in 0 .. clock : row' = Restrict(row, DOMAIN row \ Swept(now))
  BY DEF Sweep
<1>2. UNCHANGED <<clock, session, generated, issued, born, used, over, lapsed,
                  overtaken, Spent>>
  BY DEF Sweep, history, Spent
<1>3. /\ DOMAIN row' = DOMAIN row \ Swept(now)
      /\ \A t \in DOMAIN row' : row'[t] = row[t]
      /\ row' \in [DOMAIN row' -> [deadline : Nat, expires : Nat]]
  BY <1>1, <1>2, FewerRows
<1>4. Swept(now) \subseteq lapsed
  BY DEF SessionIInv, SessionShape, Lapses, Swept, Expired
<1>5. SessionShape'
  BY <1>2, <1>3 DEF SessionIInv, SessionShape
<1>6. Deadlines' /\ Expiries'
  BY <1>2, <1>3 DEF SessionIInv, Deadlines, InLifetime, Expiries, InBounds
<1>7. Lapses' /\ LiveRowKept'
  BY <1>2, <1>3, <1>4 DEF SessionIInv, Lapses, LiveRowKept, Expired, Excused
<1> QED
  BY <1>5, <1>6, <1>7 DEF SessionIInv

\* A step of a request that deletes the row of a token that is excused, and
\* generates none.
LEMMA DeleteStep ==
  ASSUME Configuration, SessionIInv, NEW r \in Requests, NEW to \in Places,
         to \notin {"find", "compare", "expire", "upsert"},
         to \in Loading => session[r].token = NoToken,
         session[r].at \notin {"compare", "upsert"},
         Advance(r, to), r \notin Spent,
         NEW t, row' = Without(t), over \subseteq over',
         t \in issued => t \in Excused',
         UNCHANGED <<idleTimeout, clock, generated, issued, born, used, lapsed, overtaken>>
  PROVE  SessionIInv'
<1> DEFINE q == [session[r] EXCEPT !.at = to]
<1>1. /\ session[r] \in Request /\ session \in [Requests -> Request]
      /\ Fits(session[r])
  BY OwnFits DEF SessionIInv, SessionShape
<1>2. /\ q \in Request /\ q.at = to /\ Fits(q)
      /\ q.sent = session[r].sent /\ q.token = session[r].token
  BY <1>1 DEF Fits, Request, InLifetime, Owner
<1>3. session' = [session EXCEPT ![r] = q]
  BY <1>1 DEF Advance, Request
<1> HIDE DEF q
<1>4. /\ session' \in [Requests -> Request] /\ session'[r] = q
      /\ \A p \in Requests \ {r} : session'[p] = session[p]
  BY <1>1, <1>2, <1>3
<1>5. Spent \subseteq Spent' /\ Spent' \subseteq Requests
  BY <1>4 DEF Spent
<1>6. /\ DOMAIN row' = DOMAIN row \ {t}
      /\ \A u \in DOMAIN row' : row'[u] = row[u]
      /\ row' \in [DOMAIN row' -> [deadline : Nat, expires : Nat]]
  BY FewerRows DEF Without
<1>7. SessionShape'
  <2>1. generated' <= Cardinality(Spent')
    BY <1>5, SpentGrows DEF SessionIInv, SessionShape
  <2> DEFINE Bounded(p) ==
        /\ {session'[p].sent, session'[p].token} \subseteq 0 .. generated
        /\ session'[p].at \in Loading => session'[p].token = NoToken
        /\ session'[p].at = "compare" => session'[p].sent # NoToken
        /\ session'[p].at = "upsert" => session'[p].token # NoToken
        /\ session'[p].sent \in {NoToken} \cup issued
  <2>2. ASSUME NEW p \in Requests PROVE Bounded(p)
    <3>1. CASE p = r
      BY <1>2, <1>4, <3>1 DEF Fits
    <3>2. CASE p # r
      BY <1>4, <3>2 DEF SessionIInv, SessionShape
    <3> QED
      BY <3>1, <3>2
  <2> QED
    BY <1>4, <1>6, <2>1, <2>2 DEF SessionIInv, SessionShape, Tokens
<1>8. Deadlines'
  BY <1>2, <1>4, <1>6 DEF Fits, SessionIInv, Deadlines, InLifetime
<1>9. Expiries'
  BY <1>2, <1>4, <1>6 DEF SessionIInv, Expiries, InBounds, Owner
<1>10. Lapses' /\ LiveRowKept'
  BY <1>2, <1>4, <1>6 DEF SessionIInv, Lapses, LiveRowKept, Expired, Excused
<1> QED
  BY <1>7, <1>8, <1>9, <1>10 DEF SessionIInv

\* A find deletes the row it took for expired.
LEMMA ExpireStep ==
  ASSUME Configuration, SessionIInv, UNCHANGED idleTimeout, NEW r \in Requests, Expire(r)
  PROVE  SessionIInv'
<1>1. /\ session[r].at = "expire" /\ r \notin Spent /\ session[r].token = NoToken
      /\ session[r].sent \in Excused
  BY DEF Expire, At, SessionIInv, SessionShape, Lapses, Spent, Early, Loading
<1>2. "new" \in Places
  BY DEF Places, Early, Loading
<1> QED
  BY <1>1, <1>2, DeleteStep DEF Expire, history, Excused

\* A handler destroys its session, or begins to renew its token.
LEMMA RemoveStep ==
  ASSUME Configuration, SessionIInv, UNCHANGED idleTimeout, NEW r \in Requests,
         Destroy(r) \/ Renew(r)
  PROVE  SessionIInv'
<1>1. PICK to \in {"done", "destroyed", "renew"} : Delete(r, to)
  BY DEF Destroy, Renew
<1>2. session[r].at = "handle" /\ r \notin Spent
  BY <1>1 DEF Delete, At, Spent, Early
<1>3. over \subseteq over' /\ (session[r].token \in issued => session[r].token \in Excused')
  BY <1>1 DEF Delete, SessionIInv, SessionShape, NoToken, Excused
<1>4. to \in Places /\ to \notin Loading
  BY DEF Places, Early, Loading
<1> QED
  BY <1>1, <1>2, <1>3, <1>4, DeleteStep DEF Delete

\* A renewed session has a new token, whose lifetime starts now.
LEMMA RenewedStep ==
  ASSUME Configuration, SessionIInv, UNCHANGED idleTimeout, NEW r \in Requests, Renewed(r)
  PROVE  SessionIInv'
<1> DEFINE new == generated + 1
           q == [session[r] EXCEPT !.at = "stamp", !.token = new,
                   !.status = "modified", !.deadline = Deadline]
<1>1. /\ session[r].at = "renew" /\ session[r] \in Request /\ r \notin Spent
      /\ session[r].sent \in 0 .. generated /\ session[r].sent \in {NoToken} \cup issued
      /\ clock \in Nat /\ Lifetime \in Nat /\ generated \in Nat
      /\ session \in [Requests -> Request]
  BY DEF Renewed, At, SessionIInv, SessionShape, Spent, Early, Configuration
<1>2. Deadline \in Nat /\ Deadline = clock + Lifetime /\ new \in Nat /\ new # NoToken
  BY <1>1 DEF Deadline, NoToken
<1>3. /\ q \in Request /\ q.at = "stamp" /\ q.sent = session[r].sent
      /\ q.token = new /\ q.deadline = Deadline
  BY <1>1, <1>2 DEF Request, Places
<1>4. /\ generated' = new /\ born' = [born EXCEPT ![new] = clock]
      /\ UNCHANGED <<clock, row, issued, used, over, lapsed, overtaken>>
      /\ session' = [session EXCEPT ![r] = q]
  BY DEF Renewed, Update
<1>5. /\ session' \in [Requests -> Request] /\ session'[r] = q
      /\ \A p \in Requests \ {r} : session'[p] = session[p]
  BY <1>1, <1>3, <1>4
<1>6. new \in Tokens /\ new <= Cardinality(Spent \cup {r})
  BY <1>1, TokensLeft DEF SessionIInv
<1>7. Spent' = Spent \cup {r}
  <2>1. session'[r].at = "stamp" /\ session'[r].token # NoToken
    BY <1>2, <1>3, <1>5
  <2>2. r \in Spent'
    BY <2>1 DEF Spent, Early, Loading
  <2>3. \A p \in Requests \ {r} : p \in Spent <=> p \in Spent'
    BY <1>5 DEF Spent
  <2> QED
    BY <2>2, <2>3 DEF Spent
<1>8. /\ born' \in [Tokens -> Nat] /\ born'[new] = clock
      /\ \A u \in 1 .. generated : u \in Tokens => born'[u] = born[u]
  BY <1>1, <1>4, <1>6 DEF SessionIInv, SessionShape
<1>9. \A u \in 1 .. generated : u \in Tokens
  BY GeneratedAreTokens DEF SessionIInv
<1>10. SessionShape'
  <2>1. generated' <= Cardinality(Spent')
    BY <1>4, <1>6, <1>7
  <2> DEFINE Bounded(p) ==
        /\ session'[p].sent \in 0 .. new /\ session'[p].token \in 0 .. new
        /\ session'[p].at \in Loading => session'[p].token = NoToken
        /\ session'[p].at = "compare" => session'[p].sent # NoToken
        /\ session'[p].at = "upsert" => session'[p].token # NoToken
        /\ session'[p].sent \in {NoToken} \cup issued
  <2>2. ASSUME NEW p \in Requests PROVE Bounded(p)
    <3>1. CASE p = r
      <4> HIDE DEF q
      <4> QED
        BY <1>1, <1>2, <1>3, <1>5, <3>1 DEF Loading
    <3>2. CASE p # r
      BY <1>1, <1>5, <3>2 DEF SessionIInv, SessionShape
    <3> QED
      BY <3>1, <3>2
  <2> QED
    BY <1>1, <1>2, <1>4, <1>5, <1>8, <2>1, <2>2 DEF SessionIInv, SessionShape, NoToken, Tokens
<1>11. Deadlines'
  <2>1. ASSUME NEW p \in Requests PROVE InLifetime(session[p]) /\ Owner(session[p]) \in 0 .. generated
    BY DEF SessionIInv, SessionShape, Deadlines, Owner
  <2>2. \A p \in Requests \ {r} : InLifetime(session[p])'
    BY <1>1, <1>4, <1>5, <1>8, <1>9, <2>1 DEF InLifetime, Owner, NoToken
  <2>3. \A u \in DOMAIN row : row[u].deadline <= born'[u] + Lifetime
    BY <1>8, <1>9 DEF SessionIInv, Deadlines, SessionShape
  <2>4. InLifetime(session[r])'
    <3> HIDE DEF q
    <3> QED
      BY <1>2, <1>3, <1>5, <1>8 DEF InLifetime, Owner
  <2> QED
    BY <1>4, <2>2, <2>3, <2>4 DEF Deadlines
<1>12. Expiries'
  BY <1>3, <1>4, <1>5 DEF SessionIInv, Expiries, InBounds, Owner, Tokens
<1>13. Lapses' /\ LiveRowKept'
  BY <1>3, <1>4, <1>5 DEF SessionIInv, Lapses, LiveRowKept, Expired, Excused
<1> QED
  BY <1>10, <1>11, <1>12, <1>13 DEF SessionIInv

\* The token and the expiry of what will be saved.
LEMMA StampStep ==
  ASSUME Configuration, SessionIInv, UNCHANGED idleTimeout, NEW r \in Requests, Stamp(r)
  PROVE  SessionIInv'
<1> DEFINE fresh == session[r].token = NoToken
           t == IF fresh THEN generated + 1 ELSE session[r].token
           idle == clock + idleTimeout
           expiry == IF idleTimeout > 0 /\ idle < session[r].deadline
                     THEN idle ELSE session[r].deadline
           q == [session[r] EXCEPT !.at = "upsert", !.token = t, !.expiry = expiry]
<1>1. /\ session[r].at = "stamp" /\ session[r] \in Request
      /\ session[r].sent \in 0 .. generated /\ session[r].token \in 0 .. generated
      /\ session[r].sent \in {NoToken} \cup issued
      /\ clock \in Nat /\ Lifetime \in Nat /\ generated \in Nat /\ idleTimeout \in Nat
      /\ session \in [Requests -> Request]
      /\ session[r].deadline \in Nat
      /\ session[r].deadline <= (IF fresh THEN clock ELSE born[session[r].token]) + Lifetime
      /\ fresh <=> r \notin Spent
  BY DEF Stamp, At, SessionIInv, SessionShape, Deadlines, InLifetime, Owner, Spent, Early,
         Loading, Configuration, Request
<1>2. t \in 1 .. generated + 1 /\ expiry \in Nat /\ t # NoToken
  BY <1>1 DEF NoToken
<1>3. /\ q \in Request /\ q.at = "upsert" /\ q.sent = session[r].sent
      /\ q.token = t /\ q.deadline = session[r].deadline /\ q.expiry = expiry
  <2>1. t \in Nat /\ expiry \in Nat /\ session[r] \in Request
    BY <1>1, <1>2
  <2> HIDE DEF t, expiry, fresh
  <2> QED
    BY <2>1 DEF Request, Places
<1>4. /\ generated' = IF fresh THEN generated + 1 ELSE generated
      /\ born' = IF fresh THEN [born EXCEPT ![t] = clock] ELSE born
      /\ used' = [used EXCEPT ![t] = clock]
      /\ UNCHANGED <<clock, row, issued, over, lapsed, overtaken>>
      /\ session' = [session EXCEPT ![r] = q]
  BY DEF Stamp, Update
<1>5. /\ session' \in [Requests -> Request] /\ session'[r] = q
      /\ \A p \in Requests \ {r} : session'[p] = session[p]
  BY <1>1, <1>3, <1>4
<1>6. fresh => generated + 1 \in Tokens /\ generated + 1 <= Cardinality(Spent \cup {r})
  BY <1>1, TokensLeft DEF SessionIInv
<1>7. /\ Spent' = Spent \cup {r} /\ generated' \in Nat /\ generated <= generated'
      /\ t \in 1 .. generated'
  BY <1>1, <1>2, <1>3, <1>4, <1>5 DEF Spent, Early, Loading
<1>8. generated' <= Cardinality(Spent')
  BY <1>1, <1>4, <1>6, <1>7 DEF SessionIInv, SessionShape
<1>9. \A u \in 1 .. generated' : u \in Tokens
  BY <1>1, <1>4, <1>6, GeneratedAreTokens DEF SessionIInv
<1>10. /\ born' \in [Tokens -> Nat] /\ used' \in [Tokens -> Nat]
       /\ used'[t] = clock /\ (fresh => born'[t] = clock)
       /\ \A u \in 1 .. generated : born'[u] = born[u] /\ used'[u] >= used[u]
       /\ \A u \in Tokens : used'[u] <= clock
  BY <1>1, <1>4, <1>7, <1>9 DEF SessionIInv, SessionShape, Expiries
<1>11. SessionShape'
  <2> DEFINE Bounded(p) ==
        /\ session'[p].sent \in 0 .. generated' /\ session'[p].token \in 0 .. generated'
        /\ session'[p].at \in Loading => session'[p].token = NoToken
        /\ session'[p].at = "compare" => session'[p].sent # NoToken
        /\ session'[p].at = "upsert" => session'[p].token # NoToken
        /\ session'[p].sent \in {NoToken} \cup issued
  <2>1. ASSUME NEW p \in Requests PROVE Bounded(p)
    <3>1. CASE p = r
      <4> HIDE DEF q, t
      <4> QED
        BY <1>1, <1>2, <1>3, <1>5, <1>7, <3>1 DEF Loading
    <3>2. CASE p # r
      BY <1>1, <1>5, <1>7, <3>2 DEF SessionIInv, SessionShape
    <3> QED
      BY <3>1, <3>2
  <2> QED
    BY <1>1, <1>4, <1>5, <1>7, <1>8, <1>10, <2>1 DEF SessionIInv, SessionShape, NoToken, Tokens
<1>12. Deadlines'
  <2>1. \A p \in Requests \ {r} : InLifetime(session[p])'
    <3>1. \A p \in Requests : InLifetime(session[p]) /\ Owner(session[p]) \in 0 .. generated
      BY DEF SessionIInv, SessionShape, Deadlines, Owner
    <3> QED
      BY <1>1, <1>4, <1>5, <1>10, <3>1 DEF InLifetime, Owner, NoToken
  <2>2. \A u \in DOMAIN row : row[u].deadline <= born'[u] + Lifetime
    BY <1>10 DEF SessionIInv, Deadlines, SessionShape
  <2>3. session'[r].deadline <= born'[t] + Lifetime
    BY <1>1, <1>3, <1>5, <1>10 DEF NoToken
  <2>4. InLifetime(session[r])'
    <3> HIDE DEF q, t
    <3> QED
      BY <1>2, <1>3, <1>5, <2>3 DEF InLifetime, Owner
  <2> QED
    BY <1>4, <2>1, <2>2, <2>4 DEF Deadlines
<1>13. Expiries'
  <2>1. /\ expiry <= session[r].deadline
        /\ idleTimeout > 0 => expiry <= used'[t] + idleTimeout
    BY <1>1, <1>10
  <2>2. \A u \in DOMAIN row : InBounds(row[u].expires, row[u].deadline, u)'
    BY <1>1, <1>4, <1>9, <1>10 DEF SessionIInv, SessionShape, Expiries, InBounds
  <2>3. ASSUME NEW p \in Requests \ {r}, session[p].at \in {"compare", "upsert"}
        PROVE  InBounds(session[p].expiry, session[p].deadline, Owner(session[p]))'
    <3> DEFINE u == Owner(session[p])
    <3>1. /\ u \in 1 .. generated /\ InBounds(session[p].expiry, session[p].deadline, u)
          /\ session[p].expiry \in Nat /\ session[p].deadline \in Nat
      BY <2>3 DEF SessionIInv, SessionShape, Expiries, Request, NoToken, Owner
    <3>2. used'[u] >= used[u] /\ used[u] \in Nat /\ used'[u] \in Nat
      BY <3>1, <1>10, GeneratedAreTokens DEF SessionIInv, SessionShape
    <3>3. session'[p] = session[p] /\ Owner(session[p])' = u
      BY <1>5 DEF Owner
    <3> HIDE DEF u
    <3> QED
      BY <1>1, <3>1, <3>2, <3>3 DEF InBounds
  <2>4. InBounds(session[r].expiry, session[r].deadline, Owner(session[r]))'
    <3> HIDE DEF q, t, expiry
    <3> QED
      BY <1>3, <1>5, <2>1 DEF InBounds, Owner
  <2> QED
    BY <1>4, <1>5, <1>10, <2>2, <2>3, <2>4 DEF Expiries
<1>14. Lapses' /\ LiveRowKept'
  BY <1>3, <1>4, <1>5 DEF SessionIInv, Lapses, LiveRowKept, Expired, Excused
<1> QED
  BY <1>11, <1>12, <1>13, <1>14 DEF SessionIInv

\* The row is saved, with what the request has stamped.
LEMMA UpsertStep ==
  ASSUME Configuration, SessionIInv, UNCHANGED idleTimeout, NEW r \in Requests, Upsert(r)
  PROVE  SessionIInv'
<1> DEFINE q == session[r]
           ended == [session[r] EXCEPT !.at = "done"]
<1>1. /\ q.at = "upsert" /\ q \in Request /\ q.token \in 1 .. generated
      /\ q.sent \in 0 .. generated /\ q.sent \in {NoToken} \cup issued
      /\ clock \in Nat /\ generated \in Nat /\ session \in [Requests -> Request]
      /\ InBounds(q.expiry, q.deadline, q.token)
      /\ q.deadline <= born[q.token] + Lifetime
      /\ q.deadline \in Nat /\ q.expiry \in Nat
  BY DEF Upsert, At, SessionIInv, SessionShape, Deadlines, InLifetime, Owner, Expiries,
         NoToken, Request
<1>2. /\ ended \in Request /\ ended.at = "done" /\ ended.sent = q.sent
      /\ ended.token = q.token /\ ended.deadline = q.deadline
  BY <1>1 DEF Request, Places
<1>3. /\ DOMAIN row' = DOMAIN row \cup {q.token}
      /\ row'[q.token] = [deadline |-> q.deadline, expires |-> q.expiry]
      /\ \A u \in DOMAIN row \ {q.token} : row'[u] = row[u]
  BY DEF Upsert
<1>4. /\ session' = [session EXCEPT ![r] = ended]
      /\ UNCHANGED <<clock, generated, born, used, over, overtaken>>
      /\ issued' = issued \cup {q.token} /\ lapsed \subseteq lapsed'
      /\ q.expiry <= clock => q.token \in lapsed'
  BY <1>1 DEF Upsert, Advance, Request
<1>5. /\ session' \in [Requests -> Request] /\ session'[r] = ended
      /\ \A p \in Requests \ {r} : session'[p] = session[p]
  BY <1>1, <1>2, <1>4
<1>6. row' \in [DOMAIN row' -> [deadline : Nat, expires : Nat]]
  <2>1. \A u \in DOMAIN row' : row'[u] \in [deadline : Nat, expires : Nat]
    BY <1>1, <1>3 DEF SessionIInv, SessionShape
  <2> QED
    BY <2>1 DEF Upsert
<1>7. SessionShape'
  <2>1. Spent \subseteq Spent' /\ Spent' \subseteq Requests
    BY <1>2, <1>5 DEF Spent, Early, Loading
  <2>2. generated' <= Cardinality(Spent')
    BY <1>1, <1>4, <2>1, SpentGrows DEF SessionIInv, SessionShape
  <2> QED
    BY <1>1, <1>2, <1>3, <1>4, <1>5, <1>6, <2>2
       DEF SessionIInv, SessionShape, NoToken, Tokens, Loading
<1>8. Deadlines'
  BY <1>1, <1>2, <1>3, <1>4, <1>5 DEF SessionIInv, Deadlines, InLifetime, Owner
<1>9. Expiries'
  BY <1>1, <1>2, <1>3, <1>4, <1>5 DEF SessionIInv, Expiries, InBounds, Owner, Tokens
<1>10. Lapses' /\ LiveRowKept'
  BY <1>2, <1>3, <1>4, <1>5 DEF SessionIInv, Lapses, LiveRowKept, Expired, Excused
<1> QED
  BY <1>7, <1>8, <1>9, <1>10 DEF SessionIInv

\* No step of the clock, a sweep or a request leaves the invariant.
LEMMA SessionNextIInv == Configuration /\ SessionIInv /\ [SessionNext]_sessionVars => SessionIInv'
<1> SUFFICES ASSUME Configuration, SessionIInv, [SessionNext]_sessionVars PROVE SessionIInv'
  OBVIOUS
<1>1. CASE UNCHANGED sessionVars
  BY <1>1 DEF sessionVars, history, SessionIInv, SessionShape, Spent, Deadlines, InLifetime,
              Owner, Expiries, InBounds, Lapses, Excused, LiveRowKept, Expired, Tokens
<1>2. CASE SessionNext
  BY <1>1, <1>2, TickStep, SweepStep, SendStep, FindStep, CompareStep, ExpireStep,
     StartStep, WaitStep, RemoveStep, RewriteStep, RenewedStep, StampStep, UpsertStep
     DEF SessionNext, Step, AllAnswered
<1> QED
  BY <1>1, <1>2

\* Every reachable state satisfies the invariant.
THEOREM SessionInvariant == SessionSpec => []SessionIInv
<1>1. Configuration
  BY SessionsAssumption DEF Configuration
<1> QED
  BY <1>1, SessionInitIInv, SessionNextIInv, PTL DEF SessionSpec

\* A session keeps its row until a handler deletes it or it has been expired
\* for a moment, unless a find compared the time with an expiry that another
\* request had replaced by then (FindCtx's SELECT, comparison and DELETE).
THEOREM LiveRows == SessionSpec => []LiveRowKept
<1>1. SessionIInv => LiveRowKept
  BY DEF SessionIInv
<1> QED
  BY <1>1, SessionInvariant, PTL

\* A session is served only within its lifetime and its idle time.
THEOREM InTime == SessionSpec => ServedInTime
<1> DEFINE A == \A r \in Requests :
             At(r, "compare") /\ session'[r].token # NoToken =>
               LET t == session'[r].token IN
               /\ clock < born[t] + Lifetime
               /\ idleTimeout > 0 => clock < used[t] + idleTimeout
<1>0. Configuration
  BY SessionsAssumption DEF Configuration
<1>1. SessionIInv /\ [SessionNext]_sessionVars => [A]_sessionVars
  <2> SUFFICES ASSUME SessionIInv, SessionNext, NEW r \in Requests, At(r, "compare"),
                      session'[r].token # NoToken, sessionVars' # sessionVars
               PROVE  LET t == session'[r].token IN
                      /\ clock < born[t] + Lifetime
                      /\ idleTimeout > 0 => clock < used[t] + idleTimeout
    OBVIOUS
  <2>1. /\ session[r].token = NoToken /\ session \in [Requests -> Request]
        /\ session[r].at = "compare" /\ session[r].sent # NoToken
        /\ session[r].sent \in 0 .. generated
    BY DEF SessionIInv, SessionShape, At, Loading
  <2>2. ASSUME NEW p \in Requests, Step(p) PROVE p = r /\ Compare(r)
    <3>1. session'[r] # session[r]
      BY <2>1
    <3>2. \A o \in Requests \ {p} : session'[o] = session[o]
      <4>1. CASE Send(p) \/ Find(p) \/ Compare(p) \/ Expire(p) \/ Start(p) \/ StatementFails(p)
        BY <2>1, <4>1 DEF Send, Find, Compare, Expire, Start, StatementFails, Advance, Update
      <4>2. CASE Put(p) \/ Read(p) \/ Destroy(p) \/ Rewrite(p) \/ Renew(p) \/ Renewed(p)
        BY <2>1, <4>2 DEF Put, Read, Delete, Destroy, Rewrite, Renew, Renewed, Advance, Update
      <4>3. CASE Stamp(p) \/ Upsert(p)
        BY <2>1, <4>3 DEF Stamp, Upsert, Advance, Update
      <4> QED
        BY <2>2, <4>1, <4>2, <4>3 DEF Step
    <3>3. p = r
      BY <3>1, <3>2
    <3>4. session[p].at = "compare"
      BY <2>1, <3>3
    <3>5. ~(Send(p) \/ Find(p) \/ Expire(p) \/ Start(p) \/ StatementFails(p) \/ Put(p))
      BY <3>4 DEF Send, Find, Expire, Start, StatementFails, Put, At
    <3>6. ~(Read(p) \/ Destroy(p) \/ Rewrite(p) \/ Renew(p) \/ Renewed(p) \/ Stamp(p) \/ Upsert(p))
      BY <3>4 DEF Read, Delete, Destroy, Rewrite, Renew, Renewed, Stamp, Upsert, At
    <3> QED
      BY <2>2, <3>3, <3>5, <3>6 DEF Step
  <2>3. UNCHANGED session => FALSE
    BY <2>1
  <2>4. Compare(r)
    BY <2>2, <2>3 DEF SessionNext, Tick, Sweep, AllAnswered, sessionVars
  <2> DEFINE t == session[r].sent
  <2>5. Live(session[r].expiry) /\ session'[r].token = t
    <3>1. session[r] \in Request
      BY <2>1
    <3>2. CASE ~Live(session[r].expiry)
      BY <2>1, <2>4, <3>1, <3>2 DEF Compare, Update, Unsent
    <3>3. CASE Live(session[r].expiry)
      BY <2>1, <2>4, <3>1, <3>3 DEF Compare, Update, Request
    <3> QED
      BY <3>2, <3>3
  <2>6. /\ t \in Tokens /\ born[t] \in Nat /\ used[t] \in Nat /\ clock \in Nat
        /\ session[r].expiry \in Nat /\ session[r].deadline \in Nat
        /\ session[r].deadline <= born[t] + Lifetime
        /\ InBounds(session[r].expiry, session[r].deadline, t)
    BY <1>0, <2>1, GeneratedAreTokens DEF SessionIInv, SessionShape, Deadlines, InLifetime,
       Owner, Expiries, Request, NoToken
  <2> HIDE DEF t
  <2> QED
    BY <1>0, <2>5, <2>6 DEF Live, InBounds, SessionIInv, SessionShape, Configuration
<1> QED
  BY <1>1, SessionInvariant, PTL DEF SessionSpec, ServedInTime
=============================================================================
