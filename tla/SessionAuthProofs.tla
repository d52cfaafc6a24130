-------------------------- MODULE SessionAuthProofs --------------------------
(* Proofs that the sessions of SessionAuth keep their promises for any       *)
(* number of users, browsers, requests, tokens and hashes.  IInv is the      *)
(* inductive invariant; there is a lemma for every action, with one step for *)
(* each conjunct, and the theorems follow from InductiveInvariant.           *)
EXTENDS SessionAuth, TLAPS

USE DEF AllKinds, Status, Phases, Identity, Anonymous, NewSession, Data, db,
        world, history, Held, HeldBy, Goto, Fault, Handles

\* A step that only moves a request on to its commit or its reply.
LEMMA QuietStep ==
  ASSUME IInv, NEW r \in Requests,
         NEW to \in {"commit", "reply"}, pc[r] # "unsent",
         pc' = [pc EXCEPT ![r] = to], faults' \in Nat,
         UNCHANGED <<db, world, input, session, current, checked, setCookie,
                     holder, usedHashes, adminActs, history>>
  PROVE  IInv'
<1> USE ConstantsAssumption DEF IInv
<1>1. TypeOK'
  BY DEF TypeOK
<1>2. TokensWithTheirHolder'
  BY DEF TypeOK, TokensWithTheirHolder, RequestTokens
<1>3. IdentitiesProved'
  BY DEF TypeOK, TokensWithTheirHolder, RequestTokens, IdentitiesProved,
     RequestProved
<1>4. HashesInForce'
  BY DEF TypeOK, HashesInForce
<1>5. RevokedStaysRevoked'
  BY DEF TypeOK, HashesInForce, RevokedStaysRevoked
<1>6. ServedIdentityProved'
  BY DEF TypeOK, IdentitiesProved, RequestProved, ServedIdentityProved
<1>7. RevocationHonoured'
  BY DEF TypeOK, RevokedStaysRevoked, RevocationHonoured
<1>8. DeactivationHonoured'
  BY DEF TypeOK, RevokedStaysRevoked, DeactivationHonoured
<1>9. LinkNotReplayed'
  BY DEF TypeOK, HashesInForce, RevokedStaysRevoked,
     LinkNotReplayed
<1>10. OneUserPerToken'
  BY DEF TypeOK, TokensWithTheirHolder, RequestTokens,
       OneUserPerToken
<1> QED BY <1>1, <1>2, <1>3, <1>4, <1>5, <1>6, <1>7, <1>8, <1>9, <1>10

\* A login or a password change whose password was accepted.
LEMMA AcceptStep ==
  ASSUME IInv, NEW r \in Requests,
         NEW u \in Users, NEW to \in {"signin", "save"}, Accept(r, u, to),
         pc[r] = "handle",
         input[r].kind = IF to = "signin" THEN "login" ELSE "change"
  PROVE  IInv'
<1> USE ConstantsAssumption DEF IInv, Accept
<1>0. input[r].browser \in Browsers
  BY DEF TokensWithTheirHolder, RequestTokens
<1>1. TypeOK'
  BY <1>0 DEF TypeOK
<1>2. TokensWithTheirHolder'
  BY <1>0 DEF TypeOK, TokensWithTheirHolder, RequestTokens
<1>3. IdentitiesProved'
  <2>1. \A k \in stored' : row'[k].user # NoUser =>
          <<holder'[k], row'[k].user, row'[k].hash>> \in proved'
    BY <1>0 DEF TypeOK, TokensWithTheirHolder, RequestTokens,
         IdentitiesProved, RequestProved
  <2>2. ASSUME NEW q \in Requests PROVE RequestProved(q)'
    <3>0. RequestProved(q)
      BY DEF IdentitiesProved
    <3>1. CASE q # r
      BY <1>0, <3>0, <3>1 DEF TypeOK, RequestProved
    <3>2. CASE q = r
      <4>1. session'[q].user # NoUser =>
              <<input'[q].browser, session'[q].user, session'[q].hash>>
                \in proved'
        BY <1>0, <3>0, <3>2 DEF TypeOK, RequestProved
      <4>2. pc'[q] \in {"signin", "cycle"} =>
              <<input'[q].browser, checked'[q].user, checked'[q].hash>>
                \in proved'
        BY <1>0, <3>0, <3>2 DEF TypeOK, RequestProved
      <4>3. /\ pc'[q] = "save" => checked'[q].user \in Users
            /\ \/ input'[q].kind \notin {"login", "forgot", "confirm"}
               \/ input'[q].subject.user \in Users
        BY <1>0, <3>0, <3>2 DEF TypeOK, RequestProved
      <4> QED BY <4>1, <4>2, <4>3 DEF RequestProved
    <3> QED BY <3>1, <3>2
  <2> QED BY <2>1, <2>2 DEF IdentitiesProved
<1>4. HashesInForce'
  BY <1>0 DEF TypeOK, HashesInForce
<1>5. RevokedStaysRevoked'
  BY <1>0 DEF TypeOK, HashesInForce, RevokedStaysRevoked
<1>6. ServedIdentityProved'
  BY <1>0 DEF TypeOK, IdentitiesProved, RequestProved, ServedIdentityProved
<1>7. RevocationHonoured'
  BY <1>0 DEF TypeOK, RevokedStaysRevoked, RevocationHonoured
<1>8. DeactivationHonoured'
  BY <1>0 DEF TypeOK, RevokedStaysRevoked, DeactivationHonoured
<1>9. LinkNotReplayed'
  BY <1>0 DEF TypeOK, HashesInForce, RevokedStaysRevoked,
     LinkNotReplayed
<1>10. OneUserPerToken'
  BY <1>0 DEF TypeOK, TokensWithTheirHolder, RequestTokens,
       OneUserPerToken
<1> QED BY <1>1, <1>2, <1>3, <1>4, <1>5, <1>6, <1>7, <1>8, <1>9, <1>10

\* A step that destroys the session of its request.
LEMMA DestroyStep ==
  ASSUME IInv, NEW r \in Requests,
         NEW to \in {"handle", "commit"},
         \/ pc[r] = "drop" /\ to = "handle"
         \/ pc[r] = "handle" /\ to = "commit",
         pc' = [pc EXCEPT ![r] = to], Destroy(r),
         UNCHANGED <<hash, active, row, world, input, current, checked,
                     setCookie, holder, usedHashes, faults, adminActs, history>>
  PROVE  IInv'
<1> USE ConstantsAssumption DEF IInv, Destroy
<1>1. TypeOK'
  BY DEF TypeOK
<1>2. TokensWithTheirHolder'
  BY DEF TypeOK, TokensWithTheirHolder, RequestTokens
<1>3. IdentitiesProved'
  BY DEF TypeOK, TokensWithTheirHolder, RequestTokens, IdentitiesProved,
     RequestProved
<1>4. HashesInForce'
  BY DEF TypeOK, HashesInForce
<1>5. RevokedStaysRevoked'
  BY DEF TypeOK, HashesInForce, RevokedStaysRevoked
<1>6. ServedIdentityProved'
  BY DEF TypeOK, IdentitiesProved, RequestProved, ServedIdentityProved
<1>7. RevocationHonoured'
  BY DEF TypeOK, RevokedStaysRevoked, RevocationHonoured
<1>8. DeactivationHonoured'
  BY DEF TypeOK, RevokedStaysRevoked, DeactivationHonoured
<1>9. LinkNotReplayed'
  BY DEF TypeOK, HashesInForce, RevokedStaysRevoked,
     LinkNotReplayed
<1>10. OneUserPerToken'
  BY DEF TypeOK, TokensWithTheirHolder, RequestTokens,
       OneUserPerToken
<1> QED BY <1>1, <1>2, <1>3, <1>4, <1>5, <1>6, <1>7, <1>8, <1>9, <1>10

\* A step that renews the token of its request and signs a user in.
LEMMA RenewStep ==
  ASSUME IInv, NEW r \in Requests,
         pc[r] \in {"signin", "cycle"},
         pc' = [pc EXCEPT ![r] = "commit"], Renew(r, checked[r]),
         UNCHANGED <<hash, active, row, world, input, current, checked,
                     setCookie, usedHashes, faults, adminActs, history>>
  PROVE  IInv'
<1> USE ConstantsAssumption DEF IInv, Unissued
<1> PICK t \in Unissued :
      /\ holder' = [holder EXCEPT ![t] = input[r].browser]
      /\ stored' = stored \ {session[r].token}
      /\ session' = [session EXCEPT ![r] =
           [token |-> t, status |-> "modified",
            user |-> checked[r].user, hash |-> checked[r].hash]]
  BY DEF Renew
<1>0. /\ t \in Tokens /\ t # NoToken /\ holder[t] = NoBrowser
      /\ input[r].browser \in Browsers
      /\ RequestProved(r) /\ RequestTokens(r)
      /\ checked[r] \in Identity
  BY DEF TypeOK, TokensWithTheirHolder, RequestTokens, IdentitiesProved,
         RequestProved
<1>a. /\ checked[r].user \in Users
      /\ holder'[t] = input[r].browser
      /\ \A v \in Tokens : v # t => holder'[v] = holder[v]
      /\ session'[r] = [token |-> t, status |-> "modified",
                        user |-> checked[r].user, hash |-> checked[r].hash]
      /\ \A q \in Requests : q # r => session'[q] = session[q]
  BY <1>0 DEF TypeOK, RequestProved
<1>1. TypeOK'
  BY <1>0, <1>a DEF TypeOK
<1>2. TokensWithTheirHolder'
  <2>1. \A b \in Browsers : cookie'[b] # NoToken => holder'[cookie'[b]] = b
    BY <1>0, <1>a DEF TypeOK, TokensWithTheirHolder, RequestTokens
  <2>2. \A k \in stored' : holder'[k] \in Browsers
    BY <1>0, <1>a DEF TypeOK, TokensWithTheirHolder
  <2>3. ASSUME NEW q \in Requests PROVE RequestTokens(q)'
    <3>0. RequestTokens(q)
      BY DEF TokensWithTheirHolder
    <3>1. CASE q # r
      BY <1>0, <1>a, <3>0, <3>1 DEF TypeOK, RequestTokens
    <3>2. CASE q = r
      BY <1>0, <1>a, <3>0, <3>2 DEF TypeOK, RequestTokens,
         TokensWithTheirHolder
    <3> QED BY <3>1, <3>2
  <2> QED BY <2>1, <2>2, <2>3 DEF TokensWithTheirHolder
<1>3. IdentitiesProved'
  <2>1. \A k \in stored' : row'[k].user # NoUser =>
          <<holder'[k], row'[k].user, row'[k].hash>> \in proved'
    BY <1>0, <1>a DEF TypeOK, TokensWithTheirHolder, RequestTokens,
         IdentitiesProved, RequestProved
  <2>2. ASSUME NEW q \in Requests PROVE RequestProved(q)'
    <3>0. RequestProved(q)
      BY DEF IdentitiesProved
    <3>1. CASE q # r
      BY <1>0, <1>a, <3>0, <3>1 DEF TypeOK, RequestProved
    <3>2. CASE q = r
      <4>1. session'[q].user # NoUser =>
              <<input'[q].browser, session'[q].user, session'[q].hash>>
                \in proved'
        BY <1>0, <1>a, <3>0, <3>2 DEF TypeOK, RequestProved
      <4>2. pc'[q] \in {"signin", "cycle"} =>
              <<input'[q].browser, checked'[q].user, checked'[q].hash>>
                \in proved'
        BY <1>0, <1>a, <3>0, <3>2 DEF TypeOK, RequestProved
      <4>3. /\ pc'[q] = "save" => checked'[q].user \in Users
            /\ \/ input'[q].kind \notin {"login", "forgot", "confirm"}
               \/ input'[q].subject.user \in Users
        BY <1>0, <1>a, <3>0, <3>2 DEF TypeOK, RequestProved
      <4> QED BY <4>1, <4>2, <4>3 DEF RequestProved
    <3> QED BY <3>1, <3>2
  <2> QED BY <2>1, <2>2 DEF IdentitiesProved
<1>4. HashesInForce'
  BY <1>0, <1>a DEF TypeOK, HashesInForce
<1>5. RevokedStaysRevoked'
  BY <1>0, <1>a DEF TypeOK, HashesInForce, RevokedStaysRevoked
<1>6. ServedIdentityProved'
  BY <1>0, <1>a DEF TypeOK, IdentitiesProved, RequestProved,
     ServedIdentityProved
<1>7. RevocationHonoured'
  BY <1>0, <1>a DEF TypeOK, RevokedStaysRevoked, RevocationHonoured
<1>8. DeactivationHonoured'
  BY <1>0, <1>a DEF TypeOK, RevokedStaysRevoked, DeactivationHonoured
<1>9. LinkNotReplayed'
  BY <1>0, <1>a DEF TypeOK, HashesInForce, RevokedStaysRevoked,
     LinkNotReplayed
<1>10. OneUserPerToken'
  <2>1. \A q \in Requests : q # r => session'[q] = session[q] /\ Held(q) # t
    BY <1>0, <1>a DEF TypeOK, TokensWithTheirHolder, RequestTokens
  <2>2. t \notin stored
    BY <1>0 DEF TypeOK, TokensWithTheirHolder
  <2> QED BY <1>0, <1>a, <2>1, <2>2 DEF TypeOK, OneUserPerToken
<1> QED BY <1>1, <1>2, <1>3, <1>4, <1>5, <1>6, <1>7, <1>8, <1>9, <1>10

\* A browser sends a request with the cookie it holds.
LEMMA SendStep ==
  ASSUME IInv, NEW r \in Requests,
         Send(r)
  PROVE  IInv'
<1> PICK b \in Browsers, k \in Kinds, id \in Identity :
      /\ pc[r] = "unsent" /\ pc' = [pc EXCEPT ![r] = "load"]
      /\ k \in {"login", "forgot"} => id.user # NoUser
      /\ k = "confirm" => id \in links
      /\ input' = [input EXCEPT ![r] = [browser |-> b, kind |-> k,
                                        token |-> cookie[b], subject |-> id]]
  BY DEF Send
<1> USE ConstantsAssumption DEF IInv, Send
<1>0. /\ k \in AllKinds
      /\ k \in {"login", "forgot", "confirm"} => id.user \in Users
  BY ConstantsAssumption DEF TypeOK, HashesInForce
<1>a. /\ input'[r] = [browser |-> b, kind |-> k, token |-> cookie[b],
                      subject |-> id]
      /\ \A q \in Requests : q # r => input'[q] = input[q]
      /\ session[r] = NewSession /\ current[r].user = NoUser
      /\ checked[r].user = NoUser
  BY DEF TypeOK, RevokedStaysRevoked
<1>b. /\ b \in Browsers /\ cookie[b] # NoToken => holder[cookie[b]] = b
      /\ setCookie[r] \notin Tokens
  BY <1>0, <1>a DEF TokensWithTheirHolder, RequestTokens
<1>1. TypeOK'
  BY <1>0, <1>a DEF TypeOK
<1>2. TokensWithTheirHolder'
  <2>1. \A c \in Browsers : cookie'[c] # NoToken => holder'[cookie'[c]] = c
    BY <1>0, <1>a DEF TypeOK, TokensWithTheirHolder, RequestTokens
  <2>2. \A v \in stored' : holder'[v] \in Browsers
    BY <1>0, <1>a DEF TypeOK, TokensWithTheirHolder
  <2>3. ASSUME NEW q \in Requests PROVE RequestTokens(q)'
    <3>0. RequestTokens(q)
      BY DEF TokensWithTheirHolder
    <3>1. CASE q # r
      BY <1>0, <1>a, <3>0, <3>1 DEF TypeOK, RequestTokens
    <3>2. CASE q = r
      BY <1>0, <1>a, <1>b, <3>0, <3>2 DEF TypeOK, RequestTokens
    <3> QED BY <3>1, <3>2
  <2> QED BY <2>1, <2>2, <2>3 DEF TokensWithTheirHolder
<1>3. IdentitiesProved'
  BY <1>0, <1>a DEF TypeOK, TokensWithTheirHolder, RequestTokens,
     IdentitiesProved, RequestProved
<1>4. HashesInForce'
  BY <1>0, <1>a DEF TypeOK, HashesInForce
<1>5. RevokedStaysRevoked'
  BY <1>0, <1>a DEF TypeOK, HashesInForce, RevokedStaysRevoked
<1>6. ServedIdentityProved'
  BY <1>0, <1>a DEF TypeOK, IdentitiesProved, RequestProved,
     ServedIdentityProved
<1>7. RevocationHonoured'
  BY <1>0, <1>a DEF TypeOK, RevokedStaysRevoked, RevocationHonoured
<1>8. DeactivationHonoured'
  BY <1>0, <1>a DEF TypeOK, RevokedStaysRevoked, DeactivationHonoured
<1>9. LinkNotReplayed'
  BY <1>0, <1>a DEF TypeOK, HashesInForce, RevokedStaysRevoked,
     LinkNotReplayed
<1>10. OneUserPerToken'
  BY <1>0, <1>a DEF TypeOK, TokensWithTheirHolder, RequestTokens,
     OneUserPerToken
<1> QED BY <1>1, <1>2, <1>3, <1>4, <1>5, <1>6, <1>7, <1>8, <1>9, <1>10

\* The session of a request is loaded by the token of its cookie.
LEMMA LoadStep ==
  ASSUME IInv, NEW r \in Requests,
         Load(r)
  PROVE  IInv'
<1> USE ConstantsAssumption DEF IInv, Load
<1> DEFINE t == input[r].token
<1>0. /\ pc' = [pc EXCEPT ![r] = "identify"] /\ pc[r] = "load"
      /\ \A q \in Requests : q # r => session'[q] = session[q]
      /\ \/ t \notin stored /\ session'[r] = NewSession
         \/ /\ t \in stored /\ t \in Tokens /\ t # NoToken
            /\ session'[r].token = t
            /\ session'[r].user = row[t].user
            /\ session'[r].hash = row[t].hash
      /\ session[r] = NewSession /\ current[r].user = NoUser
  BY DEF TypeOK, RevokedStaysRevoked
<1>a. t \in stored /\ row[t].user # NoUser =>
        <<input[r].browser, row[t].user, row[t].hash>> \in proved
  <2>1. t \in stored => holder[t] = input[r].browser
    BY DEF TypeOK, TokensWithTheirHolder, RequestTokens
  <2> QED BY <2>1 DEF IdentitiesProved
<1>1. TypeOK'
  BY <1>0 DEF TypeOK
<1>2. TokensWithTheirHolder'
  BY <1>0 DEF TypeOK, TokensWithTheirHolder, RequestTokens
<1>3. IdentitiesProved'
  <2>1. \A k \in stored' : row'[k].user # NoUser =>
          <<holder'[k], row'[k].user, row'[k].hash>> \in proved'
    BY <1>0 DEF TypeOK, TokensWithTheirHolder, RequestTokens,
         IdentitiesProved, RequestProved
  <2>2. ASSUME NEW q \in Requests PROVE RequestProved(q)'
    <3>0. RequestProved(q)
      BY DEF IdentitiesProved
    <3>1. CASE q # r
      BY <1>0, <3>0, <3>1 DEF TypeOK, RequestProved
    <3>2. CASE q = r
      <4>1. session'[q].user # NoUser =>
              <<input'[q].browser, session'[q].user, session'[q].hash>>
                \in proved'
        BY <1>0, <1>a, <3>2
      <4>2. pc'[q] \in {"signin", "cycle"} =>
              <<input'[q].browser, checked'[q].user, checked'[q].hash>>
                \in proved'
        BY <1>0, <3>0, <3>2 DEF TypeOK, RequestProved
      <4>3. /\ pc'[q] = "save" => checked'[q].user \in Users
            /\ \/ input'[q].kind \notin {"login", "forgot", "confirm"}
               \/ input'[q].subject.user \in Users
        BY <1>0, <3>0, <3>2 DEF TypeOK, RequestProved
      <4> QED BY <4>1, <4>2, <4>3 DEF RequestProved
    <3> QED BY <3>1, <3>2
  <2> QED BY <2>1, <2>2 DEF IdentitiesProved
<1>4. HashesInForce'
  BY <1>0 DEF TypeOK, HashesInForce
<1>5. RevokedStaysRevoked'
  BY <1>0 DEF TypeOK, HashesInForce, RevokedStaysRevoked
<1>6. ServedIdentityProved'
  BY <1>0 DEF TypeOK, IdentitiesProved, RequestProved, ServedIdentityProved
<1>7. RevocationHonoured'
  BY <1>0 DEF TypeOK, RevokedStaysRevoked, RevocationHonoured
<1>8. DeactivationHonoured'
  BY <1>0 DEF TypeOK, RevokedStaysRevoked, DeactivationHonoured
<1>9. LinkNotReplayed'
  BY <1>0 DEF TypeOK, HashesInForce, RevokedStaysRevoked,
     LinkNotReplayed
<1>10. OneUserPerToken'
  BY <1>0 DEF TypeOK, TokensWithTheirHolder, RequestTokens,
       OneUserPerToken
<1> QED BY <1>1, <1>2, <1>3, <1>4, <1>5, <1>6, <1>7, <1>8, <1>9, <1>10

\* The authentication middleware admits the user of a session.
LEMMA AdmitStep ==
  ASSUME IInv, NEW r \in Requests,
         Admit(r)
  PROVE  IInv'
<1> USE ConstantsAssumption DEF IInv, Admit, Valid
<1> DEFINE u == session[r].user
<1>0. /\ u \in Users /\ hash[u] \in Hashes /\ session[r].hash = hash[u] /\ active[u]
      /\ current' = [current EXCEPT ![r] = [user |-> u, hash |-> hash[u]]]
      /\ pc[r] = "identify" /\ pc' = [pc EXCEPT ![r] = "handle"]
  BY DEF TypeOK
<1>a. hash[u] \notin stale[r] /\ u \notin barred[r]
  BY <1>0 DEF TypeOK, HashesInForce, RevokedStaysRevoked
<1>1. TypeOK'
  BY <1>0, <1>a DEF TypeOK
<1>2. TokensWithTheirHolder'
  BY <1>0, <1>a DEF TypeOK, TokensWithTheirHolder, RequestTokens
<1>3. IdentitiesProved'
  BY <1>0, <1>a DEF TypeOK, TokensWithTheirHolder, RequestTokens,
     IdentitiesProved, RequestProved
<1>4. HashesInForce'
  BY <1>0, <1>a DEF TypeOK, HashesInForce
<1>5. RevokedStaysRevoked'
  BY <1>0, <1>a DEF TypeOK, HashesInForce, RevokedStaysRevoked
<1>6. ServedIdentityProved'
  <2>1. <<input[r].browser, u, hash[u]>> \in proved
    BY <1>0 DEF IdentitiesProved, RequestProved
  <2>2. /\ current'[r] = [user |-> u, hash |-> hash[u]]
        /\ \A q \in Requests : q # r => current'[q] = current[q]
    BY <1>0 DEF TypeOK
  <2> QED BY <1>0, <2>1, <2>2 DEF ServedIdentityProved
<1>7. RevocationHonoured'
  BY <1>0, <1>a DEF TypeOK, RevokedStaysRevoked, RevocationHonoured
<1>8. DeactivationHonoured'
  BY <1>0, <1>a DEF TypeOK, RevokedStaysRevoked, DeactivationHonoured
<1>9. LinkNotReplayed'
  BY <1>0, <1>a DEF TypeOK, HashesInForce, RevokedStaysRevoked,
     LinkNotReplayed
<1>10. OneUserPerToken'
  BY <1>0, <1>a DEF TypeOK, TokensWithTheirHolder, RequestTokens,
     OneUserPerToken
<1> QED BY <1>1, <1>2, <1>3, <1>4, <1>5, <1>6, <1>7, <1>8, <1>9, <1>10

\* A step that only moves a request on before its handler runs.
LEMMA MoveStep ==
  ASSUME IInv, NEW r \in Requests,
         \/ pc[r] = "identify" /\ pc' = [pc EXCEPT ![r] = "handle"]
         \/ pc[r] = "identify" /\ pc' = [pc EXCEPT ![r] = "drop"]
         \/ pc[r] = "drop" /\ pc' = [pc EXCEPT ![r] = "handle"],
         faults' \in Nat,
         UNCHANGED <<db, world, input, session, current, checked, setCookie,
                     holder, usedHashes, adminActs, history>>
  PROVE  IInv'
<1> USE ConstantsAssumption DEF IInv
<1>1. TypeOK'
  BY DEF TypeOK
<1>2. TokensWithTheirHolder'
  BY DEF TypeOK, TokensWithTheirHolder, RequestTokens
<1>3. IdentitiesProved'
  BY DEF TypeOK, TokensWithTheirHolder, RequestTokens, IdentitiesProved,
     RequestProved
<1>4. HashesInForce'
  BY DEF TypeOK, HashesInForce
<1>5. RevokedStaysRevoked'
  BY DEF TypeOK, HashesInForce, RevokedStaysRevoked
<1>6. ServedIdentityProved'
  BY DEF TypeOK, IdentitiesProved, RequestProved, ServedIdentityProved
<1>7. RevocationHonoured'
  BY DEF TypeOK, RevokedStaysRevoked, RevocationHonoured
<1>8. DeactivationHonoured'
  BY DEF TypeOK, RevokedStaysRevoked, DeactivationHonoured
<1>9. LinkNotReplayed'
  BY DEF TypeOK, HashesInForce, RevokedStaysRevoked,
     LinkNotReplayed
<1>10. OneUserPerToken'
  BY DEF TypeOK, TokensWithTheirHolder, RequestTokens,
       OneUserPerToken
<1> QED BY <1>1, <1>2, <1>3, <1>4, <1>5, <1>6, <1>7, <1>8, <1>9, <1>10

\* A page that may store a value of its own.
LEMMA ViewStep ==
  ASSUME IInv, NEW r \in Requests,
         View(r)
  PROVE  IInv'
<1> USE ConstantsAssumption DEF IInv
<1> PICK status \in Status :
      session' = [session EXCEPT ![r].status = status]
  BY DEF View, TypeOK
<1> USE DEF View
<1> DEFINE s == [session[r] EXCEPT !.status = status]
           SessionData == [token : Tokens \cup {NoToken}, status : Status,
                           user : Users \cup {NoUser}, hash : Hashes \cup {NoHash}]
<1>t. session' \in [Requests -> SessionData]
  <2>1. session \in [Requests -> SessionData]
    BY DEF TypeOK
  <2>2. s \in SessionData
    BY <2>1
  <2>3. session' = [session EXCEPT ![r] = s]
    OBVIOUS
  <2> HIDE DEF s, SessionData
  <2> QED BY <2>1, <2>2, <2>3
<1>0. \A q \in Requests : /\ session'[q].token = session[q].token
                          /\ session'[q].user = session[q].user
                          /\ session'[q].hash = session[q].hash
  BY DEF TypeOK
<1>1. TypeOK'
  BY <1>t DEF TypeOK
<1>2. TokensWithTheirHolder'
  BY <1>0 DEF TypeOK, TokensWithTheirHolder, RequestTokens
<1>3. IdentitiesProved'
  BY <1>0 DEF TypeOK, TokensWithTheirHolder, RequestTokens, IdentitiesProved,
     RequestProved
<1>4. HashesInForce'
  BY <1>0 DEF TypeOK, HashesInForce
<1>5. RevokedStaysRevoked'
  BY <1>0 DEF TypeOK, HashesInForce, RevokedStaysRevoked
<1>6. ServedIdentityProved'
  BY <1>0 DEF TypeOK, IdentitiesProved, RequestProved, ServedIdentityProved
<1>7. RevocationHonoured'
  BY <1>0 DEF TypeOK, RevokedStaysRevoked, RevocationHonoured
<1>8. DeactivationHonoured'
  BY <1>0 DEF TypeOK, RevokedStaysRevoked, DeactivationHonoured
<1>9. LinkNotReplayed'
  BY <1>0 DEF TypeOK, HashesInForce, RevokedStaysRevoked,
     LinkNotReplayed
<1>10. OneUserPerToken'
  BY <1>0 DEF TypeOK, TokensWithTheirHolder, RequestTokens,
       OneUserPerToken
<1> QED BY <1>1, <1>2, <1>3, <1>4, <1>5, <1>6, <1>7, <1>8, <1>9, <1>10

\* A login as another user than the one of the session.
LEMMA SwitchUserStep ==
  ASSUME IInv, NEW r \in Requests,
         SwitchUser(r)
  PROVE  IInv'
<1> USE ConstantsAssumption DEF IInv, SwitchUser
<1>0. /\ checked[r] \in Identity /\ checked[r].user \in Users
      /\ input[r].browser \in Browsers
  BY DEF TypeOK, TokensWithTheirHolder, RequestTokens, IdentitiesProved,
         RequestProved
<1>1. TypeOK'
  BY <1>0 DEF TypeOK
<1>2. TokensWithTheirHolder'
  BY <1>0 DEF TypeOK, TokensWithTheirHolder, RequestTokens
<1>3. IdentitiesProved'
  <2>1. \A k \in stored' : row'[k].user # NoUser =>
          <<holder'[k], row'[k].user, row'[k].hash>> \in proved'
    BY <1>0 DEF TypeOK, TokensWithTheirHolder, RequestTokens,
         IdentitiesProved, RequestProved
  <2>2. ASSUME NEW q \in Requests PROVE RequestProved(q)'
    <3>0. RequestProved(q)
      BY DEF IdentitiesProved
    <3>1. CASE q # r
      BY <1>0, <3>0, <3>1 DEF TypeOK, RequestProved
    <3>2. CASE q = r
      <4>1. session'[q].user # NoUser =>
              <<input'[q].browser, session'[q].user, session'[q].hash>>
                \in proved'
        BY <1>0, <3>0, <3>2 DEF TypeOK, RequestProved
      <4>2. pc'[q] \in {"signin", "cycle"} =>
              <<input'[q].browser, checked'[q].user, checked'[q].hash>>
                \in proved'
        BY <1>0, <3>0, <3>2 DEF TypeOK, RequestProved
      <4>3. /\ pc'[q] = "save" => checked'[q].user \in Users
            /\ \/ input'[q].kind \notin {"login", "forgot", "confirm"}
               \/ input'[q].subject.user \in Users
        BY <1>0, <3>0, <3>2 DEF TypeOK, RequestProved
      <4> QED BY <4>1, <4>2, <4>3 DEF RequestProved
    <3> QED BY <3>1, <3>2
  <2> QED BY <2>1, <2>2 DEF IdentitiesProved
<1>4. HashesInForce'
  BY <1>0 DEF TypeOK, HashesInForce
<1>5. RevokedStaysRevoked'
  BY <1>0 DEF TypeOK, HashesInForce, RevokedStaysRevoked
<1>6. ServedIdentityProved'
  BY <1>0 DEF TypeOK, IdentitiesProved, RequestProved, ServedIdentityProved
<1>7. RevocationHonoured'
  BY <1>0 DEF TypeOK, RevokedStaysRevoked, RevocationHonoured
<1>8. DeactivationHonoured'
  BY <1>0 DEF TypeOK, RevokedStaysRevoked, DeactivationHonoured
<1>9. LinkNotReplayed'
  BY <1>0 DEF TypeOK, HashesInForce, RevokedStaysRevoked,
     LinkNotReplayed
<1>10. OneUserPerToken'
  BY <1>0 DEF TypeOK, TokensWithTheirHolder, RequestTokens,
       OneUserPerToken
<1> QED BY <1>1, <1>2, <1>3, <1>4, <1>5, <1>6, <1>7, <1>8, <1>9, <1>10

\* A login as the user of the session, which keeps its token.
LEMMA SignInAgainStep ==
  ASSUME IInv, NEW r \in Requests,
         SignInAgain(r)
  PROVE  IInv'
<1> USE ConstantsAssumption DEF IInv, SignInAgain
<1>0. /\ checked[r] \in Identity
      /\ input[r].browser \in Browsers
      /\ session[r].token \in Tokens \cup {NoToken}
  BY DEF TypeOK, TokensWithTheirHolder, RequestTokens, IdentitiesProved,
         RequestProved
<1>1. TypeOK'
  BY <1>0 DEF TypeOK
<1>2. TokensWithTheirHolder'
  BY <1>0 DEF TypeOK, TokensWithTheirHolder, RequestTokens
<1>3. IdentitiesProved'
  <2>1. \A k \in stored' : row'[k].user # NoUser =>
          <<holder'[k], row'[k].user, row'[k].hash>> \in proved'
    BY <1>0 DEF TypeOK, TokensWithTheirHolder, RequestTokens,
         IdentitiesProved, RequestProved
  <2>2. ASSUME NEW q \in Requests PROVE RequestProved(q)'
    <3>0. RequestProved(q)
      BY DEF IdentitiesProved
    <3>1. CASE q # r
      BY <1>0, <3>0, <3>1 DEF TypeOK, RequestProved
    <3>2. CASE q = r
      <4>1. session'[q].user # NoUser =>
              <<input'[q].browser, session'[q].user, session'[q].hash>>
                \in proved'
        BY <1>0, <3>0, <3>2 DEF TypeOK, RequestProved
      <4>2. pc'[q] \in {"signin", "cycle"} =>
              <<input'[q].browser, checked'[q].user, checked'[q].hash>>
                \in proved'
        BY <1>0, <3>0, <3>2 DEF TypeOK, RequestProved
      <4>3. /\ pc'[q] = "save" => checked'[q].user \in Users
            /\ \/ input'[q].kind \notin {"login", "forgot", "confirm"}
               \/ input'[q].subject.user \in Users
        BY <1>0, <3>0, <3>2 DEF TypeOK, RequestProved
      <4> QED BY <4>1, <4>2, <4>3 DEF RequestProved
    <3> QED BY <3>1, <3>2
  <2> QED BY <2>1, <2>2 DEF IdentitiesProved
<1>4. HashesInForce'
  BY <1>0 DEF TypeOK, HashesInForce
<1>5. RevokedStaysRevoked'
  BY <1>0 DEF TypeOK, HashesInForce, RevokedStaysRevoked
<1>6. ServedIdentityProved'
  BY <1>0 DEF TypeOK, IdentitiesProved, RequestProved, ServedIdentityProved
<1>7. RevocationHonoured'
  BY <1>0 DEF TypeOK, RevokedStaysRevoked, RevocationHonoured
<1>8. DeactivationHonoured'
  BY <1>0 DEF TypeOK, RevokedStaysRevoked, DeactivationHonoured
<1>9. LinkNotReplayed'
  BY <1>0 DEF TypeOK, HashesInForce, RevokedStaysRevoked,
     LinkNotReplayed
<1>10. OneUserPerToken'
  BY <1>0 DEF TypeOK, TokensWithTheirHolder, RequestTokens,
       OneUserPerToken
<1> QED BY <1>1, <1>2, <1>3, <1>4, <1>5, <1>6, <1>7, <1>8, <1>9, <1>10

\* A reset link that still matches the account.
LEMMA LinkAcceptedStep ==
  ASSUME IInv, NEW r \in Requests,
         LinkAccepted(r)
  PROVE  IInv'
<1> USE ConstantsAssumption DEF IInv
<1> DEFINE id == input[r].subject
<1>0. /\ id \in Identity /\ id.user \in Users /\ id.hash = hash[id.user]
      /\ pc[r] = "handle" /\ input[r].kind = "confirm"
      /\ pc' = [pc EXCEPT ![r] = "save"]
      /\ checked' = [checked EXCEPT ![r] = id]
      /\ UNCHANGED <<db, world, input, session, current, setCookie, holder,
                     usedHashes, faults, adminActs, history>>
  BY DEF LinkAccepted, TypeOK, IdentitiesProved, RequestProved
<1>a. id.hash \notin stale[r]
  BY <1>0 DEF TypeOK, HashesInForce, RevokedStaysRevoked
<1>1. TypeOK'
  BY <1>0, <1>a DEF TypeOK
<1>2. TokensWithTheirHolder'
  BY <1>0, <1>a DEF TypeOK, TokensWithTheirHolder, RequestTokens
<1>3. IdentitiesProved'
  BY <1>0, <1>a DEF TypeOK, TokensWithTheirHolder, RequestTokens,
     IdentitiesProved, RequestProved
<1>4. HashesInForce'
  BY <1>0, <1>a DEF TypeOK, HashesInForce
<1>5. RevokedStaysRevoked'
  BY <1>0, <1>a DEF TypeOK, HashesInForce, RevokedStaysRevoked
<1>6. ServedIdentityProved'
  BY <1>0, <1>a DEF TypeOK, IdentitiesProved, RequestProved,
     ServedIdentityProved
<1>7. RevocationHonoured'
  BY <1>0, <1>a DEF TypeOK, RevokedStaysRevoked, RevocationHonoured
<1>8. DeactivationHonoured'
  BY <1>0, <1>a DEF TypeOK, RevokedStaysRevoked, DeactivationHonoured
<1>9. LinkNotReplayed'
  BY <1>0, <1>a DEF TypeOK, HashesInForce, RevokedStaysRevoked,
     LinkNotReplayed
<1>10. OneUserPerToken'
  BY <1>0, <1>a DEF TypeOK, TokensWithTheirHolder, RequestTokens,
     OneUserPerToken
<1> QED BY <1>1, <1>2, <1>3, <1>4, <1>5, <1>6, <1>7, <1>8, <1>9, <1>10

\* A password change or a reset writes the new hash.
LEMMA SaveStep ==
  ASSUME IInv, NEW r \in Requests,
         Save(r)
  PROVE  IInv'
<1> USE ConstantsAssumption DEF IInv
<1> DEFINE u == checked[r].user
<1> PICK h \in Hashes : h \notin usedHashes /\ hash' = [hash EXCEPT ![u] = h]
      /\ checked' = [checked EXCEPT ![r] = [user |-> u, hash |-> h]]
      /\ usedHashes' = usedHashes \cup {h}
      /\ superseded' = superseded \cup {hash[u]}
      /\ proved' = proved \cup {<<input[r].browser, u, h>>}
      /\ pc[r] = "save"
      /\ pc' = [pc EXCEPT ![r] = IF input[r].kind = "change"
                                  THEN "cycle" ELSE "commit"]
  BY DEF Save, SetPassword
<1>0. /\ UNCHANGED <<active, stored, row, world, input, session, current,
                     setCookie, holder, faults, adminActs, stale, barred>>
  BY DEF Save
<1>a. /\ u \in Users /\ hash[u] \in Hashes /\ input[r].browser \in Browsers
  BY DEF TypeOK, TokensWithTheirHolder, RequestTokens, IdentitiesProved,
         RequestProved
<1>b. /\ hash'[u] = h /\ \A v \in Users : v # u => hash'[v] = hash[v]
      /\ checked'[r] = [user |-> u, hash |-> h]
      /\ \A q \in Requests : q # r => checked'[q] = checked[q]
      /\ checked' \in [Requests -> Identity]
  BY <1>a DEF TypeOK
<1>1. TypeOK'
  BY <1>0, <1>a, <1>b DEF TypeOK
<1>2. TokensWithTheirHolder'
  BY <1>0, <1>a, <1>b DEF TypeOK, TokensWithTheirHolder, RequestTokens
<1>3. IdentitiesProved'
  <2>1. \A k \in stored' : row'[k].user # NoUser =>
          <<holder'[k], row'[k].user, row'[k].hash>> \in proved'
    BY <1>0, <1>a, <1>b DEF TypeOK, TokensWithTheirHolder, RequestTokens,
         IdentitiesProved, RequestProved
  <2>2. ASSUME NEW q \in Requests PROVE RequestProved(q)'
    <3>0. RequestProved(q)
      BY DEF IdentitiesProved
    <3>1. CASE q # r
      BY <1>0, <1>a, <1>b, <3>0, <3>1 DEF TypeOK, RequestProved
    <3>2. CASE q = r
      <4>1. session'[q].user # NoUser =>
              <<input'[q].browser, session'[q].user, session'[q].hash>>
                \in proved'
        BY <1>0, <1>a, <1>b, <3>0, <3>2 DEF TypeOK, RequestProved
      <4>2. pc'[q] \in {"signin", "cycle"} =>
              <<input'[q].browser, checked'[q].user, checked'[q].hash>>
                \in proved'
        BY <1>0, <1>a, <1>b, <3>0, <3>2 DEF TypeOK, RequestProved
      <4>3. /\ pc'[q] = "save" => checked'[q].user \in Users
            /\ \/ input'[q].kind \notin {"login", "forgot", "confirm"}
               \/ input'[q].subject.user \in Users
        BY <1>0, <1>a, <1>b, <3>0, <3>2 DEF TypeOK, RequestProved
      <4> QED BY <4>1, <4>2, <4>3 DEF RequestProved
    <3> QED BY <3>1, <3>2
  <2> QED BY <2>1, <2>2 DEF IdentitiesProved
<1>4. HashesInForce'
  BY <1>0, <1>a, <1>b DEF TypeOK, HashesInForce
<1>5. RevokedStaysRevoked'
  BY <1>0, <1>a, <1>b DEF TypeOK, HashesInForce, RevokedStaysRevoked
<1>6. ServedIdentityProved'
  BY <1>0, <1>a, <1>b DEF TypeOK, IdentitiesProved, RequestProved,
     ServedIdentityProved
<1>7. RevocationHonoured'
  BY <1>0, <1>a, <1>b DEF TypeOK, RevokedStaysRevoked, RevocationHonoured
<1>8. DeactivationHonoured'
  BY <1>0, <1>a, <1>b DEF TypeOK, RevokedStaysRevoked, DeactivationHonoured
<1>9. LinkNotReplayed'
  BY <1>0, <1>a, <1>b DEF TypeOK, HashesInForce, RevokedStaysRevoked,
     LinkNotReplayed
<1>10. OneUserPerToken'
  BY <1>0, <1>a, <1>b DEF TypeOK, TokensWithTheirHolder, RequestTokens,
     OneUserPerToken
<1> QED BY <1>1, <1>2, <1>3, <1>4, <1>5, <1>6, <1>7, <1>8, <1>9, <1>10

\* A reset link is mailed.
LEMMA MailLinkStep ==
  ASSUME IInv, NEW r \in Requests,
         MailLink(r)
  PROVE  IInv'
<1> USE ConstantsAssumption DEF IInv
<1> DEFINE u == input[r].subject.user
<1>0. /\ u \in Users /\ hash[u] \in Hashes
      /\ links' = links \cup {[user |-> u, hash |-> hash[u]]}
      /\ pc[r] = "handle" /\ pc' = [pc EXCEPT ![r] = "commit"]
      /\ UNCHANGED <<db, cookie, input, session, current, checked, setCookie,
                     holder, usedHashes, faults, adminActs, history>>
  BY DEF MailLink, TypeOK, IdentitiesProved, RequestProved
<1>1. TypeOK'
  BY <1>0 DEF TypeOK
<1>2. TokensWithTheirHolder'
  BY <1>0 DEF TypeOK, TokensWithTheirHolder, RequestTokens
<1>3. IdentitiesProved'
  BY <1>0 DEF TypeOK, TokensWithTheirHolder, RequestTokens, IdentitiesProved,
     RequestProved
<1>4. HashesInForce'
  BY <1>0 DEF TypeOK, HashesInForce
<1>5. RevokedStaysRevoked'
  BY <1>0 DEF TypeOK, HashesInForce, RevokedStaysRevoked
<1>6. ServedIdentityProved'
  BY <1>0 DEF TypeOK, IdentitiesProved, RequestProved, ServedIdentityProved
<1>7. RevocationHonoured'
  BY <1>0 DEF TypeOK, RevokedStaysRevoked, RevocationHonoured
<1>8. DeactivationHonoured'
  BY <1>0 DEF TypeOK, RevokedStaysRevoked, DeactivationHonoured
<1>9. LinkNotReplayed'
  BY <1>0 DEF TypeOK, HashesInForce, RevokedStaysRevoked,
     LinkNotReplayed
<1>10. OneUserPerToken'
  BY <1>0 DEF TypeOK, TokensWithTheirHolder, RequestTokens,
       OneUserPerToken
<1> QED BY <1>1, <1>2, <1>3, <1>4, <1>5, <1>6, <1>7, <1>8, <1>9, <1>10

\* A modified session is upserted.
LEMMA CommitModifiedStep ==
  ASSUME IInv, NEW r \in Requests,
         CommitModified(r)
  PROVE  IInv'
<1> USE ConstantsAssumption DEF IInv
<1> PICK t \in Tokens :
      /\ \/ session[r].token = NoToken /\ holder[t] = NoBrowser
         \/ session[r].token = t
      /\ stored' = stored \cup {t}
      /\ row' = [row EXCEPT ![t] = Data(session[r])]
      /\ holder' = [holder EXCEPT ![t] = input[r].browser]
      /\ setCookie' = [setCookie EXCEPT ![r] = t]
  BY DEF CommitModified, TypeOK, Unissued
<1>0. /\ pc[r] = "commit" /\ pc' = [pc EXCEPT ![r] = "reply"]
      /\ UNCHANGED <<hash, active, world, input, session, current, checked,
                     usedHashes, faults, adminActs, history>>
      /\ t # NoToken /\ input[r].browser \in Browsers
  BY DEF CommitModified, TypeOK, TokensWithTheirHolder, RequestTokens
<1>h. /\ holder'[t] = input[r].browser
      /\ \A v \in Tokens : holder[v] \in Browsers => holder'[v] = holder[v]
  <2>1. RequestTokens(r)
    BY DEF TokensWithTheirHolder
  <2>2. session[r].token = t => holder[t] = input[r].browser
    BY <1>0, <2>1 DEF RequestTokens
  <2> QED BY <1>0, <2>2, ConstantsAssumption DEF TypeOK
<1>a. /\ Data(session[r]) \in Identity
      /\ row'[t] = Data(session[r])
      /\ \A v \in Tokens : v # t => row'[v] = row[v]
  BY DEF TypeOK
<1>1. TypeOK'
  BY <1>0, <1>a, <1>h DEF TypeOK
<1>2. TokensWithTheirHolder'
  <2>1. \A b \in Browsers : cookie'[b] # NoToken => holder'[cookie'[b]] = b
    BY <1>0, <1>a, <1>h DEF TypeOK, TokensWithTheirHolder, RequestTokens
  <2>2. \A k \in stored' : holder'[k] \in Browsers
    BY <1>0, <1>a, <1>h DEF TypeOK, TokensWithTheirHolder
  <2>3. ASSUME NEW q \in Requests PROVE RequestTokens(q)'
    <3>0. RequestTokens(q)
      BY DEF TokensWithTheirHolder
    <3>1. CASE q # r
      BY <1>0, <1>a, <1>h, <3>0, <3>1 DEF TypeOK, RequestTokens
    <3>2. CASE q = r
      BY <1>0, <1>a, <1>h, <3>0, <3>2 DEF TypeOK, RequestTokens,
         TokensWithTheirHolder
    <3> QED BY <3>1, <3>2
  <2> QED BY <2>1, <2>2, <2>3 DEF TokensWithTheirHolder
<1>3. IdentitiesProved'
  <2>1. ASSUME NEW k \in stored', row'[k].user # NoUser
        PROVE  <<holder'[k], row'[k].user, row'[k].hash>> \in proved'
    <3>1. CASE k = t
      <4>1. session[r].user # NoUser =>
              <<input[r].browser, session[r].user, session[r].hash>> \in proved
        BY DEF IdentitiesProved, RequestProved
      <4> QED BY <1>0, <1>a, <1>h, <2>1, <3>1, <4>1
    <3>2. CASE k # t
      <4>1. k \in stored /\ k \in Tokens /\ row'[k] = row[k]
        BY <1>a, <2>1, <3>2 DEF TypeOK
      <4>2. holder'[k] = holder[k] /\ row[k].user # NoUser
        BY <1>h, <2>1, <4>1 DEF TokensWithTheirHolder
      <4> QED BY <1>0, <4>1, <4>2 DEF IdentitiesProved
    <3> QED BY <3>1, <3>2
  <2>2. ASSUME NEW q \in Requests PROVE RequestProved(q)'
    <3>0. RequestProved(q)
      BY DEF IdentitiesProved
    <3>1. CASE q # r
      BY <1>0, <1>a, <1>h, <3>0, <3>1 DEF TypeOK, RequestProved
    <3>2. CASE q = r
      <4>1. session'[q].user # NoUser =>
              <<input'[q].browser, session'[q].user, session'[q].hash>>
                \in proved'
        BY <1>0, <1>a, <1>h, <3>0, <3>2 DEF TypeOK, RequestProved
      <4>2. pc'[q] \in {"signin", "cycle"} =>
              <<input'[q].browser, checked'[q].user, checked'[q].hash>>
                \in proved'
        BY <1>0, <1>a, <1>h, <3>0, <3>2 DEF TypeOK, RequestProved
      <4>3. /\ pc'[q] = "save" => checked'[q].user \in Users
            /\ \/ input'[q].kind \notin {"login", "forgot", "confirm"}
               \/ input'[q].subject.user \in Users
        BY <1>0, <1>a, <1>h, <3>0, <3>2 DEF TypeOK, RequestProved
      <4> QED BY <4>1, <4>2, <4>3 DEF RequestProved
    <3> QED BY <3>1, <3>2
  <2> QED BY <2>1, <2>2 DEF IdentitiesProved
<1>4. HashesInForce'
  BY <1>0, <1>a, <1>h DEF TypeOK, HashesInForce
<1>5. RevokedStaysRevoked'
  BY <1>0, <1>a, <1>h DEF TypeOK, HashesInForce, RevokedStaysRevoked
<1>6. ServedIdentityProved'
  BY <1>0, <1>a, <1>h DEF TypeOK, IdentitiesProved, RequestProved,
     ServedIdentityProved
<1>7. RevocationHonoured'
  BY <1>0, <1>a, <1>h DEF TypeOK, RevokedStaysRevoked, RevocationHonoured
<1>8. DeactivationHonoured'
  BY <1>0, <1>a, <1>h DEF TypeOK, RevokedStaysRevoked, DeactivationHonoured
<1>9. LinkNotReplayed'
  BY <1>0, <1>a, <1>h DEF TypeOK, HashesInForce, RevokedStaysRevoked,
     LinkNotReplayed
<1>10. OneUserPerToken'
  <2>1. \A q \in Requests : Held(q) = t => session[q].user = session[r].user
    BY <1>0, <1>a, <1>h DEF TypeOK, TokensWithTheirHolder, RequestTokens,
       OneUserPerToken
  <2> QED BY <1>0, <1>a, <1>h, <2>1 DEF TypeOK, OneUserPerToken
<1> QED BY <1>1, <1>2, <1>3, <1>4, <1>5, <1>6, <1>7, <1>8, <1>9, <1>10

\* A destroyed session expires the cookie.
LEMMA CommitDestroyedStep ==
  ASSUME IInv, NEW r \in Requests,
         CommitDestroyed(r)
  PROVE  IInv'
<1> USE ConstantsAssumption DEF IInv, CommitDestroyed
<1>1. TypeOK'
  BY DEF TypeOK
<1>2. TokensWithTheirHolder'
  BY DEF TypeOK, TokensWithTheirHolder, RequestTokens
<1>3. IdentitiesProved'
  BY DEF TypeOK, TokensWithTheirHolder, RequestTokens, IdentitiesProved,
     RequestProved
<1>4. HashesInForce'
  BY DEF TypeOK, HashesInForce
<1>5. RevokedStaysRevoked'
  BY DEF TypeOK, HashesInForce, RevokedStaysRevoked
<1>6. ServedIdentityProved'
  BY DEF TypeOK, IdentitiesProved, RequestProved, ServedIdentityProved
<1>7. RevocationHonoured'
  BY DEF TypeOK, RevokedStaysRevoked, RevocationHonoured
<1>8. DeactivationHonoured'
  BY DEF TypeOK, RevokedStaysRevoked, DeactivationHonoured
<1>9. LinkNotReplayed'
  BY DEF TypeOK, HashesInForce, RevokedStaysRevoked,
     LinkNotReplayed
<1>10. OneUserPerToken'
  BY DEF TypeOK, TokensWithTheirHolder, RequestTokens,
       OneUserPerToken
<1> QED BY <1>1, <1>2, <1>3, <1>4, <1>5, <1>6, <1>7, <1>8, <1>9, <1>10

\* The response reaches its browser, or is lost.
LEMMA ReceiveStep ==
  ASSUME IInv, NEW r \in Requests,
         Receive(r)
  PROVE  IInv'
<1> USE ConstantsAssumption DEF IInv
<1> DEFINE b == input[r].browser
<1>0. /\ pc[r] = "reply" /\ pc' = [pc EXCEPT ![r] = "done"]
      /\ \/ cookie' = cookie
         \/ setCookie[r] # Keep /\ cookie' = [cookie EXCEPT ![b] = setCookie[r]]
      /\ session' = [session EXCEPT ![r] = NewSession]
      /\ current' = [current EXCEPT ![r] = Anonymous]
      /\ checked' = [checked EXCEPT ![r] = Anonymous]
      /\ setCookie' = [setCookie EXCEPT ![r] = Keep]
      /\ stale' = [stale EXCEPT ![r] = {}]
      /\ barred' = [barred EXCEPT ![r] = {}]
      /\ UNCHANGED <<db, links, input, holder, usedHashes, faults, adminActs,
                     proved, superseded>>
      /\ b \in Browsers
  BY DEF Receive, TokensWithTheirHolder, RequestTokens
<1>a. /\ cookie' \in [Browsers -> Tokens \cup {NoToken}]
      /\ \A c \in Browsers : \/ cookie'[c] = cookie[c]
                            \/ /\ c = b /\ setCookie[r] # Keep
                               /\ cookie'[c] = setCookie[r]
  <2>1. CASE cookie' = cookie
    BY <2>1 DEF TypeOK
  <2>2. CASE setCookie[r] # Keep /\ cookie' = [cookie EXCEPT ![b] = setCookie[r]]
    BY <1>0, <2>2 DEF TypeOK
  <2> QED BY <1>0, <2>1, <2>2
<1>b. /\ setCookie'[r] \notin Tokens /\ session'[r] = NewSession
      /\ \A q \in Requests : q # r => /\ setCookie'[q] = setCookie[q]
                                       /\ session'[q] = session[q]
  BY <1>0, ConstantsAssumption DEF TypeOK
<1>1. TypeOK'
  BY <1>0, <1>a, <1>b DEF TypeOK
<1>2. TokensWithTheirHolder'
  <2>1. \A c \in Browsers : cookie'[c] # NoToken => holder'[cookie'[c]] = c
    BY <1>0, <1>a, <1>b DEF TypeOK, TokensWithTheirHolder, RequestTokens
  <2>2. \A k \in stored' : holder'[k] \in Browsers
    BY <1>0, <1>a, <1>b DEF TypeOK, TokensWithTheirHolder
  <2>3. ASSUME NEW q \in Requests PROVE RequestTokens(q)'
    <3>0. RequestTokens(q)
      BY DEF TokensWithTheirHolder
    <3>1. CASE q # r
      BY <1>0, <1>a, <1>b, <3>0, <3>1 DEF TypeOK, RequestTokens
    <3>2. CASE q = r
      BY <1>0, <1>a, <1>b, <3>0, <3>2 DEF TypeOK, RequestTokens,
         TokensWithTheirHolder
    <3> QED BY <3>1, <3>2
  <2> QED BY <2>1, <2>2, <2>3 DEF TokensWithTheirHolder
<1>3. IdentitiesProved'
  BY <1>0, <1>a, <1>b DEF TypeOK, TokensWithTheirHolder, RequestTokens,
     IdentitiesProved, RequestProved
<1>4. HashesInForce'
  BY <1>0, <1>a, <1>b DEF TypeOK, HashesInForce
<1>5. RevokedStaysRevoked'
  BY <1>0, <1>a, <1>b DEF TypeOK, HashesInForce, RevokedStaysRevoked
<1>6. ServedIdentityProved'
  BY <1>0, <1>a, <1>b DEF TypeOK, IdentitiesProved, RequestProved,
     ServedIdentityProved
<1>7. RevocationHonoured'
  BY <1>0, <1>a, <1>b DEF TypeOK, RevokedStaysRevoked, RevocationHonoured
<1>8. DeactivationHonoured'
  BY <1>0, <1>a, <1>b DEF TypeOK, RevokedStaysRevoked, DeactivationHonoured
<1>9. LinkNotReplayed'
  BY <1>0, <1>a, <1>b DEF TypeOK, HashesInForce, RevokedStaysRevoked,
     LinkNotReplayed
<1>10. OneUserPerToken'
  BY <1>0, <1>a, <1>b DEF TypeOK, TokensWithTheirHolder, RequestTokens,
     OneUserPerToken
<1> QED BY <1>1, <1>2, <1>3, <1>4, <1>5, <1>6, <1>7, <1>8, <1>9, <1>10

\* manage changepassword writes a new hash.
LEMMA ChangePasswordStep ==
  ASSUME IInv, NEW u \in Users,
         ChangePassword(u)
  PROVE  IInv'
<1> USE ConstantsAssumption DEF IInv
<1> PICK h \in Hashes : h \notin usedHashes /\ hash' = [hash EXCEPT ![u] = h]
      /\ usedHashes' = usedHashes \cup {h}
      /\ superseded' = superseded \cup {hash[u]}
  BY DEF ChangePassword, SetPassword
<1>0. /\ UNCHANGED <<active, stored, row, world, pc, input, session, current,
                     checked, setCookie, holder, faults, proved, stale,
                     barred>>
      /\ adminActs' \in Nat /\ hash[u] \in Hashes
      /\ hash'[u] = h /\ \A v \in Users : v # u => hash'[v] = hash[v]
  BY DEF ChangePassword, AdminAct, TypeOK
<1>1. TypeOK'
  BY <1>0 DEF TypeOK
<1>2. TokensWithTheirHolder'
  BY <1>0 DEF TypeOK, TokensWithTheirHolder, RequestTokens
<1>3. IdentitiesProved'
  BY <1>0 DEF TypeOK, TokensWithTheirHolder, RequestTokens, IdentitiesProved,
     RequestProved
<1>4. HashesInForce'
  BY <1>0 DEF TypeOK, HashesInForce
<1>5. RevokedStaysRevoked'
  BY <1>0 DEF TypeOK, HashesInForce, RevokedStaysRevoked
<1>6. ServedIdentityProved'
  BY <1>0 DEF TypeOK, IdentitiesProved, RequestProved, ServedIdentityProved
<1>7. RevocationHonoured'
  BY <1>0 DEF TypeOK, RevokedStaysRevoked, RevocationHonoured
<1>8. DeactivationHonoured'
  BY <1>0 DEF TypeOK, RevokedStaysRevoked, DeactivationHonoured
<1>9. LinkNotReplayed'
  BY <1>0 DEF TypeOK, HashesInForce, RevokedStaysRevoked,
     LinkNotReplayed
<1>10. OneUserPerToken'
  BY <1>0 DEF TypeOK, TokensWithTheirHolder, RequestTokens,
       OneUserPerToken
<1> QED BY <1>1, <1>2, <1>3, <1>4, <1>5, <1>6, <1>7, <1>8, <1>9, <1>10

\* An operator deactivates an account.
LEMMA DeactivateStep ==
  ASSUME IInv, NEW u \in Users,
         Deactivate(u)
  PROVE  IInv'
<1> USE ConstantsAssumption DEF IInv
<1>0. /\ UNCHANGED <<hash, stored, row, world, pc, input, session, current,
                     checked, setCookie, holder, usedHashes, faults, history>>
      /\ adminActs' \in Nat
      /\ active' = [active EXCEPT ![u] = FALSE]
  BY DEF Deactivate, AdminAct, TypeOK
<1>1. TypeOK'
  BY <1>0 DEF TypeOK
<1>2. TokensWithTheirHolder'
  BY <1>0 DEF TypeOK, TokensWithTheirHolder, RequestTokens
<1>3. IdentitiesProved'
  BY <1>0 DEF TypeOK, TokensWithTheirHolder, RequestTokens, IdentitiesProved,
     RequestProved
<1>4. HashesInForce'
  BY <1>0 DEF TypeOK, HashesInForce
<1>5. RevokedStaysRevoked'
  BY <1>0 DEF TypeOK, HashesInForce, RevokedStaysRevoked
<1>6. ServedIdentityProved'
  BY <1>0 DEF TypeOK, IdentitiesProved, RequestProved, ServedIdentityProved
<1>7. RevocationHonoured'
  BY <1>0 DEF TypeOK, RevokedStaysRevoked, RevocationHonoured
<1>8. DeactivationHonoured'
  BY <1>0 DEF TypeOK, RevokedStaysRevoked, DeactivationHonoured
<1>9. LinkNotReplayed'
  BY <1>0 DEF TypeOK, HashesInForce, RevokedStaysRevoked,
     LinkNotReplayed
<1>10. OneUserPerToken'
  BY <1>0 DEF TypeOK, TokensWithTheirHolder, RequestTokens,
       OneUserPerToken
<1> QED BY <1>1, <1>2, <1>3, <1>4, <1>5, <1>6, <1>7, <1>8, <1>9, <1>10

\* A step that changes nothing the invariant mentions.
LEMMA StutterStep ==
  ASSUME IInv, UNCHANGED vars
  PROVE  IInv'
<1> USE DEF IInv, vars
<1>1. TypeOK' /\ HashesInForce' /\ RevokedStaysRevoked'
  BY DEF TypeOK, HashesInForce, RevokedStaysRevoked
<1>2. TokensWithTheirHolder' /\ IdentitiesProved'
  BY DEF TokensWithTheirHolder, IdentitiesProved, RequestTokens, RequestProved
<1>3. ServedIdentityProved' /\ RevocationHonoured' /\ DeactivationHonoured'
  BY DEF ServedIdentityProved, RevocationHonoured, DeactivationHonoured
<1>4. LinkNotReplayed' /\ OneUserPerToken'
  BY DEF LinkNotReplayed, OneUserPerToken
<1> QED BY <1>1, <1>2, <1>3, <1>4

\* A site nobody has visited satisfies the invariant.
LEMMA InitInv == Init => IInv
<1> SUFFICES ASSUME Init PROVE IInv
  OBVIOUS
<1> USE ConstantsAssumption DEF Init
<1>1. TypeOK
  BY DEF TypeOK
<1>2. TokensWithTheirHolder /\ IdentitiesProved
  BY DEF TokensWithTheirHolder, IdentitiesProved, RequestTokens, RequestProved
<1>3. HashesInForce
  BY DEF HashesInForce
<1>4. RevokedStaysRevoked
  BY DEF RevokedStaysRevoked
<1>5. ServedIdentityProved /\ RevocationHonoured /\ DeactivationHonoured
  BY DEF ServedIdentityProved, RevocationHonoured, DeactivationHonoured
<1>6. LinkNotReplayed /\ OneUserPerToken
  BY DEF LinkNotReplayed, OneUserPerToken
<1> QED BY <1>1, <1>2, <1>3, <1>4, <1>5, <1>6 DEF IInv

\* Every step of one request preserves the invariant.
LEMMA RequestStep ==
  ASSUME IInv, NEW r \in Requests, Step(r)
  PROVE  IInv'
<1>f. faults + 1 \in Nat /\ faults \in Nat
  BY DEF IInv, TypeOK
<1>1. CASE Send(r)
  BY <1>1, SendStep
<1>2. CASE Load(r)
  BY <1>2, LoadStep
<1>3. CASE LoadFails(r) \/ IdentifyFails(r) \/ HandlerFails(r)
             \/ SignInFails(r) \/ SaveFails(r) \/ CycleFails(r) \/ CommitFails(r)
  BY <1>3, <1>f, QuietStep DEF LoadFails, IdentifyFails, HandlerFails,
     SignInFails, SaveFails, CycleFails, CommitFails, FaultTo
<1>4. CASE Refuse(r) \/ CommitUnmodified(r)
  BY <1>4, <1>f, QuietStep DEF Refuse, CommitUnmodified
<1>5. CASE Unidentified(r) \/ Reject(r)
  BY <1>5, <1>f, MoveStep DEF Unidentified, Reject
<1>6. CASE DropFails(r)
  BY <1>6, <1>f, MoveStep DEF DropFails, FaultTo
<1>7. CASE Admit(r)
  BY <1>7, AdmitStep
<1>8. CASE Drop(r)
  BY <1>8, DestroyStep DEF Drop
<1>9. CASE Logout(r)
  BY <1>9, DestroyStep DEF Logout
<1>10. CASE View(r)
  BY <1>10, ViewStep
<1>11. CASE LoginAccepted(r)
  <2>1. input[r].subject.user \in Users
    BY <1>11 DEF LoginAccepted, IInv, IdentitiesProved, RequestProved
  <2> QED BY <1>11, <2>1, AcceptStep DEF LoginAccepted
<1>12. CASE ChangeAccepted(r)
  <2>1. current[r].user \in Users
    BY <1>12 DEF ChangeAccepted, IInv, TypeOK
  <2> QED BY <1>12, <2>1, AcceptStep DEF ChangeAccepted
<1>13. CASE SwitchUser(r)
  BY <1>13, SwitchUserStep
<1>14. CASE SignIn(r)
  BY <1>14, RenewStep DEF SignIn
<1>15. CASE SignInAgain(r)
  BY <1>15, SignInAgainStep
<1>16. CASE LinkAccepted(r)
  BY <1>16, LinkAcceptedStep
<1>17. CASE Save(r)
  BY <1>17, SaveStep
<1>18. CASE Cycle(r)
  BY <1>18, RenewStep DEF Cycle
<1>19. CASE MailLink(r)
  BY <1>19, MailLinkStep
<1>20. CASE CommitModified(r)
  BY <1>20, CommitModifiedStep
<1>21. CASE CommitDestroyed(r)
  BY <1>21, CommitDestroyedStep
<1>22. CASE Receive(r)
  BY <1>22, ReceiveStep
<1> QED BY <1>1, <1>2, <1>3, <1>4, <1>5, <1>6, <1>7, <1>8, <1>9, <1>10, <1>11,
           <1>12, <1>13, <1>14, <1>15, <1>16, <1>17, <1>18, <1>19, <1>20,
           <1>21, <1>22 DEF Step

\* IInv holds in every state the sessions of a site can reach.
THEOREM InductiveInvariant == Spec => []IInv
<1>1. IInv /\ [Next]_vars => IInv'
  <2> SUFFICES ASSUME IInv, [Next]_vars PROVE IInv'
    OBVIOUS
  <2>1. ASSUME NEW r \in Requests, Step(r) PROVE IInv'
    BY <2>1, RequestStep
  <2>2. ASSUME NEW u \in Users, ChangePassword(u) PROVE IInv'
    BY <2>2, ChangePasswordStep
  <2>3. ASSUME NEW u \in Users, Deactivate(u) PROVE IInv'
    BY <2>3, DeactivateStep
  <2>4. CASE Quiet \/ UNCHANGED vars
    BY <2>4, StutterStep DEF Quiet
  <2> QED BY <2>1, <2>2, <2>3, <2>4 DEF Next
<1> QED BY InitInv, <1>1, PTL DEF Spec

\* Type correctness.
THEOREM TypeCorrectness == Spec => []TypeOK
BY InductiveInvariant, PTL DEF IInv

\* No browser is served as a user whose password in force it has not itself
\* presented or set (auth.Login, Authentication).
THEOREM Authenticity == Spec => []ServedIdentityProved
BY InductiveInvariant, PTL DEF IInv

\* A request sent after a password hash was replaced is not served on what was
\* revoked (docs/http-runtime.md, "Password-hash changes invalidate any other
\* existing session").
THEOREM Revocation == Spec => []RevocationHonoured
BY InductiveInvariant, PTL DEF IInv

\* A request sent after an account was deactivated is not served as its user
\* (Authentication, which asks whether the user is active on every request).
THEOREM Deactivation == Spec => []DeactivationHonoured
BY InductiveInvariant, PTL DEF IInv

\* Used one after the other, password-reset links work once (resetUser).
THEOREM ResetLinksWorkOnce == Spec => []LinkNotReplayed
BY InductiveInvariant, PTL DEF IInv

\* A session token never passes from one principal to another (auth.Login).
THEOREM NoSessionFixation == Spec => []OneUserPerToken
BY InductiveInvariant, PTL DEF IInv

\* An ended session that no request in flight holds is never stored or loaded
\* again (Logout, Cycle, Flush; SCS Load and Commit).
THEOREM EndedSessionsStayEnded == Spec => DeadStaysDead
<1> USE ConstantsAssumption DEF IInv, TypeOK, Dead, Unissued
<1>1. ASSUME IInv, NEW t \in Tokens, Dead(t), NEW r \in Requests, Step(r)
      PROVE  Dead(t)'
  <2> USE <1>1
  <2>1. CASE Load(r)
    BY <2>1 DEF Load
  <2>2. CASE Drop(r) \/ Logout(r)
    <3>0. session' = [session EXCEPT ![r] =
                        [NewSession EXCEPT !.status = "destroyed"]]
      BY <2>2 DEF Drop, Logout, Destroy
    <3>1. \A q \in Requests : session'[q].token \in {session[q].token, NoToken}
      BY <3>0
    <3>2. stored' \subseteq stored /\ holder' = holder
      BY <2>2 DEF Drop, Logout, Destroy
    <3> QED BY <3>1, <3>2
  <2>3. CASE SignIn(r) \/ Cycle(r)
    <3>1. PICK v \in Tokens :
            /\ holder[v] = NoBrowser
            /\ holder' = [holder EXCEPT ![v] = input[r].browser]
            /\ stored' \subseteq stored
            /\ session' = [session EXCEPT ![r] =
                 [token |-> v, status |-> "modified",
                  user |-> checked[r].user, hash |-> checked[r].hash]]
      BY <2>3 DEF SignIn, Cycle, Renew
    <3>2. \A q \in Requests : session'[q].token \in {session[q].token, v}
      BY <3>1
    <3>3. v # t
      BY <3>1
    <3> QED BY <3>1, <3>2, <3>3
  <2>4. CASE SwitchUser(r) \/ SignInAgain(r) \/ View(r)
    <3>1. stored' \subseteq stored /\ holder' = holder
      BY <2>4 DEF SwitchUser, SignInAgain, View
    <3>2. \A q \in Requests : session'[q].token \in {session[q].token, NoToken}
      <4>1. CASE SwitchUser(r)
        BY <4>1 DEF SwitchUser
      <4>2. CASE SignInAgain(r)
        BY <4>2 DEF SignInAgain
      <4>3. CASE View(r)
        BY <4>3 DEF View
      <4> QED BY <2>4, <4>1, <4>2, <4>3
    <3> QED BY <3>1, <3>2
  <2>5. CASE CommitModified(r)
    <3>1. PICK v \in Tokens : /\ v # t
                             /\ stored' = stored \cup {v}
                             /\ holder' = [holder EXCEPT ![v] = input[r].browser]
                             /\ session' = session
      BY <2>5 DEF CommitModified
    <3> QED BY <3>1
  <2>6. CASE Receive(r)
    BY <2>6 DEF Receive
  <2>7. CASE UNCHANGED <<stored, holder, session>>
    BY <2>7
  <2> QED BY <2>1, <2>2, <2>3, <2>4, <2>5, <2>6, <2>7 DEF Step, Send,
       LoadFails, Unidentified, Admit, Reject, IdentifyFails, DropFails,
       Refuse, HandlerFails, LoginAccepted, Accept, SignInFails,
       ChangeAccepted, LinkAccepted, Save, SaveFails, CycleFails, MailLink,
       CommitDestroyed, CommitUnmodified, CommitFails, FaultTo
<1>2. ASSUME IInv, NEW t \in Tokens, Dead(t), [Next]_vars
      PROVE  Dead(t)'
  <2>1. CASE \E r \in Requests : Step(r)
    BY <1>1, <1>2, <2>1
  <2>2. CASE \E u \in Users : ChangePassword(u) \/ Deactivate(u)
    BY <1>2, <2>2 DEF ChangePassword, Deactivate
  <2>3. CASE Quiet \/ UNCHANGED vars
    BY <1>2, <2>3 DEF Quiet, vars
  <2> QED BY <1>2, <2>1, <2>2, <2>3 DEF Next
<1>3. IInv /\ [Next]_vars => [\A t \in Tokens : Dead(t) => Dead(t)']_vars
  BY <1>2
<1> QED BY <1>3, InductiveInvariant, PTL DEF Spec, DeadStaysDead
=============================================================================
