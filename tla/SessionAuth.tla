---------------------------- MODULE SessionAuth ----------------------------
(* Authenticated sessions of a GoDjangGo site: browsers send requests that   *)
(* pass the session middleware (web/session.go over SCS), the authentication *)
(* middleware and one of the account handlers (web/auth_http.go,             *)
(* auth/session.go), and every step between two database calls may           *)
(* interleave with the steps of the other requests in flight.                *)
(*                                                                           *)
(* One action is one database call of one request together with the code     *)
(* that follows it up to the next call.  A password is not modelled apart    *)
(* from its hash: every call of SetPassword stores a freshly salted hash,    *)
(* and to accept a password is to have verified it against one hash.         *)
EXTENDS Naturals, FiniteSets

CONSTANTS
  Users, Browsers,
  Requests,        \* request identifiers, each sent at most once
  Kinds,           \* the handlers that requests reach, a subset of AllKinds
  Tokens,          \* session tokens; a generated token was never seen before
  Hashes,          \* password hashes; a salted hash was never seen before
  NoToken, NoUser, NoHash, NoBrowser, Keep,
  IdleTimeout,     \* SessionConfig.IdleTimeout > 0
  MaxFaults,       \* bound on failing database calls
  MaxAdmin,        \* bound on what operators do meanwhile
  InitialHash      \* InitialHash[u]: the hash of u's first password

AllKinds == {"view", "login", "logout", "change", "forgot", "confirm"}

ASSUME ConstantsAssumption ==
  /\ NoToken \notin Tokens /\ NoUser \notin Users /\ NoHash \notin Hashes
  /\ NoBrowser \notin Browsers
  /\ Keep \notin Tokens /\ Keep # NoToken
  /\ Kinds \subseteq AllKinds
  /\ IdleTimeout \in BOOLEAN /\ MaxFaults \in Nat /\ MaxAdmin \in Nat
  /\ InitialHash \in [Users -> Hashes]
  /\ \A u, v \in Users : InitialHash[u] = InitialHash[v] => u = v

VARIABLES
  hash,      \* auth_users.password_hash
  active,    \* auth_users.is_active
  stored,    \* the keys present in the sessions table
  row,       \* row[t]: user id and auth hash in the data of session t
  cookie,    \* the session cookie each browser holds
  pc, input, \* progress of a request, and what its browser sent
  session,   \* its SCS session data: token, status, user id and auth hash
  current,   \* the user the authentication middleware put in its context
  checked,   \* the user its handler has verified a password or a link for
  setCookie, \* the Set-Cookie of its response
  links,     \* password-reset links that were mailed
  holder,    \* the browser a token was generated for, or NoBrowser
  usedHashes, faults, adminActs,
  \* history, for the properties alone
  proved,     \* <<b, u, h>>: b presented, or set, the password of u's hash h
  superseded, \* hashes that have been replaced
  stale,      \* stale[r]: the superseded hashes when r was sent
  barred      \* barred[r]: the inactive users when r was sent

db      == <<hash, active, stored, row>>
world   == <<cookie, links>>
history == <<proved, superseded, stale, barred>>
vars == <<db, world, pc, input, session, current, checked, setCookie,
          holder, usedHashes, faults, adminActs, history>>

Identity  == [user : Users \cup {NoUser}, hash : Hashes \cup {NoHash}]
Anonymous == [user |-> NoUser, hash |-> NoHash]
Data(s)   == [user |-> s.user, hash |-> s.hash]
Status    == {"unmodified", "modified", "destroyed"}
NewSession == [token |-> NoToken, status |-> "unmodified",
               user |-> NoUser, hash |-> NoHash]
Phases == {"unsent", "load", "identify", "drop", "handle", "signin", "save",
           "cycle", "commit", "reply", "done"}

Init ==
  /\ hash = InitialHash
  /\ active = [u \in Users |-> TRUE]
  /\ stored = {}
  /\ row = [t \in Tokens |-> Anonymous]
  /\ cookie = [b \in Browsers |-> NoToken]
  /\ pc = [r \in Requests |-> "unsent"]
  /\ input = [r \in Requests |->
                [browser |-> NoBrowser, kind |-> "view",
                 token |-> NoToken, subject |-> Anonymous]]
  /\ session = [r \in Requests |-> NewSession]
  /\ current = [r \in Requests |-> Anonymous]
  /\ checked = [r \in Requests |-> Anonymous]
  /\ setCookie = [r \in Requests |-> Keep]
  /\ links = {}
  /\ holder = [t \in Tokens |-> NoBrowser]
  /\ usedHashes = {InitialHash[u] : u \in Users}
  /\ faults = 0 /\ adminActs = 0
  /\ proved = {} /\ superseded = {}
  /\ stale = [r \in Requests |-> {}]
  /\ barred = [r \in Requests |-> {}]
-----------------------------------------------------------------------------
(* Small steps the actions are made of.                                      *)

Goto(r, from, to) == pc[r] = from /\ pc' = [pc EXCEPT ![r] = to]

\* Mutant: the generator may repeat a token.
UnissuedOrNot == Tokens

Unissued == {t \in Tokens : holder[t] = NoBrowser}

Fault == faults < MaxFaults /\ faults' = faults + 1

AdminAct == adminActs < MaxAdmin /\ adminActs' = adminActs + 1

\* A failing call makes the handler answer with an error page, and writing
\* the first byte of any response is what commits the session.
FaultTo(r, from, to) ==
  /\ Goto(r, from, to) /\ Fault
  /\ UNCHANGED <<db, world, input, session, current, checked, setCookie,
                 holder, usedHashes, adminActs, history>>

\* SessionManager.Destroy: the row goes at once, the data starts over.
Destroy(r) ==
  /\ stored' = stored \ {session[r].token}
  /\ session' = [session EXCEPT ![r] =
                   [NewSession EXCEPT !.status = "destroyed"]]

\* SessionManager.RenewToken followed by auth.Login's two Puts: the old row
\* goes at once, the new one is written by the commit.
Renew(r, id) ==
  \E t \in Unissued :
    /\ holder' = [holder EXCEPT ![t] = input[r].browser]
    /\ stored' = stored \ {session[r].token}
    /\ session' = [session EXCEPT ![r] =
         [token |-> t, status |-> "modified",
          user |-> id.user, hash |-> id.hash]]

\* Manager.SetPassword: a fresh salted hash, stored whatever the row held.
SetPassword(u, h) ==
  /\ h \in Hashes \ usedHashes
  /\ usedHashes' = usedHashes \cup {h}
  /\ hash' = [hash EXCEPT ![u] = h]
  /\ superseded' = superseded \cup {hash[u]}
-----------------------------------------------------------------------------
(* The request up to its handler.                                            *)

\* A browser sends a request with the cookie it holds now: a login and a
\* forgotten-password form name a user, a reset confirmation a mailed link.
Send(r) ==
  \E b \in Browsers, k \in Kinds, id \in Identity :
    /\ Goto(r, "unsent", "load")
    /\ CASE k \in {"login", "forgot"} -> id.user # NoUser /\ id.hash = NoHash
         [] k = "confirm"             -> id \in links
         [] OTHER                     -> id = Anonymous
    /\ input' = [input EXCEPT ![r] = [browser |-> b, kind |-> k,
                                      token |-> cookie[b], subject |-> id]]
    /\ stale'  = [stale  EXCEPT ![r] = superseded]
    /\ barred' = [barred EXCEPT ![r] = {u \in Users : ~active[u]}]
    /\ UNCHANGED <<db, world, session, current, checked, setCookie, holder,
                   usedHashes, faults, adminActs, proved, superseded>>

\* Mutant: an unknown token is adopted instead of being dropped.
LoadAdoptingToken(r) ==
  /\ Goto(r, "load", "identify")
  /\ LET t == input[r].token IN
       session' = [session EXCEPT ![r] =
         IF t \in stored
         THEN [token |-> t, user |-> row[t].user, hash |-> row[t].hash,
               status |-> IF IdleTimeout THEN "modified" ELSE "unmodified"]
         ELSE [NewSession EXCEPT !.token = t]]
  /\ UNCHANGED <<db, world, input, current, checked, setCookie, holder,
                 usedHashes, faults, adminActs, history>>

\* SessionManager.Load: with an idle timeout a session that was found is
\* marked modified, so that the commit refreshes its expiry.
Load(r) ==
  /\ Goto(r, "load", "identify")
  /\ LET t == input[r].token IN
       session' = [session EXCEPT ![r] =
         IF t \in stored
         THEN [token |-> t, user |-> row[t].user, hash |-> row[t].hash,
               status |-> IF IdleTimeout THEN "modified" ELSE "unmodified"]
         ELSE NewSession]
  /\ UNCHANGED <<db, world, input, current, checked, setCookie, holder,
                 usedHashes, faults, adminActs, history>>

LoadFails(r) == FaultTo(r, "load", "reply")

\* Mutants: the session's hash is not compared; is_active is not looked at.
ValidWithoutHash(r) ==
  session[r].user # NoUser /\ active[session[r].user]
ValidWhenInactive(r) ==
  session[r].user # NoUser /\ session[r].hash = hash[session[r].user]

\* web.Authentication: only an active user whose password hash is the one the
\* session was signed in with reaches the handler as the current user.
Valid(r) ==
  LET s == session[r] IN
    s.user # NoUser /\ active[s.user] /\ s.hash = hash[s.user]

Unidentified(r) ==
  /\ session[r].user = NoUser
  /\ Goto(r, "identify", "handle")
  /\ UNCHANGED <<db, world, input, session, current, checked, setCookie,
                 holder, usedHashes, faults, adminActs, history>>

Admit(r) ==
  /\ Valid(r)
  /\ Goto(r, "identify", "handle")
  /\ LET u == session[r].user IN
       current' = [current EXCEPT ![r] = [user |-> u, hash |-> hash[u]]]
  /\ UNCHANGED <<db, world, input, session, checked, setCookie, holder,
                 usedHashes, faults, adminActs, history>>

Reject(r) ==
  /\ session[r].user # NoUser /\ ~Valid(r)
  /\ Goto(r, "identify", "drop")
  /\ UNCHANGED <<db, world, input, session, current, checked, setCookie,
                 holder, usedHashes, faults, adminActs, history>>

IdentifyFails(r) ==
  session[r].user # NoUser /\ FaultTo(r, "identify", "commit")

\* The middleware flushes a session it refused; an error of the flush is
\* ignored, and then the request carries on with the session data it loaded.
Drop(r) ==
  /\ Goto(r, "drop", "handle")
  /\ Destroy(r)
  /\ UNCHANGED <<hash, active, row, world, input, current, checked, setCookie,
                 holder, usedHashes, faults, adminActs, history>>

DropFails(r) == FaultTo(r, "drop", "handle")
-----------------------------------------------------------------------------
(* The handlers.                                                             *)

Handles(r, k) == pc[r] = "handle" /\ input[r].kind = k

\* A page of the application, which may store a value of its own in the
\* session; one that requires authentication answers 401 instead.
View(r) ==
  /\ Handles(r, "view") /\ Goto(r, "handle", "commit")
  /\ \E status \in {session[r].status, "modified"} :
       session' = [session EXCEPT ![r].status = status]
  /\ UNCHANGED <<db, world, input, current, checked, setCookie, holder,
                 usedHashes, faults, adminActs, history>>

\* A form is rendered again, a request without a current user gets a 401, a
\* reset link does not check: the handler answers and nothing has changed.
Refuse(r) ==
  /\ input[r].kind \in {"login", "change", "forgot", "confirm"}
  /\ Goto(r, "handle", "commit")
  /\ UNCHANGED <<db, world, input, session, current, checked, setCookie,
                 holder, usedHashes, faults, adminActs, history>>

HandlerFails(r) ==
  /\ input[r].kind # "view"
  /\ input[r].kind = "change" => current[r].user # NoUser
  /\ FaultTo(r, "handle", "commit")

\* Manager.Authenticate accepted a password of u: the hash that was read is
\* the current one and the account is active.
Accept(r, u, to) ==
  /\ active[u]
  /\ Goto(r, "handle", to)
  /\ checked' = [checked EXCEPT ![r] = [user |-> u, hash |-> hash[u]]]
  /\ proved' = proved \cup {<<input[r].browser, u, hash[u]>>}
  /\ UNCHANGED <<db, world, input, session, current, setCookie, holder,
                 usedHashes, faults, adminActs, superseded, stale, barred>>

LoginAccepted(r) ==
  Handles(r, "login") /\ Accept(r, input[r].subject.user, "signin")

\* Mutant: another user's session is overwritten instead of flushed.
SwitchUserInPlace(r) ==
  /\ session[r].user \notin {NoUser, checked[r].user}
  /\ Goto(r, "signin", "commit")
  /\ session' = [session EXCEPT ![r] =
       [token |-> session[r].token, status |-> "modified",
        user |-> checked[r].user, hash |-> checked[r].hash]]
  /\ UNCHANGED <<db, world, input, current, checked, setCookie, holder,
                 usedHashes, faults, adminActs, history>>

\* auth.Login by case: another user's session is flushed and gets its new
\* token from the commit, an anonymous one gets a new token here, and the
\* same user's keeps the token it has.
SwitchUser(r) ==
  /\ session[r].user \notin {NoUser, checked[r].user}
  /\ Goto(r, "signin", "commit")
  /\ stored' = stored \ {session[r].token}
  /\ session' = [session EXCEPT ![r] =
       [token |-> NoToken, status |-> "modified",
        user |-> checked[r].user, hash |-> checked[r].hash]]
  /\ UNCHANGED <<hash, active, row, world, input, current, checked, setCookie,
                 holder, usedHashes, faults, adminActs, history>>

SignIn(r) ==
  /\ session[r].user = NoUser
  /\ Goto(r, "signin", "commit")
  /\ Renew(r, checked[r])
  /\ UNCHANGED <<hash, active, row, world, input, current, checked, setCookie,
                 usedHashes, faults, adminActs, history>>

SignInAgain(r) ==
  /\ session[r].user = checked[r].user
  /\ Goto(r, "signin", "commit")
  /\ session' = [session EXCEPT ![r] =
       [token |-> session[r].token, status |-> "modified",
        user |-> session[r].user, hash |-> checked[r].hash]]
  /\ UNCHANGED <<db, world, input, current, checked, setCookie, holder,
                 usedHashes, faults, adminActs, history>>

SignInFails(r) ==
  session[r].user # checked[r].user /\ FaultTo(r, "signin", "commit")

Logout(r) ==
  /\ Handles(r, "logout") /\ Goto(r, "handle", "commit")
  /\ Destroy(r)
  /\ UNCHANGED <<hash, active, row, world, input, current, checked, setCookie,
                 holder, usedHashes, faults, adminActs, history>>

\* passwordChange: the old password is verified against the row as it is now,
\* not against the middleware's copy.
ChangeAccepted(r) ==
  /\ Handles(r, "change") /\ current[r].user # NoUser
  /\ Accept(r, current[r].user, "save")

\* Mutant: the link does not sign the password hash.
LinkAlwaysAccepted(r) ==
  /\ Handles(r, "confirm") /\ Goto(r, "handle", "save")
  /\ checked' = [checked EXCEPT ![r] = input[r].subject]
  /\ UNCHANGED <<db, world, input, session, current, setCookie, holder,
                 usedHashes, faults, adminActs, history>>

\* resetUser: the link signs the hash the account had when it was mailed.
LinkAccepted(r) ==
  LET id == input[r].subject IN
  /\ Handles(r, "confirm") /\ Goto(r, "handle", "save")
  /\ hash[id.user] = id.hash
  /\ checked' = [checked EXCEPT ![r] = id]
  /\ UNCHANGED <<db, world, input, session, current, setCookie, holder,
                 usedHashes, faults, adminActs, history>>

\* SetPassword writes the new hash by primary key, without comparing the one
\* that was checked; the password change goes on to renew its session.
Save(r) ==
  \E h \in Hashes :
    /\ Goto(r, "save", IF input[r].kind = "change" THEN "cycle" ELSE "commit")
    /\ SetPassword(checked[r].user, h)
    /\ checked' = [checked EXCEPT ![r] =
                     [user |-> checked[r].user, hash |-> h]]
    /\ proved' = proved \cup {<<input[r].browser, checked[r].user, h>>}
    /\ UNCHANGED <<active, stored, row, world, input, session, current,
                   setCookie, holder, faults, adminActs, stale, barred>>

SaveFails(r) == FaultTo(r, "save", "commit")

\* session.Cycle and auth.Login, with the hash this request has just set.
Cycle(r) ==
  /\ Goto(r, "cycle", "commit")
  /\ Renew(r, checked[r])
  /\ UNCHANGED <<hash, active, row, world, input, current, checked, setCookie,
                 usedHashes, faults, adminActs, history>>

CycleFails(r) == FaultTo(r, "cycle", "commit")

\* passwordReset: a link for the account as it is read now; an inactive one
\* gets none, and a failing delivery is only logged (both are a Refuse here).
MailLink(r) ==
  LET u == input[r].subject.user IN
  /\ Handles(r, "forgot") /\ Goto(r, "handle", "commit")
  /\ active[u]
  /\ links' = links \cup {[user |-> u, hash |-> hash[u]]}
  /\ UNCHANGED <<db, cookie, input, session, current, checked, setCookie,
                 holder, usedHashes, faults, adminActs, history>>
-----------------------------------------------------------------------------
(* The response: LoadAndSave upserts a modified session under its token, or  *)
(* under a new one if it has none, and tells the browser the token; it       *)
(* expires the cookie of a destroyed one and leaves an unmodified one alone. *)

CommitModified(r) ==
  LET s == session[r] IN
  /\ s.status = "modified" /\ Goto(r, "commit", "reply")
  /\ \E t \in IF s.token = NoToken THEN Unissued ELSE {s.token} :
       /\ stored' = stored \cup {t}
       /\ row' = [row EXCEPT ![t] = Data(s)]
       /\ holder' = [holder EXCEPT ![t] = input[r].browser]
       /\ setCookie' = [setCookie EXCEPT ![r] = t]
  /\ UNCHANGED <<hash, active, world, input, session, current, checked,
                 usedHashes, faults, adminActs, history>>

CommitDestroyed(r) ==
  /\ session[r].status = "destroyed" /\ Goto(r, "commit", "reply")
  /\ setCookie' = [setCookie EXCEPT ![r] = NoToken]
  /\ UNCHANGED <<db, world, input, session, current, checked, holder,
                 usedHashes, faults, adminActs, history>>

CommitUnmodified(r) ==
  /\ session[r].status = "unmodified" /\ Goto(r, "commit", "reply")
  /\ UNCHANGED <<db, world, input, session, current, checked, setCookie,
                 holder, usedHashes, faults, adminActs, history>>

CommitFails(r) ==
  session[r].status = "modified" /\ FaultTo(r, "commit", "reply")

\* Responses reach the browser in any order, or are lost; the request's
\* memory is gone.
Receive(r) ==
  LET b == input[r].browser IN
  /\ Goto(r, "reply", "done")
  /\ cookie' \in {cookie,
                  IF setCookie[r] = Keep THEN cookie
                  ELSE [cookie EXCEPT ![b] = setCookie[r]]}
  /\ session' = [session EXCEPT ![r] = NewSession]
  /\ current' = [current EXCEPT ![r] = Anonymous]
  /\ checked' = [checked EXCEPT ![r] = Anonymous]
  /\ setCookie' = [setCookie EXCEPT ![r] = Keep]
  /\ stale' = [stale EXCEPT ![r] = {}]
  /\ barred' = [barred EXCEPT ![r] = {}]
  /\ UNCHANGED <<db, links, input, holder, usedHashes, faults, adminActs,
                 proved, superseded>>

\* manage changepassword: ChangePassword reads the user and overwrites its
\* hash; no session is touched.
ChangePassword(u) ==
  /\ AdminAct
  /\ \E h \in Hashes : SetPassword(u, h)
  /\ UNCHANGED <<active, stored, row, world, pc, input, session, current,
                 checked, setCookie, holder, faults, proved, stale, barred>>

\* An operator deactivates an account: is_active is written by no code of the
\* repository, which only ever reads it.
Deactivate(u) ==
  /\ AdminAct
  /\ active[u]
  /\ active' = [active EXCEPT ![u] = FALSE]
  /\ UNCHANGED <<hash, stored, row, world, pc, input, session, current,
                 checked, setCookie, holder, usedHashes, faults, history>>

\* All requests were answered: the bound on them ends the run.
Quiet == (\A r \in Requests : pc[r] = "done") /\ UNCHANGED vars

Step(r) ==
  \/ Send(r)           \/ Load(r)          \/ LoadFails(r)
  \/ Unidentified(r)   \/ Admit(r)         \/ Reject(r)
  \/ IdentifyFails(r)  \/ Drop(r)          \/ DropFails(r)
  \/ View(r)           \/ Refuse(r)        \/ HandlerFails(r)
  \/ LoginAccepted(r)  \/ SwitchUser(r)    \/ SignIn(r)
  \/ SignInAgain(r)    \/ SignInFails(r)   \/ Logout(r)
  \/ ChangeAccepted(r) \/ LinkAccepted(r)  \/ Save(r)
  \/ SaveFails(r)      \/ Cycle(r)         \/ CycleFails(r)
  \/ MailLink(r)       \/ CommitModified(r) \/ CommitDestroyed(r)
  \/ CommitUnmodified(r) \/ CommitFails(r) \/ Receive(r)

Next ==
  \/ \E r \in Requests : Step(r)
  \/ \E u \in Users : ChangePassword(u)
  \/ \E u \in Users : Deactivate(u)
  \/ Quiet

Spec == Init /\ [][Next]_vars
-----------------------------------------------------------------------------
(* Properties.                                                               *)

Held(r) == session[r].token

\* Type correctness of every variable of the model.
TypeOK ==
  /\ hash \in [Users -> Hashes] /\ active \in [Users -> BOOLEAN]
  /\ stored \subseteq Tokens /\ row \in [Tokens -> Identity]
  /\ cookie \in [Browsers -> Tokens \cup {NoToken}]
  /\ pc \in [Requests -> Phases]
  /\ input \in [Requests -> [browser : Browsers \cup {NoBrowser},
                             kind : AllKinds,
                             token : Tokens \cup {NoToken},
                             subject : Identity]]
  /\ session \in [Requests -> [token : Tokens \cup {NoToken}, status : Status,
                     user : Users \cup {NoUser}, hash : Hashes \cup {NoHash}]]
  /\ current \in [Requests -> Identity] /\ checked \in [Requests -> Identity]
  /\ setCookie \in [Requests -> Tokens \cup {NoToken, Keep}]
  /\ links \subseteq Identity
  /\ holder \in [Tokens -> Browsers \cup {NoBrowser}]
  /\ usedHashes \subseteq Hashes
  /\ faults \in Nat /\ adminActs \in Nat
  /\ proved \subseteq Browsers \X Users \X Hashes
  /\ superseded \subseteq Hashes
  /\ stale \in [Requests -> SUBSET Hashes]
  /\ barred \in [Requests -> SUBSET Users]

\* A request is served as user u only to a browser that itself presented, or
\* set, the very password of u whose hash the request was admitted on: no
\* interleaving of logins, renewals, flushes and late commits hands one
\* browser's identity to another (auth.Login, Cycle, Flush, Authentication).
ServedIdentityProved ==
  \A r \in Requests : current[r].user # NoUser =>
    <<input[r].browser, current[r].user, current[r].hash>> \in proved

\* "Password-hash changes invalidate any other existing session on its next
\* request": a request sent after a hash was replaced is never served on it,
\* even when an older request commits the session again in between.
RevocationHonoured ==
  \A r \in Requests :
    current[r].user # NoUser => session[r].hash \notin stale[r]

\* A request sent after an account was deactivated is not served as its user
\* and neither logs it in nor changes its password through the form.
DeactivationHonoured ==
  \A r \in Requests :
    /\ current[r].user \notin barred[r]
    /\ input[r].kind \in {"login", "change"} =>
         checked[r].user \notin barred[r]

\* A confirmation sent after the linked hash was replaced never gets as far as
\* setting a password: used one after the other, reset links work once.
LinkNotReplayed ==
  \A r \in Requests :
    pc[r] = "save" /\ input[r].kind = "confirm" =>
      input[r].subject.hash \notin stale[r]

\* One token names one principal for good: its row, and the copies that the
\* requests in flight have loaded, never disagree on the user (or on there
\* being none), so a token planted before a login is worthless after it.
OneUserPerToken ==
  \A r \in Requests : Held(r) # NoToken =>
    /\ Held(r) \in stored => row[Held(r)].user = session[r].user
    /\ \A q \in Requests :
         Held(q) = Held(r) => session[q].user = session[r].user

\* A token whose row is gone and that no request in flight has loaded never
\* comes back: a logout, a renewal or a flush that no other request of the
\* same session overlaps is final, whatever cookies are still presented.
Dead(t) ==
  /\ t \notin stored /\ t \notin Unissued
  /\ \A r \in Requests : Held(r) # t
DeadStaysDead == [][\A t \in Tokens : Dead(t) => Dead(t)']_vars

\* "logout destroys the row" (docs/http-runtime.md): while the answer to a
\* logout is on its way, the table holds no signed-in session under its token.
LogoutDestroysRow ==
  \A r \in Requests :
    pc[r] = "reply" /\ input[r].kind = "logout" /\ setCookie[r] = NoToken =>
      ~(input[r].token \in stored /\ row[input[r].token].user # NoUser)
-----------------------------------------------------------------------------
(* The inductive invariant behind the theorems of SessionAuthProofs.         *)

\* Whatever carries a token is with the browser the token was generated for.
HeldBy(t, b) == b \in Browsers /\ holder[t] = b

RequestTokens(r) ==
  LET b == input[r].browser IN
  /\ pc[r] # "unsent" => b \in Browsers
  /\ input[r].token # NoToken => HeldBy(input[r].token, b)
  /\ Held(r) # NoToken => HeldBy(Held(r), b)
  /\ setCookie[r] \in Tokens => pc[r] # "unsent" /\ HeldBy(setCookie[r], b)

TokensWithTheirHolder ==
  /\ \A b \in Browsers : cookie[b] # NoToken => holder[cookie[b]] = b
  /\ \A t \in stored : holder[t] \in Browsers
  /\ \A r \in Requests : RequestTokens(r)

\* Whatever names a user is backed by a proof of that user's password.
RequestProved(r) ==
  /\ session[r].user # NoUser =>
       <<input[r].browser, session[r].user, session[r].hash>> \in proved
  /\ pc[r] \in {"signin", "cycle"} =>
       <<input[r].browser, checked[r].user, checked[r].hash>> \in proved
  /\ pc[r] = "save" => checked[r].user \in Users
  /\ pc[r] # "unsent" =>
       \/ input[r].kind \notin {"login", "forgot", "confirm"}
       \/ input[r].subject.user \in Users

IdentitiesProved ==
  /\ \A t \in stored : row[t].user # NoUser =>
       <<holder[t], row[t].user, row[t].hash>> \in proved
  /\ \A r \in Requests : RequestProved(r)

\* The hashes in force are new, and different users have different ones.
HashesInForce ==
  /\ superseded \subseteq usedHashes
  /\ \A u \in Users : hash[u] \in usedHashes \ superseded
  /\ \A u, v \in Users : hash[u] = hash[v] => u = v
  /\ NoHash \notin superseded
  /\ \A id \in links : id.user \in Users

\* What was revoked when a request was sent stays revoked, and what the
\* request has verified since then is not among it.
RevokedStaysRevoked ==
  \A r \in Requests :
    /\ stale[r] \subseteq superseded
    /\ \A u \in barred[r] : ~active[u]
    /\ pc[r] \in {"signin", "cycle"} => checked[r].hash \notin stale[r]
    /\ pc[r] \in {"unsent", "load", "identify", "drop"} =>
         current[r].user = NoUser /\ checked[r].user = NoUser
    /\ pc[r] = "handle" => checked[r].user = NoUser
    /\ pc[r] \in {"unsent", "load"} => session[r] = NewSession

IInv ==
  /\ TypeOK /\ TokensWithTheirHolder /\ IdentitiesProved /\ HashesInForce
  /\ RevokedStaysRevoked /\ ServedIdentityProved /\ RevocationHonoured
  /\ DeactivationHonoured /\ LinkNotReplayed /\ OneUserPerToken
=============================================================================
