-------------------------------- MODULE CSRF --------------------------------
(* Cross-site request forgery protection (web/csrf.go) with the secret in a  *)
(* cookie of its own or in the session, over the sessions of web/session.go  *)
(* and the handlers that change who a session is. Requests of one browser    *)
(* overlap. A masked token is the secret it unmasks to. Whether the user of  *)
(* a session is still admitted is left open here (SessionAuth settles it),   *)
(* and so are passwords; database calls do not fail.                         *)
EXTENDS Integers, FiniteSets

CONSTANTS
  Users, Browsers, NoUser, NoBrowser,
  Requests,      \* request identifiers, each sent at most once
  MaxOverlap,    \* bound on the requests in flight at one time
  Sites,         \* the deployments that are tried, each with its own visitors
  IdleTimeout    \* SessionConfig.IdleTimeout > 0

AllKinds == {"view", "login", "logout", "change", "post"}

\* What a handler did to who the session is: signed it in, as another user, or
\* as the same user again, signed it out, or changed the password.
Changes == {"none", "login", "switch", "again", "logout", "change"}

ASSUME ConstantsAssumption ==
  /\ NoUser \notin Users /\ NoBrowser \notin Browsers
  /\ IsFiniteSet(Requests) /\ MaxOverlap \in Nat \ {0}
  /\ IdleTimeout \in BOOLEAN
  /\ \A s \in Sites :
       /\ s.useSessions \in BOOLEAN /\ s.kinds \subseteq AllKinds
       /\ s.users \subseteq Users /\ s.browsers \subseteq Browsers

\* Random values are numbered as they are generated: none comes up twice. A
\* request generates at most one session token and two CSRF secrets.
Tokens   == 1 .. Cardinality(Requests)
Secrets  == 1 .. 2 * Cardinality(Requests)
NoToken  == 0
NoSecret == 0
Keep     == -1                      \* an answer without this Set-Cookie

VARIABLES
  site,          \* the deployment: CSRFConfig.UseSessions, and who visits it
  stored, row,   \* the sessions table: user and CSRF secret under a token
  jar,           \* each browser's session token and CSRF cookie
  page,          \* the secret in the form that a browser shows now
  pc, input,     \* progress of a request, and what was sent
  data,          \* its session: token, status, user, secret
  state,         \* csrfState.secret
  answer,        \* its Set-Cookies, and the form it renders
  tokens, secrets,   \* how many have been generated
  \* history, for the properties alone
  entered,       \* the user its session named
  changed,       \* what its handler did to who the session is
  shown,         \* [browser, secret, user]: forms rendered, and for whom
  retired,       \* [browser, kind, secret]: secrets b had been shown when it
                 \* had the answer of such a change, and no other was due
  replays        \* replays[r]: the changes that came before r was sent and
                 \* after what it presents was shown to its browser

generated == <<tokens, secrets>>
history == <<entered, changed, shown, retired, replays>>
vars == <<site, stored, row, jar, page, pc, input, data, state, answer,
          generated, history>>

Safe == {"view"}                             \* GET, HEAD, OPTIONS, TRACE
NewSession == [token |-> NoToken, status |-> "unmodified",
               user |-> NoUser, secret |-> NoSecret]
NoAnswer == [session |-> Keep, secret |-> Keep, page |-> NoSecret]

Init ==
  /\ site \in Sites
  /\ stored = {}
  /\ row = [t \in Tokens |-> [user |-> NoUser, secret |-> NoSecret]]
  /\ jar = [b \in Browsers |-> [session |-> NoToken, secret |-> NoSecret]]
  /\ page = [b \in Browsers |-> NoSecret]
  /\ pc = [r \in Requests |-> "unsent"]
  /\ input = [r \in Requests |->
       [browser |-> NoBrowser, kind |-> "view", session |-> NoToken,
        secret |-> NoSecret, presented |-> NoSecret]]
  /\ data = [r \in Requests |-> NewSession]
  /\ state = [r \in Requests |-> NoSecret]
  /\ answer = [r \in Requests |-> NoAnswer]
  /\ tokens = 0 /\ secrets = 0
  /\ entered = [r \in Requests |-> NoUser]
  /\ changed = [r \in Requests |-> "none"]
  /\ shown = {} /\ retired = {}
  /\ replays = [r \in Requests |-> {}]
-----------------------------------------------------------------------------
Goto(r, from, to) == pc[r] = from /\ pc' = [pc EXCEPT ![r] = to]

\* A browser sends the cookies it holds now. An unsafe request also presents
\* the secret of some form, of its own or of another browser, or none.
Send(r) ==
  \E b \in site.browsers, k \in site.kinds,
     s \in {NoSecret} \cup {x.secret : x \in shown} :
    /\ Cardinality({q \in Requests : pc[q] \notin {"unsent", "done"}})
         < MaxOverlap
    /\ Goto(r, "unsent", "enter")
    /\ k \in Safe => s = NoSecret
    /\ input' = [input EXCEPT ![r] =
         [browser |-> b, kind |-> k, session |-> jar[b].session,
          secret |-> jar[b].secret, presented |-> s]]
    /\ replays' = [replays EXCEPT ![r] =
         {x.kind : x \in {y \in retired : y.browser = b /\ y.secret = s}}]
    /\ UNCHANGED <<stored, row, jar, page, data, state, answer, generated,
                   entered, changed, shown, retired>>

\* What LoadAndSave makes of the cookie.
Loaded(r) ==
  LET t == input[r].session IN
  IF t \in stored
  THEN [token |-> t, user |-> row[t].user, secret |-> row[t].secret,
        status |-> IF IdleTimeout THEN "modified" ELSE "unmodified"]
  ELSE NewSession

\* csrfSecretStore.load and save: the only difference between the modes.
StoredSecret(r, d) == IF site.useSessions THEN d.secret ELSE input[r].secret

\* Mutant: both modes keep the secret in the session.
SavedInSession(d, s) == [d EXCEPT !.secret = s, !.status = "modified"]

Saved(d, s) ==
  IF site.useSessions THEN [d EXCEPT !.secret = s, !.status = "modified"] ELSE d

\* Mutant: a secret that was found is not issued again.
IssuedWhenNew(a, s, found) ==
  IF site.useSessions \/ found THEN a ELSE [a EXCEPT !.secret = s]

Issued(a, s, found) == IF site.useSessions THEN a ELSE [a EXCEPT !.secret = s]

\* Mutant: a request that brought no secret of its own is let through.
AcceptsNew(r, s, found) ==
  input[r].kind \in Safe \/ input[r].presented = s \/ ~found

Accepts(r, s, found) == input[r].kind \in Safe \/ input[r].presented = s

\* CSRF.Middleware: the secret that was found, or a new one, is saved in every
\* case, and only then is an unsafe request checked. A mismatched Origin or a
\* form that does not parse refuses it as well.
Enter(r) ==
  LET d == Loaded(r)
      found == StoredSecret(r, d) # NoSecret
      s == IF found THEN StoredSecret(r, d) ELSE secrets + 1
  IN /\ \/ Accepts(r, s, found) /\ Goto(r, "enter", "identify")
        \/ input[r].kind \notin Safe /\ Goto(r, "enter", "commit")
     /\ data' = [data EXCEPT ![r] = Saved(d, s)]
     /\ answer' = [answer EXCEPT ![r] = Issued(NoAnswer, s, found)]
     /\ state' = [state EXCEPT ![r] = s]
     /\ secrets' = IF found THEN secrets ELSE secrets + 1
     /\ entered' = [entered EXCEPT ![r] = d.user]
     /\ UNCHANGED <<stored, row, jar, page, input, tokens, changed, shown,
                    retired, replays>>

\* Authentication: the session's user is admitted, or the session is flushed
\* and the request goes on, with the secret it has in memory.
Admit(r) ==
  /\ Goto(r, "identify", "handle")
  /\ UNCHANGED <<stored, row, jar, page, input, data, state, answer,
                 generated, history>>

Flush(r) ==
  /\ stored' = stored \ {data[r].token}
  /\ data' = [data EXCEPT ![r] = [NewSession EXCEPT !.status = "destroyed"]]

Drop(r) ==
  /\ data[r].user # NoUser
  /\ Goto(r, "identify", "handle")
  /\ Flush(r)
  /\ UNCHANGED <<row, jar, page, input, state, answer, generated, history>>

Handles(r, k) == pc[r] = "handle" /\ input[r].kind = k

\* A form carries the secret of the request's csrfState, newly masked.
Render(r) ==
  /\ answer' = [answer EXCEPT ![r].page = state[r]]
  /\ shown' = shown \cup {[browser |-> input[r].browser, secret |-> state[r],
                           user |-> entered[r]]}

\* A page with a form: a view, or a login or a password change that was not
\* accepted.
ShowForm(r) ==
  /\ \/ input[r].kind \in {"view", "login"}
     \/ input[r].kind = "change" /\ data[r].user # NoUser
  /\ Goto(r, "handle", "commit")
  /\ Render(r)
  /\ UNCHANGED <<stored, row, jar, page, input, data, state, generated,
                 entered, changed, retired, replays>>

\* Another unsafe handler, or one that answers with an error.
Post(r) ==
  /\ input[r].kind \in {"post", "change"}
  /\ Goto(r, "handle", "commit")
  /\ UNCHANGED <<stored, row, jar, page, input, data, state, answer,
                 generated, history>>

\* Mutant: renewing the session does not rotate the secret.
CycleSessionOnly(r, u) ==
  /\ tokens' = tokens + 1
  /\ stored' = stored \ {data[r].token}
  /\ data' = [data EXCEPT ![r] = [token |-> tokens', status |-> "modified",
                                  user |-> u, secret |-> data[r].secret]]
  /\ UNCHANGED <<secrets, state, answer>>

\* requestSession.Cycle, with the user id that auth.Login then puts: a new
\* token, and a new secret in the store of the mode.
Cycle(r, u) ==
  /\ tokens' = tokens + 1 /\ secrets' = secrets + 1
  /\ stored' = stored \ {data[r].token}
  /\ data' = [data EXCEPT ![r] =
       Saved([token |-> tokens', status |-> "modified", user |-> u,
              secret |-> data[r].secret], secrets')]
  /\ answer' = [answer EXCEPT ![r] = Issued(answer[r], secrets', FALSE)]
  /\ state' = [state EXCEPT ![r] = secrets']

Marked(r, c) == /\ changed' = [changed EXCEPT ![r] = c]
                /\ UNCHANGED <<entered, shown, retired, replays>>

\* auth.Login of an anonymous session.
SignIn(r) ==
  /\ Handles(r, "login") /\ data[r].user = NoUser
  /\ Goto(r, "handle", "commit")
  /\ \E u \in site.users : Cycle(r, u)
  /\ Marked(r, "login")
  /\ UNCHANGED <<row, jar, page, input>>

\* Of another user's session, which is flushed. Cycle is not called: the
\* secret of a flushed session goes with it, that of the cookie stays.
SwitchUser(r) ==
  /\ Handles(r, "login") /\ data[r].user # NoUser
  /\ Goto(r, "handle", "commit")
  /\ stored' = stored \ {data[r].token}
  /\ \E u \in site.users \ {data[r].user} :
       data' = [data EXCEPT ![r] = [NewSession EXCEPT !.user = u,
                                                      !.status = "modified"]]
  /\ Marked(r, "switch")
  /\ UNCHANGED <<row, jar, page, input, state, answer, generated>>

\* Of the same user's session, which is kept as it is, with its secret.
SignInAgain(r) ==
  /\ Handles(r, "login") /\ data[r].user # NoUser
  /\ Goto(r, "handle", "commit")
  /\ data' = [data EXCEPT ![r].status = "modified"]
  /\ Marked(r, "again")
  /\ UNCHANGED <<stored, row, jar, page, input, state, answer, generated>>

\* The session is flushed, and a secret kept in the cookie stays there.
Logout(r) ==
  /\ Handles(r, "logout")
  /\ Goto(r, "handle", "commit")
  /\ Flush(r)
  /\ Marked(r, IF data[r].user = NoUser THEN "none" ELSE "logout")
  /\ UNCHANGED <<row, jar, page, input, state, answer, generated>>

ChangePassword(r) ==
  /\ Handles(r, "change") /\ data[r].user # NoUser
  /\ Goto(r, "handle", "commit")
  /\ Cycle(r, data[r].user)
  /\ Marked(r, "change")
  /\ UNCHANGED <<row, jar, page, input>>

\* LoadAndSave writes a modified session, or tells the browser to forget a
\* destroyed one, when the answer starts.
Commit(r) ==
  LET d == data[r] IN
  /\ Goto(r, "commit", "reply")
  /\ \/ /\ d.status = "modified"
        /\ LET t == IF d.token = NoToken THEN tokens + 1 ELSE d.token IN
             /\ stored' = stored \cup {t}
             /\ row' = [row EXCEPT ![t] = [user |-> d.user,
                                           secret |-> d.secret]]
             /\ tokens' = IF d.token = NoToken THEN tokens + 1 ELSE tokens
             /\ answer' = [answer EXCEPT ![r].session = t]
     \/ /\ d.status = "destroyed"
        /\ answer' = [answer EXCEPT ![r].session = NoToken]
        /\ UNCHANGED <<stored, row, tokens>>
     \/ /\ d.status = "unmodified"
        /\ UNCHANGED <<stored, row, tokens, answer>>
  /\ UNCHANGED <<jar, page, input, data, state, secrets, history>>

ShownTo(b) == {x.secret : x \in {y \in shown : y.browser = b}}

OnlyOneDue(r) ==
  \A q \in Requests \ {r} :
    input[q].browser = input[r].browser => pc[q] \in {"unsent", "done"}

\* Answers reach the browser in any order.
Receive(r) ==
  LET b == input[r].browser
      a == answer[r]
      Put(new, old) == IF new = Keep THEN old ELSE new
  IN
  /\ Goto(r, "reply", "done")
  /\ jar' = [jar EXCEPT ![b] = [session |-> Put(a.session, @.session),
                                secret  |-> Put(a.secret, @.secret)]]
  /\ page' = [page EXCEPT ![b] = a.page]
  /\ retired' = retired \cup
       {[browser |-> b, kind |-> changed[r], secret |-> s] :
          s \in IF changed[r] # "none" /\ OnlyOneDue(r) THEN ShownTo(b)
                ELSE {}}
  /\ UNCHANGED <<stored, row, input, data, state, answer, generated,
                 entered, changed, shown, replays>>

Quiet == (\A r \in Requests : pc[r] = "done") /\ UNCHANGED vars

Step(r) ==
  \/ Send(r) \/ Enter(r) \/ Admit(r) \/ Drop(r) \/ ShowForm(r) \/ Post(r)
  \/ SignIn(r) \/ SwitchUser(r) \/ SignInAgain(r) \/ Logout(r)
  \/ ChangePassword(r) \/ Commit(r) \/ Receive(r)

Next == (\E r \in Requests : Step(r) /\ UNCHANGED site) \/ Quiet

Spec == Init /\ [][Next]_vars
-----------------------------------------------------------------------------
(* Properties.                                                               *)

InFlight(r) == pc[r] \in {"identify", "handle"}

\* An unsafe request reaches its handler only with the secret of a form that
\* was rendered for the browser that sends it (CSRF.Middleware's check).
OwnSecret ==
  \A r \in Requests : InFlight(r) /\ input[r].kind \notin Safe =>
    input[r].presented \in ShownTo(input[r].browser)

\* With the secret in its own cookie, an anonymous request costs no session
\* row: every row names a user (CSRFConfig.UseSessions, cookieCSRFStore).
NoAnonymousRows ==
  ~site.useSessions => \A t \in stored : row[t].user # NoUser

\* With the secret in its own cookie, the form a browser has on screen can be
\* submitted: no other answer has left it another secret.
LastPageSubmittable ==
  ~site.useSessions =>
    \A b \in Browsers : page[b] # NoSecret => jar[b].secret = page[b]

\* With the secret in the session, what a session was shown before its user
\* signed in, or as another user, is not accepted from it (Session.Cycle,
\* rotateCSRFState, and Login's flush of another user's session).
SecretOfOneUser ==
  site.useSessions =>
    \A r \in Requests : InFlight(r) /\ input[r].kind \notin Safe =>
      \A x \in shown : x.secret = input[r].presented =>
                        x.user = entered[r]

\* The changes that do not reach rotateCSRFState and leave the browser its
\* secret: only sign-in of an anonymous session and password change call
\* Session.Cycle, and a flush takes a secret away that is in the session.
Unrotated == {"again"} \cup IF site.useSessions THEN {} ELSE {"switch", "logout"}

\* "A secret observed before a privilege change cannot be replayed after one"
\* (rotateCSRFState), for the changes whose answer the browser had, with no
\* other answer outstanding, before it sent the request, but for those of
\* Unrotated. A late answer may set the cookie back to the old secret.
RotationRetiresSecret ==
  \A r \in Requests : InFlight(r) => replays[r] \subseteq Unrotated

\* A weak form of the same claim, without the exceptions: a login over another
\* user's session, or else a logout, retires what was observed before it
\* ("Login, logout and password change call it through Session.Cycle").
SomeChangeRetiresSecret ==
  \A r \in Requests : InFlight(r) =>
    ~({"switch", "logout"} \subseteq replays[r])
=============================================================================
