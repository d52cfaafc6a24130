----------------------------- MODULE CSRFProofs -----------------------------
(* Proofs about CSRF for any number of users, browsers, requests and         *)
(* deployments. IInv is the inductive invariant. Nearly every action is a    *)
(* Local step, in which one request computes with what it has or generates;  *)
(* only Send, Commit and Receive move values between places.                 *)
EXTENDS CSRF, TLAPS, FiniteSetTheorems

USE DEF NoToken, NoSecret, Keep, AllKinds, Changes, Safe, NewSession,
        NoAnswer, generated, history

\* Requests that can generate no further token.
Spent ==
  {r \in Requests : \/ pc[r] \in {"reply", "done"}
                    \/ pc[r] = "commit" /\ data[r].token # NoToken}

Places == {"unsent", "enter", "identify", "handle", "commit", "reply", "done"}
AnyUser == Users \cup {NoUser}

TypeOK ==
  /\ site \in Sites
  /\ tokens \in Nat /\ secrets \in Nat
  /\ stored \subseteq 1 .. tokens
  /\ row \in [Tokens -> [user : AnyUser, secret : Nat]]
  /\ jar \in [Browsers -> [session : Nat, secret : Nat]]
  /\ page \in [Browsers -> Nat]
  /\ pc \in [Requests -> Places]
  /\ input \in [Requests ->
       [browser : Browsers \cup {NoBrowser}, kind : AllKinds, session : Nat,
        secret : Nat, presented : Nat]]
  /\ data \in [Requests ->
       [token : Nat, status : {"unmodified", "modified", "destroyed"},
        user : AnyUser, secret : Nat]]
  /\ state \in [Requests -> Nat]
  /\ answer \in [Requests ->
       [session : Nat \cup {Keep}, secret : Nat \cup {Keep}, page : Nat]]
  /\ entered \in [Requests -> AnyUser]
  /\ changed \in [Requests -> Changes]
  /\ shown \subseteq [browser : Browsers, secret : Nat \ {0}, user : AnyUser]
  /\ retired \subseteq [browser : Browsers, kind : Changes, secret : Nat \ {0}]
  /\ replays \in [Requests -> SUBSET Changes]
  /\ \A t \in stored : row[t].secret <= secrets
  /\ tokens <= Cardinality(Spent)

\* What a request is before the middleware has seen it and after, up to the
\* handler's end.
Phase(r) ==
  /\ pc[r] # "unsent" => input[r].browser \in Browsers
  /\ pc[r] = "unsent" => input[r].session = NoToken /\ input[r].secret = NoSecret
  /\ pc[r] \in {"unsent", "enter"} =>
       data[r] = NewSession /\ state[r] = NoSecret /\ answer[r] = NoAnswer
  /\ pc[r] \notin {"unsent", "enter"} => state[r] # NoSecret
  /\ pc[r] \notin {"reply", "done"} => answer[r].session = Keep
  /\ pc[r] \notin {"commit", "reply", "done"} => changed[r] = "none"
  /\ pc[r] \in {"identify", "handle"} =>
       /\ answer[r].page = NoSecret
       /\ input[r].kind \notin Safe => input[r].presented = state[r]
       /\ data[r].user # NoUser =>
            data[r].user = entered[r] /\ data[r].token = input[r].session
       /\ data[r].token \in {NoToken, input[r].session}

\* A form that is presented has been shown to somebody, and what a request is
\* said to replay has been retired.
Presented(r) ==
  /\ input[r].kind \in Safe => input[r].presented = NoSecret
  /\ input[r].presented # NoSecret =>
       \E x \in shown : x.secret = input[r].presented
  /\ \A k \in replays[r] :
       [browser |-> input[r].browser, kind |-> k,
        secret |-> input[r].presented] \in retired

\* The mode keeps its secret in one store: rows and session data are without
\* one, or cookies are.
OneStore ==
  /\ site.useSessions =>
       /\ \A b \in Browsers : jar[b].secret = NoSecret
       /\ \A r \in Requests :
            input[r].secret = NoSecret /\ answer[r].secret = Keep
  /\ ~site.useSessions =>
       /\ \A t \in stored : row[t].secret = NoSecret /\ row[t].user # NoUser
       /\ \A r \in Requests :
            /\ data[r].secret = NoSecret
            /\ data[r].status = "modified" => data[r].user # NoUser
            /\ pc[r] \notin {"unsent", "enter"} =>
                 /\ answer[r].secret = state[r]
                 /\ answer[r].page \in {NoSecret, state[r]}

\* b has the session token t, in its cookie or in a request of its own.
RequestTokens(r) == {input[r].session, data[r].token, answer[r].session}
HasToken(b, t) ==
  \/ jar[b].session = t
  \/ \E r \in Requests : input[r].browser = b /\ t \in RequestTokens(r)

TokensOfOneBrowser ==
  \A b \in Browsers, t \in Nat \ {NoToken} : HasToken(b, t) =>
    t <= tokens /\ \A c \in Browsers : HasToken(c, t) => b = c

\* b has the secret s, in its cookie, in a request, a form or a session of its
\* own.
RequestSecrets(r) ==
  {input[r].secret, data[r].secret, state[r], answer[r].secret}
InRow(t, s) == t \in stored /\ row[t].secret = s
HasSecret(b, s) ==
  \/ jar[b].secret = s
  \/ \E r \in Requests : input[r].browser = b /\ s \in RequestSecrets(r)
  \/ \E x \in shown : x.browser = b /\ x.secret = s
  \/ \E t \in stored : HasToken(b, t) /\ InRow(t, s)

SecretsOfOneBrowser ==
  \A b \in Browsers, s \in Nat \ {NoSecret} : HasSecret(b, s) =>
    s <= secrets /\ \A c \in Browsers : HasSecret(c, s) => b = c

\* The secret s, kept in sessions, is that of u.
SecretOf(s, u) ==
  \/ \E x \in shown : x.secret = s /\ x.user = u
  \/ \E t \in stored : InRow(t, s) /\ row[t].user = u
  \/ \E r \in Requests : data[r].secret = s /\ data[r].user = u
  \/ \E r \in Requests : InFlight(r) /\ state[r] = s /\ entered[r] = u

SecretsOfOneUser ==
  site.useSessions =>
    \A s \in Nat \ {NoSecret}, u \in AnyUser : SecretOf(s, u) =>
      s <= secrets /\ \A v \in AnyUser : SecretOf(s, v) => u = v

\* The request has given its session a new token and a new secret.
Renewed(r) == pc[r] \in {"commit", "reply"} /\ changed[r] \in {"login", "change"}

\* Nobody else has them before the answer is received.
Private(r) ==
  LET s == state[r]  t == data[r].token IN
  /\ t # NoToken
  /\ \A b \in Browsers : jar[b].session # t /\ jar[b].secret # s
  /\ \A q \in Requests \ {r} :
       t \notin RequestTokens(q) /\ s \notin RequestSecrets(q)
  /\ \A x \in shown : x.secret # s
  /\ \A k \in stored : k # t => row[k].secret # s
  /\ site.useSessions =>
       data[r].secret = s /\ data[r].status = "modified"
  /\ site.useSessions /\ pc[r] = "reply" =>
       answer[r].session = t /\ (t \in stored => row[t].secret = s)

\* The request has flushed a session that had the secret.
Flushed(r) ==
  /\ site.useSessions
  /\ pc[r] \in {"commit", "reply"} /\ changed[r] \in {"switch", "logout"}

\* Only r has the token t.
Alone(r, t) ==
  /\ \A b \in Browsers : jar[b].session # t
  /\ \A q \in Requests \ {r} : t \notin RequestTokens(q)

\* It has no secret of its session, and the session that it answers with, if
\* any, is nobody else's and has none.
Blank(r) ==
  LET t == answer[r].session IN
  /\ data[r].token = NoToken /\ data[r].secret = NoSecret
  /\ data[r].status # "unmodified"
  /\ pc[r] = "reply" /\ t # NoToken =>
       t # Keep /\ Alone(r, t) /\ (t \in stored => row[t].secret = NoSecret)

\* s can still be found for a request of b, now or when an answer comes.
Active(r) == pc[r] \notin {"unsent", "done"}
Live(b, s) ==
  \/ jar[b].secret = s \/ InRow(jar[b].session, s)
  \/ \E r \in Requests : /\ Active(r) /\ input[r].browser = b
                         /\ \/ s \in RequestSecrets(r)
                            \/ InRow(input[r].session, s)
                            \/ InRow(answer[r].session, s)

RetiredAreDead ==
  \A x \in retired :
    /\ x.secret \in ShownTo(x.browser)
    /\ x.kind \notin Unrotated => ~Live(x.browser, x.secret)

IInv ==
  /\ TypeOK
  /\ \A r \in Requests : Phase(r) /\ Presented(r)
  /\ OneStore
  /\ TokensOfOneBrowser /\ SecretsOfOneBrowser /\ SecretsOfOneUser
  /\ \A r \in Requests :
       (Renewed(r) => Private(r)) /\ (Flushed(r) => Blank(r))
  /\ RetiredAreDead
  /\ LastPageSubmittable
-----------------------------------------------------------------------------
\* A token that is generated is a token, and one more request is spent.
LEMMA AnotherToken ==
  ASSUME TypeOK, NEW r \in Requests, r \notin Spent
  PROVE  /\ tokens + 1 \in Tokens
         /\ IsFiniteSet(Spent) /\ IsFiniteSet(Requests)
         /\ tokens + 1 <= Cardinality(Spent \cup {r})
<1>1. Spent \subseteq Requests /\ Spent \cup {r} \subseteq Requests
  BY DEF Spent
<1>2. IsFiniteSet(Spent) /\ IsFiniteSet(Spent \cup {r})
  BY <1>1, FS_Subset, ConstantsAssumption
<1>3. Cardinality(Spent \cup {r}) = Cardinality(Spent) + 1
  BY <1>2, FS_AddElement
<1>4. Cardinality(Spent \cup {r}) <= Cardinality(Requests)
  BY <1>1, FS_Subset, ConstantsAssumption
<1>5. Cardinality(Spent) \in Nat /\ Cardinality(Requests) \in Nat
  BY <1>2, FS_CardinalityType, ConstantsAssumption
<1> QED
  BY <1>2, <1>3, <1>4, <1>5, ConstantsAssumption DEF TypeOK, Tokens

\* What has been generated is a token.
LEMMA GeneratedAreTokens ==
  ASSUME TypeOK
  PROVE  /\ \A t \in 1 .. tokens : t \in Tokens
         /\ \A t \in stored : t \in Tokens /\ t \in Nat \ {NoToken}
<1>1. Spent \subseteq Requests
  BY DEF Spent
<1>2. /\ Cardinality(Spent) <= Cardinality(Requests)
      /\ Cardinality(Spent) \in Nat /\ Cardinality(Requests) \in Nat
  BY <1>1, FS_Subset, FS_CardinalityType, ConstantsAssumption
<1> QED
  BY <1>2 DEF TypeOK, Tokens

\* Spent requests stay spent.
LEMMA SpentGrows ==
  ASSUME tokens \in Nat, tokens <= Cardinality(Spent),
         Spent \subseteq Spent', Spent' \subseteq Requests
  PROVE  tokens <= Cardinality(Spent')
<1>1. IsFiniteSet(Spent')
  BY FS_Subset, ConstantsAssumption
<1>2. Cardinality(Spent) <= Cardinality(Spent') /\ IsFiniteSet(Spent)
  BY <1>1, FS_Subset
<1>3. Cardinality(Spent) \in Nat /\ Cardinality(Spent') \in Nat
  BY <1>1, <1>2, FS_CardinalityType
<1> QED
  BY <1>2, <1>3

\* Tokens stay with their browsers when only b has a token it had not, and
\* that one is new.
LEMMA TokensKept ==
  ASSUME TokensOfOneBrowser, tokens \in Nat, NEW b \in Browsers,
         tokens' \in {tokens, tokens + 1},
         \A c \in Browsers, t \in Nat \ {NoToken} : HasToken(c, t)' =>
           HasToken(c, t) \/ (c = b /\ t = tokens + 1 /\ tokens' = tokens + 1)
  PROVE  TokensOfOneBrowser'
<1> SUFFICES ASSUME NEW c \in Browsers, NEW t \in Nat \ {NoToken},
                    HasToken(c, t)'
             PROVE  /\ t <= tokens'
                    /\ \A o \in Browsers : HasToken(o, t)' => c = o
  BY DEF TokensOfOneBrowser
<1>1. CASE t = tokens + 1
  <2>1. \A o \in Browsers : ~HasToken(o, t)
    BY <1>1 DEF TokensOfOneBrowser
  <2> QED
    BY <1>1, <2>1
<1>2. CASE t # tokens + 1
  <2>1. HasToken(c, t)
    BY <1>2
  <2>2. t <= tokens /\ \A o \in Browsers : HasToken(o, t) => c = o
    BY <2>1 DEF TokensOfOneBrowser
  <2> QED
    BY <1>2, <2>2
<1> QED
  BY <1>1, <1>2

\* The same for secrets.
LEMMA SecretsKept ==
  ASSUME SecretsOfOneBrowser, secrets \in Nat, NEW b \in Browsers,
         secrets' \in {secrets, secrets + 1},
         \A c \in Browsers, s \in Nat \ {NoSecret} : HasSecret(c, s)' =>
           HasSecret(c, s) \/ (c = b /\ s = secrets + 1 /\ secrets' = secrets + 1)
  PROVE  SecretsOfOneBrowser'
<1> SUFFICES ASSUME NEW c \in Browsers, NEW s \in Nat \ {NoSecret},
                    HasSecret(c, s)'
             PROVE  /\ s <= secrets'
                    /\ \A o \in Browsers : HasSecret(o, s)' => c = o
  BY DEF SecretsOfOneBrowser
<1>1. CASE s = secrets + 1
  <2>1. \A o \in Browsers : ~HasSecret(o, s)
    BY <1>1 DEF SecretsOfOneBrowser
  <2> QED
    BY <1>1, <2>1
<1>2. CASE s # secrets + 1
  <2>1. HasSecret(c, s)
    BY <1>2
  <2>2. s <= secrets /\ \A o \in Browsers : HasSecret(o, s) => c = o
    BY <2>1 DEF SecretsOfOneBrowser
  <2> QED
    BY <1>2, <2>2
<1> QED
  BY <1>1, <1>2

\* The same for the users of secrets, when a new secret is that of u alone.
LEMMA UsersKept ==
  ASSUME site' = site, SecretsOfOneUser, secrets \in Nat, NEW u \in AnyUser,
         secrets' \in {secrets, secrets + 1},
         site.useSessions => \A s \in Nat \ {NoSecret}, v \in AnyUser :
           SecretOf(s, v)' => \/ SecretOf(s, v)
                              \/ /\ v = u /\ s = secrets + 1
                                 /\ secrets' = secrets + 1
  PROVE  SecretsOfOneUser'
<1> SUFFICES ASSUME site.useSessions, NEW s \in Nat \ {NoSecret},
                    NEW v \in AnyUser, SecretOf(s, v)'
             PROVE  /\ s <= secrets'
                    /\ \A w \in AnyUser : SecretOf(s, w)' => v = w
  BY DEF SecretsOfOneUser
<1>1. CASE s = secrets + 1
  <2>1. \A w \in AnyUser : ~SecretOf(s, w)
    BY <1>1 DEF SecretsOfOneUser
  <2> QED
    BY <1>1, <2>1
<1>2. CASE s # secrets + 1
  <2>1. SecretOf(s, v)
    BY <1>2
  <2>2. s <= secrets /\ \A w \in AnyUser : SecretOf(s, w) => v = w
    BY <2>1 DEF SecretsOfOneUser
  <2> QED
    BY <1>2, <2>2
<1> QED
  BY <1>1, <1>2
-----------------------------------------------------------------------------
\* The session data and the answers of requests.
Data == [token : Nat, status : {"unmodified", "modified", "destroyed"},
         user : AnyUser, secret : Nat]
Answer == [session : Nat \cup {Keep}, secret : Nat \cup {Keep}, page : Nat]

NewToken(t)  == t = tokens + 1 /\ tokens' = tokens + 1
NewSecret(s) == s = secrets + 1 /\ secrets' = secrets + 1

\* r goes on to d, s, a, e and k with what it had, what its session's row has,
\* or what it generates.
Local(r, to, d, s, a, e, k) ==
  /\ pc[r] \in {"enter", "identify", "handle"}
  /\ to \in {"identify", "handle", "commit"}
  /\ pc' = [pc EXCEPT ![r] = to]
  /\ data' = [data EXCEPT ![r] = d] /\ d \in Data
  /\ state' = [state EXCEPT ![r] = s] /\ s \in Nat
  /\ answer' = [answer EXCEPT ![r] = a] /\ a \in Answer
  /\ entered' = [entered EXCEPT ![r] = e] /\ e \in AnyUser
  /\ changed' = [changed EXCEPT ![r] = k] /\ k \in Changes
  /\ stored' \subseteq stored
  /\ shown \subseteq shown'
  /\ \A x \in shown' \ shown :
       /\ pc[r] = "handle" /\ InFlight(r)
       /\ x = [browser |-> input[r].browser, secret |-> state[r],
               user |-> entered[r]]
  /\ UNCHANGED <<site, row, jar, page, input, retired, replays>>
  /\ tokens' \in {tokens, tokens + 1} /\ secrets' \in {secrets, secrets + 1}
  /\ tokens' # tokens => to = "commit" /\ d.token # NoToken
  /\ d.token \in {NoToken} \cup RequestTokens(r) \/ NewToken(d.token)
  /\ \A v \in {d.secret, s, a.secret} :
       \/ v \in {NoSecret, Keep} \cup RequestSecrets(r)
       \/ InRow(input[r].session, v)
       \/ NewSecret(v)

\* It stays within its phase and its mode, and with the user of its secret.
Sound(r, to, d, s, a, e, k) ==
  /\ s # NoSecret /\ a.session = Keep
  /\ to # "commit" =>
       /\ a.page = NoSecret /\ d.token \in {NoToken, input[r].session}
       /\ input[r].kind \notin Safe => input[r].presented = s
       /\ d.user # NoUser => d.user = e /\ d.token = input[r].session
  /\ IF site.useSessions THEN a.secret = Keep
     ELSE /\ d.secret = NoSecret
          /\ d.status = "modified" => d.user # NoUser
          /\ a.secret = s /\ a.page \in {NoSecret, s}
  /\ site.useSessions /\ d.secret # NoSecret =>
       SecretOf(d.secret, d.user) \/ NewSecret(d.secret)
  /\ site.useSessions /\ to # "commit" =>
       SecretOf(s, e) \/ (NewSecret(s) /\ (d.secret = s => d.user = e))
  /\ to # "commit" => k = "none"
  /\ k \in {"login", "change"} =>
       /\ NewToken(d.token) /\ NewSecret(s)
       /\ site.useSessions => d.secret = s /\ d.status = "modified"
  /\ k \in {"switch", "logout"} =>
       /\ d.token = NoToken /\ d.secret = NoSecret
       /\ d.status # "unmodified"

\* A local step keeps each part of the invariant: types and counts,
LEMMA LocalType ==
  ASSUME IInv, NEW r \in Requests, NEW to, NEW d, NEW s, NEW a, NEW e,
         NEW k, Local(r, to, d, s, a, e, k)
  PROVE  TypeOK'
<1> USE DEF Local
<1>0. input[r].browser \in Browsers /\ state[r] \in Nat /\ entered[r] \in AnyUser
  BY DEF IInv, Phase, TypeOK
<1>1. pc' \in [Requests -> Places] /\ data' \in [Requests -> Data]
  BY DEF IInv, TypeOK, Places, Data
<1>2. state' \in [Requests -> Nat] /\ answer' \in [Requests -> Answer]
  BY DEF IInv, TypeOK, Answer
<1>3. entered' \in [Requests -> AnyUser] /\ changed' \in [Requests -> Changes]
  BY DEF IInv, TypeOK
<1>4. shown' \subseteq [browser : Browsers, secret : Nat \ {0}, user : AnyUser]
  BY <1>0 DEF IInv, TypeOK, Phase
<1>5. /\ r \notin Spent /\ Spent \subseteq Spent' /\ Spent' \subseteq Requests
      /\ tokens' # tokens => r \in Spent'
  BY DEF IInv, TypeOK, Spent
<1>6. tokens' <= Cardinality(Spent')
  <2>1. CASE tokens' = tokens
    <3>1. tokens <= Cardinality(Spent')
      BY <1>5, SpentGrows DEF IInv, TypeOK
    <3> QED
      BY <2>1, <3>1
  <2>2. CASE tokens' = tokens + 1
    <3>1. tokens' # tokens
      BY <2>2 DEF IInv, TypeOK
    <3>2. Spent \cup {r} \subseteq Spent' /\ IsFiniteSet(Spent')
      BY <1>5, <3>1, FS_Subset, ConstantsAssumption
    <3>3. /\ Cardinality(Spent \cup {r}) <= Cardinality(Spent')
          /\ IsFiniteSet(Spent \cup {r})
      BY <3>2, FS_Subset
    <3>4. tokens + 1 <= Cardinality(Spent \cup {r})
      BY <1>5, AnotherToken DEF IInv
    <3>5. Cardinality(Spent \cup {r}) \in Nat /\ Cardinality(Spent') \in Nat
      BY <3>2, <3>3, FS_CardinalityType
    <3> QED
      BY <2>2, <3>3, <3>4, <3>5 DEF IInv, TypeOK
  <2> QED
    BY <2>1, <2>2
<1>7. /\ tokens' \in Nat /\ secrets' \in Nat
      /\ stored' \subseteq 1 .. tokens'
      /\ \A t \in stored' : row'[t].secret <= secrets'
  <2>1. \A t \in stored : row[t].secret \in Nat
    BY GeneratedAreTokens DEF IInv, TypeOK
  <2> QED
    BY <2>1 DEF IInv, TypeOK
<1> QED
  BY <1>1, <1>2, <1>3, <1>4, <1>6, <1>7 DEF IInv, TypeOK, Data, Answer

\* What the places of r and of others hold after a local step.
LEMMA LocalPlaces ==
  ASSUME IInv, NEW r \in Requests, NEW to, NEW d, NEW s, NEW a, NEW e,
         NEW k, Local(r, to, d, s, a, e, k), Sound(r, to, d, s, a, e, k)
  PROVE  /\ \A q \in Requests \ {r} :
              /\ RequestTokens(q)' = RequestTokens(q)
              /\ RequestSecrets(q)' = RequestSecrets(q)
              /\ pc'[q] = pc[q] /\ data'[q] = data[q] /\ state'[q] = state[q]
              /\ answer'[q] = answer[q] /\ entered'[q] = entered[q]
              /\ changed'[q] = changed[q]
         /\ pc'[r] = to /\ data'[r] = d /\ state'[r] = s /\ answer'[r] = a
         /\ entered'[r] = e /\ changed'[r] = k
         /\ answer[r].session = Keep /\ a.session = Keep
         /\ \A t \in Nat \ {NoToken} :
              t \in RequestTokens(r)' => t \in RequestTokens(r) \/ NewToken(t)
         /\ \A v \in Nat \ {NoSecret} : v \in RequestSecrets(r)' =>
              \/ v \in RequestSecrets(r) \/ InRow(input[r].session, v)
              \/ NewSecret(v)
         /\ \A t, v : InRow(t, v)' => InRow(t, v) /\ t # tokens + 1
<1>1. /\ \A q \in Requests \ {r} :
           /\ pc'[q] = pc[q] /\ data'[q] = data[q] /\ state'[q] = state[q]
           /\ answer'[q] = answer[q] /\ entered'[q] = entered[q]
           /\ changed'[q] = changed[q]
      /\ pc'[r] = to /\ data'[r] = d /\ state'[r] = s /\ answer'[r] = a
      /\ entered'[r] = e /\ changed'[r] = k /\ input' = input
  BY DEF Local, IInv, TypeOK
<1>2. \A q \in Requests \ {r} : /\ RequestTokens(q)' = RequestTokens(q)
                                /\ RequestSecrets(q)' = RequestSecrets(q)
  BY <1>1 DEF RequestTokens, RequestSecrets
<1>3. answer[r].session = Keep /\ a.session = Keep
  BY <1>1 DEF Local, Sound, IInv, Phase
<1>4. \A t \in Nat \ {NoToken} :
        t \in RequestTokens(r)' => t \in RequestTokens(r) \/ NewToken(t)
  BY <1>1, <1>3 DEF Local, RequestTokens
<1>5. \A v \in Nat \ {NoSecret} : v \in RequestSecrets(r)' =>
        \/ v \in RequestSecrets(r) \/ InRow(input[r].session, v)
        \/ NewSecret(v)
  BY <1>1 DEF Local, RequestSecrets
<1>6. \A t, v : InRow(t, v)' => InRow(t, v) /\ t # tokens + 1
  BY DEF Local, IInv, TypeOK, InRow
<1> QED
  BY <1>1, <1>2, <1>3, <1>4, <1>5, <1>6

\* the phases of requests, and the store of the mode,
LEMMA LocalRequests ==
  ASSUME IInv, NEW r \in Requests, NEW to, NEW d, NEW s, NEW a, NEW e,
         NEW k, Local(r, to, d, s, a, e, k), Sound(r, to, d, s, a, e, k)
  PROVE  /\ \A q \in Requests : (Phase(q) /\ Presented(q))'
         /\ OneStore'
<1>1. ASSUME NEW q \in Requests PROVE Phase(q)' /\ Presented(q)'
  <2>1. Presented(q)'
    BY DEF IInv, Presented, Local
  <2>2. CASE q = r
    <3>1. to \notin {"unsent", "enter", "reply", "done"}
          /\ input' = input /\ input[r].browser \in Browsers
      BY DEF Local, IInv, Phase
    <3> QED
      BY <2>1, <2>2, <3>1, LocalPlaces DEF Sound, Phase
  <2>3. CASE q # r
    BY <2>1, <2>3, LocalPlaces DEF IInv, Phase, Local
  <2> QED
    BY <2>2, <2>3
<1>2. OneStore'
  <2>1. ASSUME NEW q \in Requests
        PROVE  /\ site.useSessions => answer'[q].secret = Keep
               /\ ~site.useSessions =>
                    /\ data'[q].secret = NoSecret
                    /\ data'[q].status = "modified" => data'[q].user # NoUser
                    /\ pc'[q] \notin {"unsent", "enter"} =>
                         /\ answer'[q].secret = state'[q]
                         /\ answer'[q].page \in {NoSecret, state'[q]}
    <3>1. CASE q = r
      BY <3>1, LocalPlaces DEF Sound
    <3>2. CASE q # r
      BY <3>2, LocalPlaces DEF IInv, OneStore
    <3> QED
      BY <3>1, <3>2
  <2>2. /\ site' = site /\ jar' = jar /\ input' = input /\ row' = row
        /\ stored' \subseteq stored
    BY DEF Local
  <2> QED
    BY <2>1, <2>2 DEF IInv, OneStore
<1> QED
  BY <1>1, <1>2

\* the browsers of tokens,
LEMMA LocalTokens ==
  ASSUME IInv, NEW r \in Requests, NEW to, NEW d, NEW s, NEW a, NEW e,
         NEW k, Local(r, to, d, s, a, e, k), Sound(r, to, d, s, a, e, k)
  PROVE  /\ TokensOfOneBrowser'
         /\ \A c \in Browsers, t \in Nat \ {NoToken} : HasToken(c, t)' =>
              \/ HasToken(c, t)
              \/ c = input[r].browser /\ NewToken(t)
<1>0. input[r].browser \in Browsers /\ input' = input /\ jar' = jar
  BY DEF IInv, Phase, Local
<1>1. ASSUME NEW c \in Browsers, NEW t \in Nat \ {NoToken}, HasToken(c, t)'
      PROVE  HasToken(c, t) \/ (c = input[r].browser /\ NewToken(t))
  <2>1. CASE jar'[c].session = t
    BY <1>0, <2>1 DEF HasToken
  <2>2. ASSUME NEW q \in Requests, input'[q].browser = c,
               t \in RequestTokens(q)'
        PROVE  HasToken(c, t) \/ (c = input[r].browser /\ NewToken(t))
    BY <1>0, <2>2, LocalPlaces DEF HasToken
  <2> QED
    BY <1>1, <2>1, <2>2 DEF HasToken
<1>2. TokensOfOneBrowser'
  <2>1. tokens \in Nat /\ tokens' \in {tokens, tokens + 1}
    BY DEF IInv, TypeOK, Local
  <2>2. \A c \in Browsers, t \in Nat \ {NoToken} : HasToken(c, t)' =>
          \/ HasToken(c, t)
          \/ c = input[r].browser /\ t = tokens + 1 /\ tokens' = tokens + 1
    BY <1>1 DEF NewToken
  <2> QED
    BY <1>0, <2>1, <2>2, TokensKept DEF IInv
<1> QED
  BY <1>1, <1>2

\* the browsers of secrets, and their users,
LEMMA LocalSecrets ==
  ASSUME IInv, NEW r \in Requests, NEW to, NEW d, NEW s, NEW a, NEW e,
         NEW k, Local(r, to, d, s, a, e, k), Sound(r, to, d, s, a, e, k)
  PROVE  SecretsOfOneBrowser'
<1> DEFINE b == input[r].browser
<1>0. /\ b \in Browsers /\ input' = input /\ jar' = jar
      /\ input[r].session \in Nat
  BY DEF IInv, Phase, Local, TypeOK
<1>1. ASSUME NEW c \in Browsers, NEW v \in Nat \ {NoSecret}, HasSecret(c, v)'
      PROVE  HasSecret(c, v) \/ (c = b /\ NewSecret(v))
  <2>1. CASE jar'[c].secret = v
    BY <1>0, <2>1 DEF HasSecret
  <2>2. ASSUME NEW q \in Requests, input'[q].browser = c,
               v \in RequestSecrets(q)'
        PROVE  HasSecret(c, v) \/ (c = b /\ NewSecret(v))
    <3>1. CASE q # r
      BY <1>0, <2>2, <3>1, LocalPlaces DEF HasSecret
    <3>2. CASE q = r
      <4>1. \/ v \in RequestSecrets(r) \/ InRow(input[r].session, v)
            \/ NewSecret(v)
        BY <2>2, <3>2, LocalPlaces
      <4>2. InRow(input[r].session, v) => HasSecret(b, v)
        BY <1>0 DEF HasSecret, HasToken, InRow, RequestTokens
      <4> QED
        BY <1>0, <2>2, <3>2, <4>1, <4>2 DEF HasSecret
    <3> QED
      BY <3>1, <3>2
  <2>3. ASSUME NEW x \in shown', x.browser = c, x.secret = v
        PROVE  HasSecret(c, v)
    <3>1. CASE x \in shown
      BY <2>3, <3>1 DEF HasSecret
    <3>2. CASE x \notin shown
      BY <2>3, <3>2 DEF Local, HasSecret, RequestSecrets
    <3> QED
      BY <3>1, <3>2
  <2>4. ASSUME NEW t \in stored', HasToken(c, t)', InRow(t, v)'
        PROVE  HasSecret(c, v)
    <3>1. InRow(t, v) /\ t # tokens + 1
      BY <2>4, LocalPlaces
    <3>2. t \in stored /\ t \in Nat \ {NoToken}
      BY <3>1 DEF InRow, IInv, TypeOK
    <3>3. HasToken(c, t)
      BY <2>4, <3>1, <3>2, LocalTokens DEF NewToken
    <3> QED
      BY <3>1, <3>2, <3>3 DEF HasSecret
  <2> QED
    BY <1>1, <2>1, <2>2, <2>3, <2>4 DEF HasSecret
<1>2. secrets \in Nat /\ secrets' \in {secrets, secrets + 1}
  BY DEF IInv, TypeOK, Local
<1>3. \A c \in Browsers, v \in Nat \ {NoSecret} : HasSecret(c, v)' =>
        \/ HasSecret(c, v)
        \/ c = b /\ v = secrets + 1 /\ secrets' = secrets + 1
  BY <1>1 DEF NewSecret
<1> QED
  BY <1>0, <1>2, <1>3, SecretsKept DEF IInv

LEMMA LocalUsers ==
  ASSUME IInv, NEW r \in Requests, NEW to, NEW d, NEW s, NEW a, NEW e,
         NEW k, Local(r, to, d, s, a, e, k), Sound(r, to, d, s, a, e, k)
  PROVE  SecretsOfOneUser'
<1> DEFINE u == IF NewSecret(d.secret) THEN d.user ELSE e
<1>0. u \in AnyUser
  BY DEF Local, Data
<1>1. ASSUME site.useSessions,
             NEW v \in Nat \ {NoSecret}, NEW w \in AnyUser, SecretOf(v, w)'
      PROVE  SecretOf(v, w) \/ (w = u /\ NewSecret(v))
  <2>1. ASSUME NEW x \in shown', x.secret = v, x.user = w
        PROVE  SecretOf(v, w)
    <3>1. CASE x \in shown
      BY <2>1, <3>1 DEF SecretOf
    <3>2. CASE x \notin shown
      BY <2>1, <3>2 DEF Local, SecretOf
    <3> QED
      BY <3>1, <3>2
  <2>2. ASSUME NEW t \in stored', InRow(t, v)', row'[t].user = w
        PROVE  SecretOf(v, w)
    BY <2>2, LocalPlaces DEF SecretOf, InRow, Local
  <2>3. ASSUME NEW q \in Requests, data'[q].secret = v, data'[q].user = w
        PROVE  SecretOf(v, w) \/ (w = u /\ NewSecret(v))
    <3>1. CASE q # r
      BY <2>3, <3>1, LocalPlaces DEF SecretOf
    <3>2. CASE q = r
      <4>1. v = d.secret /\ w = d.user
        BY <2>3, <3>2, LocalPlaces
      <4> QED
        BY <1>1, <4>1 DEF Sound
    <3> QED
      BY <3>1, <3>2
  <2>4. ASSUME NEW q \in Requests, InFlight(q)', state'[q] = v,
               entered'[q] = w
        PROVE  SecretOf(v, w) \/ (w = u /\ NewSecret(v))
    <3>1. CASE q # r
      BY <2>4, <3>1, LocalPlaces DEF SecretOf, InFlight
    <3>2. CASE q = r
      <4>1. to # "commit" /\ v = s /\ w = e
        BY <2>4, <3>2, LocalPlaces DEF InFlight
      <4>2. SecretOf(s, e) \/ (NewSecret(s) /\ (d.secret = s => d.user = e))
        BY <1>1, <4>1 DEF Sound
      <4>3. NewSecret(s) /\ NewSecret(d.secret) => d.secret = s
        BY DEF NewSecret
      <4> QED
        BY <4>1, <4>2, <4>3
    <3> QED
      BY <3>1, <3>2
  <2> QED
    BY <1>1, <2>1, <2>2, <2>3, <2>4 DEF SecretOf
<1>2. site' = site /\ secrets \in Nat /\ secrets' \in {secrets, secrets + 1}
  BY DEF IInv, TypeOK, Local
<1>3. site.useSessions => \A v \in Nat \ {NoSecret}, w \in AnyUser :
        SecretOf(v, w)' => \/ SecretOf(v, w)
                           \/ /\ w = u /\ v = secrets + 1
                              /\ secrets' = secrets + 1
  BY <1>1 DEF NewSecret
<1> HIDE DEF u
<1> QED
  BY <1>0, <1>2, <1>3, UsersKept DEF IInv

\* what a renewed request has alone,
LEMMA LocalPrivate ==
  ASSUME IInv, NEW r \in Requests, NEW to, NEW d, NEW s, NEW a, NEW e,
         NEW k, Local(r, to, d, s, a, e, k), Sound(r, to, d, s, a, e, k)
  PROVE  \A p \in Requests : (Renewed(p) => Private(p))'
<1>0. /\ input[r].browser \in Browsers /\ input' = input /\ jar' = jar
      /\ pc[r] = "handle" => state[r] \in Nat \ {NoSecret}
      /\ tokens \in Nat /\ secrets \in Nat
  BY DEF IInv, Phase, Local, TypeOK
<1> SUFFICES ASSUME NEW p \in Requests, Renewed(p)'
             PROVE  Private(p)'
  OBVIOUS
<1>1. CASE p = r
  <2>1. /\ NewToken(d.token) /\ NewSecret(s)
        /\ site.useSessions => d.secret = s /\ d.status = "modified"
    <3>1. k \in {"login", "change"}
      BY <1>1, LocalPlaces DEF Renewed
    <3> QED
      BY <3>1 DEF Sound
  <2>2. \A c \in Browsers : ~HasToken(c, d.token) /\ ~HasSecret(c, s)
    BY <1>0, <2>1 DEF IInv, TokensOfOneBrowser, SecretsOfOneBrowser, NewToken,
                      NewSecret
  <2>3. \A c \in Browsers : jar'[c].session # d.token /\ jar'[c].secret # s
    BY <1>0, <2>2 DEF HasToken, HasSecret
  <2>4. ASSUME NEW q \in Requests \ {r}
        PROVE  d.token \notin RequestTokens(q)' /\ s \notin RequestSecrets(q)'
    <3>1. CASE input[q].browser \in Browsers
      BY <2>2, <3>1, LocalPlaces DEF HasToken, HasSecret
    <3>2. CASE input[q].browser \notin Browsers
      <4>1. RequestTokens(q) \subseteq {NoToken, Keep}
            /\ RequestSecrets(q) \subseteq {NoSecret, Keep}
        BY <3>2 DEF IInv, Phase, RequestTokens, RequestSecrets, TypeOK, Places
      <4> QED
        BY <1>0, <2>1, <4>1, LocalPlaces DEF NewToken, NewSecret
    <3> QED
      BY <3>1, <3>2
  <2>5. ASSUME NEW x \in shown' PROVE x.secret # s
    <3>1. x \in shown => HasSecret(x.browser, x.secret) /\ x.browser \in Browsers
      BY DEF HasSecret, IInv, TypeOK
    <3>2. x \notin shown => HasSecret(x.browser, x.secret) /\ x.browser \in Browsers
      BY <1>0 DEF HasSecret, Local, RequestSecrets
    <3> QED
      BY <2>2, <3>1, <3>2
  <2>6. ASSUME NEW m \in stored', m # d.token PROVE row'[m].secret # s
    <3>1. row[m].secret \in Nat /\ row[m].secret <= secrets
      BY GeneratedAreTokens DEF IInv, TypeOK, Local
    <3> QED
      BY <1>0, <2>1, <3>1 DEF Local, NewSecret
  <2>7. state'[r] = s /\ data'[r] = d /\ pc'[r] # "reply" /\ d.token # NoToken
    <3>1. to # "reply" /\ d.token # NoToken
      BY <1>0, <2>1 DEF Local, NewToken
    <3> QED
      BY <3>1, LocalPlaces
  <2> QED
    BY <1>1, <2>1, <2>3, <2>4, <2>5, <2>6, <2>7 DEF Private, Local
<1>2. CASE p # r
  <2> DEFINE v == state[p]
             t == data[p].token
  <2>1. Renewed(p)
    BY <1>2, LocalPlaces DEF Renewed
  <2>2. Private(p) /\ v \in Nat \ {NoSecret} /\ t \in Nat \ {NoToken}
    BY <2>1 DEF IInv, Renewed, Phase, Private, TypeOK
  <2>3. input[p].browser \in Browsers
    BY <2>1 DEF IInv, Phase, Renewed
  <2>4. t <= tokens /\ v <= secrets
    <3>1. HasToken(input[p].browser, t) /\ HasSecret(input[p].browser, v)
      BY DEF HasToken, HasSecret, RequestTokens, RequestSecrets
    <3> QED
      BY <2>2, <2>3, <3>1 DEF IInv, TokensOfOneBrowser, SecretsOfOneBrowser
  <2>5. state'[p] = v /\ data'[p] = data[p] /\ pc'[p] = pc[p]
        /\ answer'[p] = answer[p]
    BY <1>2, LocalPlaces
  <2>6. \A c \in Browsers : jar'[c].session # t /\ jar'[c].secret # v
    BY <1>0, <2>2 DEF Private
  <2>7. t \notin RequestTokens(r) /\ v \notin RequestSecrets(r)
        /\ ~InRow(input[r].session, v)
    BY <1>2, <2>2 DEF Private, InRow, RequestTokens
  <2>8. t \notin RequestTokens(r)' /\ v \notin RequestSecrets(r)'
    BY <1>0, <2>2, <2>4, <2>7, LocalPlaces DEF NewToken, NewSecret
  <2>9. ASSUME NEW q \in Requests \ {p}
        PROVE  t \notin RequestTokens(q)' /\ v \notin RequestSecrets(q)'
    <3>1. CASE q = r
      BY <2>8, <3>1
    <3>2. CASE q # r
      BY <2>2, <3>2, LocalPlaces DEF Private
    <3> QED
      BY <3>1, <3>2
  <2>10. ASSUME NEW x \in shown' PROVE x.secret # v
    <3>1. x \in shown => x.secret # v
      BY <2>2 DEF Private
    <3>2. x \notin shown => x.secret # v
      BY <2>7 DEF Local, RequestSecrets
    <3> QED
      BY <3>1, <3>2
  <2>11. /\ \A m \in stored' : m # t => row'[m].secret # v
         /\ t \in stored' => t \in stored
         /\ row' = row /\ site' = site
    BY <2>2 DEF Private, Local
  <2> QED
    BY <2>2, <2>5, <2>6, <2>9, <2>10, <2>11 DEF Private
<1> QED
  BY <1>1, <1>2

\* what a flushed request has not,
LEMMA LocalBlank ==
  ASSUME IInv, NEW r \in Requests, NEW to, NEW d, NEW s, NEW a, NEW e,
         NEW k, Local(r, to, d, s, a, e, k), Sound(r, to, d, s, a, e, k)
  PROVE  \A p \in Requests : (Flushed(p) => Blank(p))'
<1> SUFFICES ASSUME NEW p \in Requests, Flushed(p)'
             PROVE  Blank(p)'
  OBVIOUS
<1>1. CASE p = r
  <2>1. k \in {"switch", "logout"} /\ data'[r] = d /\ pc'[r] = to
    BY <1>1, LocalPlaces DEF Flushed
  <2>2. to # "reply"
    BY DEF Local
  <2> QED
    BY <1>1, <2>1, <2>2 DEF Sound, Blank
<1>2. CASE p # r
  <2> DEFINE t == answer[p].session
  <2>1. /\ pc'[p] = pc[p] /\ data'[p] = data[p] /\ answer'[p] = answer[p]
        /\ changed'[p] = changed[p]
        /\ site' = site /\ jar' = jar /\ row' = row /\ stored' \subseteq stored
        /\ tokens \in Nat
    BY <1>2, LocalPlaces DEF Local, IInv, TypeOK
  <2>2. Blank(p)
    BY <2>1 DEF IInv, Flushed
  <2>3. ASSUME pc[p] = "reply", t # NoToken
        PROVE  /\ t # Keep /\ Alone(p, t)'
               /\ t \in stored' => row'[t].secret = NoSecret
    <3>1. /\ t # Keep /\ Alone(p, t) /\ t \in Nat \ {NoToken}
          /\ t \in stored => row[t].secret = NoSecret
      BY <2>2, <2>3 DEF Blank, IInv, TypeOK
    <3>2. t <= tokens
      <4>1. input[p].browser \in Browsers /\ HasToken(input[p].browser, t)
        BY <2>3 DEF IInv, Phase, HasToken, RequestTokens
      <4> QED
        BY <3>1, <4>1 DEF IInv, TokensOfOneBrowser
    <3>3. t \notin RequestTokens(r)'
      BY <1>2, <2>1, <3>1, <3>2, LocalPlaces DEF Alone, NewToken
    <3>4. ASSUME NEW q \in Requests \ {p} PROVE t \notin RequestTokens(q)'
      BY <3>1, <3>3, <3>4, LocalPlaces DEF Alone
    <3> QED
      BY <2>1, <3>1, <3>4 DEF Alone
  <2> QED
    BY <2>1, <2>2, <2>3 DEF Blank
<1> QED
  BY <1>1, <1>2

\* and that what was retired is nowhere to be found.
LEMMA LocalDead ==
  ASSUME IInv, NEW r \in Requests, NEW to, NEW d, NEW s, NEW a, NEW e,
         NEW k, Local(r, to, d, s, a, e, k), Sound(r, to, d, s, a, e, k)
  PROVE  RetiredAreDead'
<1> DEFINE b == input[r].browser
<1>0. /\ b \in Browsers /\ input' = input /\ jar' = jar /\ retired' = retired
      /\ shown \subseteq shown'
      /\ Active(r)
  BY DEF IInv, Phase, Local, TypeOK, Active
<1>1. ASSUME NEW c \in Browsers, NEW v \in Nat \ {NoSecret}, Live(c, v)'
      PROVE  Live(c, v) \/ NewSecret(v)
  <2>1. CASE jar'[c].secret = v \/ InRow(jar[c].session, v)'
    BY <1>0, <2>1, LocalPlaces DEF Live
  <2>2. ASSUME NEW q \in Requests, Active(q)', input[q].browser = c,
               \/ v \in RequestSecrets(q)'
               \/ InRow(input[q].session, v)'
               \/ InRow(answer[q].session, v)'
        PROVE  Live(c, v) \/ NewSecret(v)
    <3>1. CASE q # r
      BY <1>0, <2>2, <3>1, LocalPlaces DEF Live, Active
    <3>2. CASE q = r
      <4>1. answer'[r].session = answer[r].session
        BY LocalPlaces
      <4>2. CASE v \in RequestSecrets(r)'
        <5>1. \/ v \in RequestSecrets(r) \/ InRow(input[r].session, v)
              \/ NewSecret(v)
          BY <4>2, LocalPlaces
        <5> QED
          BY <1>0, <2>2, <3>2, <5>1 DEF Live
      <4>3. CASE InRow(input[r].session, v)' \/ InRow(answer[r].session, v)'
        <5>1. InRow(input[r].session, v) \/ InRow(answer[r].session, v)
          BY <1>0, <4>1, <4>3, LocalPlaces
        <5> QED
          BY <1>0, <2>2, <3>2, <5>1 DEF Live
      <4> QED
        BY <2>2, <3>2, <4>2, <4>3
    <3> QED
      BY <3>1, <3>2
  <2> QED
    BY <1>0, <1>1, <2>1, <2>2 DEF Live
<1>2. ASSUME NEW x \in retired, x.kind \notin Unrotated
      PROVE  ~Live(x.browser, x.secret)'
  <2>1. ~Live(x.browser, x.secret) /\ x.browser \in Browsers
        /\ x.secret \in Nat \ {NoSecret}
    BY <1>2 DEF IInv, RetiredAreDead, TypeOK
  <2>2. HasSecret(x.browser, x.secret)
    BY DEF IInv, RetiredAreDead, ShownTo, HasSecret
  <2>3. ~NewSecret(x.secret)
    BY <2>1, <2>2 DEF IInv, SecretsOfOneBrowser, NewSecret, TypeOK
  <2> QED
    BY <1>1, <2>1, <2>3
<1>3. Unrotated' = Unrotated
  BY DEF Unrotated, Local
<1> QED
  BY <1>0, <1>2, <1>3 DEF IInv, RetiredAreDead, ShownTo

\* A local step keeps the invariant.
LEMMA LocalStep ==
  ASSUME IInv, NEW r \in Requests, NEW to, NEW d, NEW s, NEW a, NEW e,
         NEW k, Local(r, to, d, s, a, e, k), Sound(r, to, d, s, a, e, k)
  PROVE  IInv'
<1>1. LastPageSubmittable'
  BY DEF IInv, LastPageSubmittable, Local
<1> QED
  BY <1>1, LocalType, LocalRequests, LocalTokens, LocalSecrets, LocalUsers,
     LocalPrivate, LocalBlank, LocalDead DEF IInv
-----------------------------------------------------------------------------
\* The actions. What a request that is being handled knows of itself:
LEMMA Handling ==
  ASSUME IInv, NEW r \in Requests, pc[r] \in {"identify", "handle"}
  PROVE  /\ data[r] \in Data /\ state[r] \in Nat \ {NoSecret}
         /\ answer[r] \in Answer /\ answer[r].page = NoSecret
         /\ answer[r].session = Keep /\ entered[r] \in AnyUser
         /\ InFlight(r) /\ SecretOf(state[r], entered[r])
         /\ SecretOf(data[r].secret, data[r].user)
         /\ {data[r].secret, state[r], answer[r].secret} \subseteq RequestSecrets(r)
         /\ data[r].token \in {NoToken, input[r].session}
         /\ data[r].token \in RequestTokens(r)
         /\ data[r].user # NoUser =>
              data[r].user = entered[r] /\ data[r].token = input[r].session
         /\ input[r].kind \notin Safe => input[r].presented = state[r]
         /\ site.useSessions => answer[r].secret = Keep
         /\ ~site.useSessions =>
              /\ data[r].secret = NoSecret
              /\ data[r].status = "modified" => data[r].user # NoUser
              /\ answer[r].secret = state[r]
<1>1. data[r] \in Data /\ state[r] \in Nat /\ answer[r] \in Answer
      /\ entered[r] \in AnyUser
  BY DEF IInv, TypeOK, Data, Answer
<1>2. InFlight(r)
  BY DEF InFlight
<1>3. /\ SecretOf(state[r], entered[r])
      /\ SecretOf(data[r].secret, data[r].user)
  BY <1>2 DEF SecretOf
<1> QED
  BY <1>1, <1>2, <1>3 DEF IInv, Phase, OneStore, RequestSecrets, RequestTokens

\* Before the end of its handler it has changed nothing.
LEMMA Unmarked ==
  ASSUME IInv, NEW r \in Requests, pc[r] \in {"enter", "identify", "handle"},
         changed' = changed
  PROVE  changed' = [changed EXCEPT ![r] = "none"]
<1>1. changed[r] = "none"
  BY DEF IInv, Phase
<1>2. changed \in [Requests -> Changes]
  BY DEF IInv, TypeOK
<1> QED
  BY <1>1, <1>2

\* The middleware finds or generates the secret, and refuses or goes on.
LEMMA EnterStep ==
  ASSUME IInv, NEW r \in Requests, Enter(r), UNCHANGED site
  PROVE  IInv'
<1> DEFINE d == Loaded(r)
           found == StoredSecret(r, d) # NoSecret
           s == IF found THEN StoredSecret(r, d) ELSE secrets + 1
           a == Issued(NoAnswer, s, found)
<1>1. /\ pc[r] = "enter" /\ data[r] = NewSession /\ input[r].browser \in Browsers
      /\ input[r].session \in Nat /\ input[r].secret \in Nat
      /\ secrets \in Nat /\ tokens \in Nat
      /\ site.useSessions \in BOOLEAN
  BY ConstantsAssumption DEF Enter, Goto, IInv, TypeOK, Phase
<1>2. /\ d \in Data /\ d.token \in {NoToken, input[r].session}
      /\ d.user # NoUser => d.token = input[r].session
      /\ d.secret # NoSecret =>
           InRow(input[r].session, d.secret) /\ SecretOf(d.secret, d.user)
      /\ ~site.useSessions =>
           /\ d.secret = NoSecret
           /\ d.status = "modified" => d.user # NoUser
  <2>1. CASE input[r].session \in stored
    <3>1. row[input[r].session] \in [user : AnyUser, secret : Nat]
      BY <2>1, GeneratedAreTokens DEF IInv, TypeOK
    <3>2. d = [token |-> input[r].session, user |-> row[input[r].session].user,
               secret |-> row[input[r].session].secret,
               status |-> IF IdleTimeout THEN "modified" ELSE "unmodified"]
      BY <2>1 DEF Loaded
    <3> QED
      BY <1>1, <2>1, <3>1, <3>2 DEF Data, InRow, SecretOf, IInv, OneStore
  <2>2. CASE input[r].session \notin stored
    BY <2>2 DEF Loaded, Data, AnyUser
  <2> QED
    BY <2>1, <2>2
<1>3. /\ s \in Nat \ {NoSecret}
      /\ \/ s \in RequestSecrets(r) \/ InRow(input[r].session, s)
         \/ s = secrets + 1 /\ secrets' = secrets + 1
      /\ secrets' \in {secrets, secrets + 1}
      /\ site.useSessions /\ found => s = d.secret /\ SecretOf(s, d.user)
      /\ ~found => s = secrets + 1 /\ secrets' = secrets + 1
  BY <1>1, <1>2 DEF Enter, StoredSecret, RequestSecrets, Data
<1>4. /\ a \in Answer /\ a.session = Keep /\ a.page = NoSecret
      /\ a.secret = IF site.useSessions THEN Keep ELSE s
  BY <1>3 DEF Issued, Answer
<1>5. /\ Saved(d, s) \in Data /\ Saved(d, s).token = d.token
      /\ Saved(d, s).user = d.user
      /\ Saved(d, s).secret = IF site.useSessions THEN s ELSE NoSecret
      /\ ~site.useSessions => Saved(d, s) = d
  BY <1>2, <1>3 DEF Saved, Data
<1>6. PICK to \in {"identify", "commit"} :
        /\ pc' = [pc EXCEPT ![r] = to]
        /\ to = "identify" => Accepts(r, s, found)
  BY DEF Enter, Goto
<1>7. /\ data' = [data EXCEPT ![r] = Saved(d, s)]
      /\ answer' = [answer EXCEPT ![r] = a]
      /\ state' = [state EXCEPT ![r] = s]
      /\ entered' = [entered EXCEPT ![r] = d.user]
      /\ changed' = [changed EXCEPT ![r] = "none"]
      /\ UNCHANGED <<stored, row, jar, page, input, tokens, shown, retired,
                     replays>>
  BY <1>1, Unmarked DEF Enter
<1> HIDE DEF d, found, s, a
<1>8. Local(r, to, Saved(d, s), s, a, d.user, "none")
  <2>1. Saved(d, s).token \in {NoToken} \cup RequestTokens(r)
    BY <1>2, <1>5 DEF RequestTokens
  <2>2. \A v \in {Saved(d, s).secret, s, a.secret} :
          \/ v \in {NoSecret, Keep} \cup RequestSecrets(r)
          \/ InRow(input[r].session, v)
          \/ NewSecret(v)
    BY <1>1, <1>2, <1>3, <1>4, <1>5 DEF NewSecret
  <2>3. d.user \in AnyUser /\ "none" \in Changes /\ to \in {"identify", "commit"}
    BY <1>2, <1>6 DEF Data, Changes
  <2> QED
    BY <1>1, <1>3, <1>4, <1>5, <1>6, <1>7, <2>1, <2>2, <2>3 DEF Local
<1>9. Sound(r, to, Saved(d, s), s, a, d.user, "none")
  BY <1>1, <1>2, <1>3, <1>4, <1>5, <1>6 DEF Sound, NewSecret, Accepts
<1> QED
  BY <1>8, <1>9, LocalStep

\* The authentication middleware lets the session through.
LEMMA AdmitStep ==
  ASSUME IInv, NEW r \in Requests, Admit(r), UNCHANGED site
  PROVE  IInv'
<1>1. /\ pc[r] = "identify" /\ pc' = [pc EXCEPT ![r] = "handle"]
      /\ UNCHANGED <<stored, row, jar, page, input, data, state, answer,
                     generated, entered, shown, retired, replays>>
      /\ changed' = [changed EXCEPT ![r] = "none"]
  BY Unmarked DEF Admit, Goto
<1>2. Local(r, "handle", data[r], state[r], answer[r], entered[r], "none")
  BY <1>1, Handling DEF Local, IInv, TypeOK
<1>3. Sound(r, "handle", data[r], state[r], answer[r], entered[r], "none")
  BY <1>1, Handling DEF Sound
<1> QED
  BY <1>2, <1>3, LocalStep

\* Drop and Logout: the row is deleted and the session data is new.
LEMMA FlushStep ==
  ASSUME IInv, NEW r \in Requests, UNCHANGED site, Flush(r),
         NEW to \in {"handle", "commit"}, pc' = [pc EXCEPT ![r] = to],
         pc[r] \in {"identify", "handle"},
         NEW k \in {"none", "logout"}, to = "handle" => k = "none",
         changed' = [changed EXCEPT ![r] = k],
         UNCHANGED <<row, jar, page, input, state, answer, generated, entered,
                     shown, retired, replays>>
  PROVE  IInv'
<1> DEFINE d == [NewSession EXCEPT !.status = "destroyed"]
<1>1. d \in Data /\ d.token = NoToken /\ d.user = NoUser /\ d.secret = NoSecret
      /\ d.status = "destroyed"
  BY DEF Data, AnyUser
<1>2. data' = [data EXCEPT ![r] = d] /\ stored' \subseteq stored
  BY DEF Flush
<1> HIDE DEF d
<1>3. Local(r, to, d, state[r], answer[r], entered[r], k)
  BY <1>1, <1>2, Handling DEF Local, IInv, TypeOK
<1>4. Sound(r, to, d, state[r], answer[r], entered[r], k)
  BY <1>1, Handling DEF Sound
<1> QED
  BY <1>3, <1>4, LocalStep

\* A form shows the secret of its request.
LEMMA ShowFormStep ==
  ASSUME IInv, NEW r \in Requests, ShowForm(r), UNCHANGED site
  PROVE  IInv'
<1> DEFINE a == [answer[r] EXCEPT !.page = state[r]]
<1>1. /\ pc[r] = "handle" /\ pc' = [pc EXCEPT ![r] = "commit"]
      /\ answer' = [answer EXCEPT ![r] = a]
      /\ shown' = shown \cup {[browser |-> input[r].browser,
                               secret |-> state[r], user |-> entered[r]]}
      /\ UNCHANGED <<stored, row, jar, page, input, data, state, generated,
                     entered, retired, replays>>
      /\ changed' = [changed EXCEPT ![r] = "none"]
      /\ input[r].kind # "login" => input[r].kind \in {"view", "change"}
      /\ input[r].kind = "change" => data[r].user # NoUser
  BY Unmarked DEF ShowForm, Render, Goto, IInv, TypeOK
<1>2. /\ a \in Answer /\ a.session = Keep /\ a.secret = answer[r].secret
      /\ a.page = state[r]
  BY <1>1, Handling DEF Answer
<1> HIDE DEF a
<1>3. Local(r, "commit", data[r], state[r], a, entered[r], "none")
  BY <1>1, <1>2, Handling DEF Local, IInv, TypeOK
<1>4. Sound(r, "commit", data[r], state[r], a, entered[r], "none")
  BY <1>1, <1>2, Handling DEF Sound
<1> QED
  BY <1>3, <1>4, LocalStep

\* Another handler writes nothing.
LEMMA PostStep ==
  ASSUME IInv, NEW r \in Requests, Post(r), UNCHANGED site
  PROVE  IInv'
<1>1. /\ pc[r] = "handle" /\ pc' = [pc EXCEPT ![r] = "commit"]
      /\ UNCHANGED <<stored, row, jar, page, input, data, state, answer,
                     generated, entered, shown, retired, replays>>
      /\ changed' = [changed EXCEPT ![r] = "none"]
      /\ input[r].kind \in {"post", "change"}
  BY Unmarked DEF Post, Goto
<1>2. Local(r, "commit", data[r], state[r], answer[r], entered[r], "none")
  BY <1>1, Handling DEF Local, IInv, TypeOK
<1>3. Sound(r, "commit", data[r], state[r], answer[r], entered[r], "none")
  BY <1>1, Handling DEF Sound
<1> QED
  BY <1>2, <1>3, LocalStep

\* SignIn and ChangePassword: a new token and a new secret.
LEMMA CycleStep ==
  ASSUME IInv, NEW r \in Requests, NEW u \in Users, Cycle(r, u),
         UNCHANGED site,
         pc[r] = "handle", pc' = [pc EXCEPT ![r] = "commit"],
         NEW k \in {"login", "change"}, Marked(r, k),
         UNCHANGED <<row, jar, page, input>>
  PROVE  IInv'
<1> DEFINE d == Saved([token |-> tokens', status |-> "modified", user |-> u,
                       secret |-> data[r].secret], secrets')
           a == Issued(answer[r], secrets', FALSE)
<1>1. /\ tokens' = tokens + 1 /\ secrets' = secrets + 1
      /\ tokens \in Nat /\ secrets \in Nat
      /\ stored' \subseteq stored
      /\ data' = [data EXCEPT ![r] = d]
      /\ answer' = [answer EXCEPT ![r] = a]
      /\ state' = [state EXCEPT ![r] = secrets']
      /\ changed' = [changed EXCEPT ![r] = k]
      /\ UNCHANGED <<entered, shown, retired, replays>>
  BY DEF Cycle, Marked, IInv, TypeOK
<1>2. /\ d \in Data /\ d.token = tokens' /\ d.user = u
      /\ d.status = "modified"
      /\ d.secret = IF site.useSessions THEN secrets' ELSE NoSecret
  <2> DEFINE x == [token |-> tokens', status |-> "modified", user |-> u,
                   secret |-> data[r].secret]
  <2>1. x \in Data /\ data[r].secret \in Nat /\ secrets' \in Nat
    BY <1>1, Handling DEF Data, AnyUser
  <2>2. CASE site.useSessions
    BY <1>1, <2>1, <2>2 DEF Saved, Data
  <2>3. CASE ~site.useSessions
    <3>1. data[r].secret = NoSecret
      BY <2>3, Handling
    <3> QED
      BY <1>1, <2>1, <2>3, <3>1 DEF Saved, Data
  <2> QED
    BY <2>2, <2>3
<1>3. /\ a \in Answer /\ a.session = Keep /\ a.page = NoSecret
      /\ a.secret = IF site.useSessions THEN Keep ELSE secrets'
  BY <1>1, Handling DEF Issued, Answer
<1> HIDE DEF d, a
<1>4. Local(r, "commit", d, secrets', a, entered[r], k)
  BY <1>1, <1>2, <1>3, Handling DEF Local, IInv, TypeOK, NewToken, NewSecret
<1>5. u # NoUser
  BY ConstantsAssumption
<1>6. Sound(r, "commit", d, secrets', a, entered[r], k)
  BY <1>1, <1>2, <1>3, <1>5 DEF Sound, NewToken, NewSecret
<1> QED
  BY <1>4, <1>6, LocalStep

\* Another user signs in over a session, which is flushed.
LEMMA SwitchUserStep ==
  ASSUME IInv, NEW r \in Requests, SwitchUser(r), UNCHANGED site
  PROVE  IInv'
<1>1. /\ pc[r] = "handle" /\ pc' = [pc EXCEPT ![r] = "commit"]
      /\ input[r].kind = "login" /\ data[r].user # NoUser
      /\ stored' \subseteq stored
      /\ changed' = [changed EXCEPT ![r] = "switch"]
      /\ UNCHANGED <<row, jar, page, input, state, answer, generated, entered,
                     shown, retired, replays>>
  BY DEF SwitchUser, Marked, Handles, Goto
<1>2. PICK u \in Users :
        data' = [data EXCEPT ![r] = [NewSession EXCEPT !.user = u,
                                                       !.status = "modified"]]
  BY ConstantsAssumption DEF SwitchUser, IInv, TypeOK
<1> DEFINE d == [NewSession EXCEPT !.user = u, !.status = "modified"]
<1>3. /\ d \in Data /\ d.token = NoToken /\ d.user = u /\ d.secret = NoSecret
      /\ d.status = "modified"
  BY DEF Data, AnyUser
<1>4. data' = [data EXCEPT ![r] = d] /\ u # NoUser
  BY <1>2, ConstantsAssumption
<1> HIDE DEF d
<1>5. Local(r, "commit", d, state[r], answer[r], entered[r], "switch")
  BY <1>1, <1>3, <1>4, Handling DEF Local, IInv, TypeOK
<1>6. Sound(r, "commit", d, state[r], answer[r], entered[r], "switch")
  BY <1>1, <1>3, <1>4, Handling DEF Sound
<1> QED
  BY <1>5, <1>6, LocalStep

\* The same user signs in again: nothing is rotated.
LEMMA SignInAgainStep ==
  ASSUME IInv, NEW r \in Requests, SignInAgain(r), UNCHANGED site
  PROVE  IInv'
<1> DEFINE d == [data[r] EXCEPT !.status = "modified"]
<1>1. /\ pc[r] = "handle" /\ pc' = [pc EXCEPT ![r] = "commit"]
      /\ input[r].kind = "login" /\ data[r].user # NoUser
      /\ data' = [data EXCEPT ![r] = d]
      /\ changed' = [changed EXCEPT ![r] = "again"]
      /\ UNCHANGED <<stored, row, jar, page, input, state, answer, generated,
                     entered, shown, retired, replays>>
  BY DEF SignInAgain, Marked, Handles, Goto, IInv, TypeOK
<1>2. /\ d \in Data /\ d.token = data[r].token /\ d.user = data[r].user
      /\ d.secret = data[r].secret
  BY <1>1, Handling DEF Data
<1> HIDE DEF d
<1>3. Local(r, "commit", d, state[r], answer[r], entered[r], "again")
  BY <1>1, <1>2, Handling DEF Local, IInv, TypeOK
<1>4. Sound(r, "commit", d, state[r], answer[r], entered[r], "again")
  BY <1>1, <1>2, Handling DEF Sound
<1> QED
  BY <1>3, <1>4, LocalStep

\* A request is sent with what its browser has.
LEMMA SendStep ==
  ASSUME IInv, NEW r \in Requests, Send(r), UNCHANGED site
  PROVE  IInv'
<1>1. PICK b \in site.browsers, k \in site.kinds,
           s \in {NoSecret} \cup {x.secret : x \in shown} :
        /\ Cardinality({q \in Requests : pc[q] \notin {"unsent", "done"}})
             < MaxOverlap
        /\ Goto(r, "unsent", "enter")
        /\ k \in Safe => s = NoSecret
        /\ input' = [input EXCEPT ![r] =
             [browser |-> b, kind |-> k, session |-> jar[b].session,
              secret |-> jar[b].secret, presented |-> s]]
        /\ replays' = [replays EXCEPT ![r] =
             {x.kind : x \in {y \in retired : y.browser = b /\ y.secret = s}}]
        /\ UNCHANGED <<stored, row, jar, page, data, state, answer, generated,
                       entered, changed, shown, retired>>
  BY Zenon DEF Send
<1>2. /\ pc[r] = "unsent" /\ pc' = [pc EXCEPT ![r] = "enter"]
      /\ UNCHANGED <<site, stored, row, jar, page, data, state, answer, tokens,
                     secrets, entered, changed, shown, retired>>
  BY <1>1 DEF Goto
<1>3. /\ b \in Browsers /\ k \in AllKinds /\ s \in Nat
      /\ jar[b] \in [session : Nat, secret : Nat]
      /\ s # NoSecret => \E x \in shown : x.secret = s
      /\ data[r] = NewSession /\ state[r] = NoSecret /\ answer[r] = NoAnswer
  BY <1>1, <1>2, ConstantsAssumption DEF IInv, TypeOK, Phase
<1>4. /\ \A q \in Requests \ {r} :
           input'[q] = input[q] /\ pc'[q] = pc[q] /\ replays'[q] = replays[q]
      /\ pc'[r] = "enter" /\ input'[r].browser = b
      /\ input'[r].session = jar[b].session /\ input'[r].secret = jar[b].secret
      /\ input'[r].presented = s /\ input'[r].kind = k
      /\ replays'[r] = {x.kind : x \in {y \in retired : y.browser = b /\ y.secret = s}}
  BY <1>1, <1>2 DEF IInv, TypeOK
<1>5. /\ \A q \in Requests \ {r} : /\ RequestTokens(q)' = RequestTokens(q)
                                   /\ RequestSecrets(q)' = RequestSecrets(q)
      /\ RequestTokens(r)' \subseteq {NoToken, Keep, jar[b].session}
      /\ RequestSecrets(r)' \subseteq {NoSecret, Keep, jar[b].secret}
      /\ \A t, v : InRow(t, v)' = InRow(t, v)
  BY <1>2, <1>3, <1>4 DEF RequestTokens, RequestSecrets, InRow
<1>6. TypeOK'
  <2>1. input' \in [Requests ->
          [browser : Browsers \cup {NoBrowser}, kind : AllKinds, session : Nat,
           secret : Nat, presented : Nat]]
    BY <1>1, <1>3 DEF IInv, TypeOK
  <2>2. replays' \in [Requests -> SUBSET Changes]
    BY <1>1, <1>3 DEF IInv, TypeOK
  <2>3. pc' \in [Requests -> Places]
    BY <1>2 DEF IInv, TypeOK, Places
  <2>4. tokens' <= Cardinality(Spent')
    <3>1. Spent \subseteq Spent' /\ Spent' \subseteq Requests
      BY <1>2, <1>4 DEF Spent
    <3>2. tokens <= Cardinality(Spent')
      BY <3>1, SpentGrows DEF IInv, TypeOK
    <3> QED
      BY <1>2, <3>2
  <2> QED
    BY <1>2, <2>1, <2>2, <2>3, <2>4 DEF IInv, TypeOK
<1>7. ASSUME NEW q \in Requests PROVE Phase(q)' /\ Presented(q)'
  <2>1. CASE q # r
    BY <1>2, <1>4, <2>1 DEF IInv, Phase, Presented
  <2>2. CASE q = r
    <3>1. Phase(r)'
      <4>1. changed'[r] = "none"
        BY <1>2 DEF IInv, Phase
      <4> QED
        BY <1>2, <1>3, <1>4, <4>1 DEF Phase
    <3>2. \A x \in retired : x = [browser |-> x.browser, kind |-> x.kind,
                                  secret |-> x.secret]
      BY DEF IInv, TypeOK
    <3>3. /\ input'[r].kind \in Safe => input'[r].presented = NoSecret
          /\ input'[r].presented # NoSecret =>
               \E x \in shown' : x.secret = input'[r].presented
      BY <1>1, <1>2, <1>3, <1>4
    <3>4. ASSUME NEW m \in replays'[r]
          PROVE  [browser |-> input'[r].browser, kind |-> m,
                  secret |-> input'[r].presented] \in retired'
      <4>1. PICK x \in retired : x.browser = b /\ x.secret = s /\ x.kind = m
        BY <1>4
      <4>2. x = [browser |-> b, kind |-> m, secret |-> s]
        BY <3>2, <4>1
      <4> QED
        BY <1>2, <1>4, <4>1, <4>2
    <3>5. Presented(r)'
      BY <3>3, <3>4 DEF Presented
    <3> QED
      BY <2>2, <3>1, <3>5
  <2> QED
    BY <2>1, <2>2
<1>8. OneStore'
  BY <1>2, <1>3, <1>4 DEF IInv, OneStore
<1>9. \A c \in Browsers, t \in Nat \ {NoToken} :
        HasToken(c, t)' => HasToken(c, t)
  BY <1>2, <1>4, <1>5 DEF HasToken
<1>10. TokensOfOneBrowser'
  BY <1>2, <1>9 DEF IInv, TokensOfOneBrowser
<1>11. ASSUME NEW c \in Browsers, NEW v \in Nat \ {NoSecret}, HasSecret(c, v)'
       PROVE  HasSecret(c, v)
  <2>1. ASSUME NEW t \in stored', HasToken(c, t)', InRow(t, v)'
        PROVE  HasSecret(c, v)
    <3>1. t \in stored
      BY <1>2, <2>1
    <3>2. t \in Nat \ {NoToken}
      BY <3>1, GeneratedAreTokens DEF IInv
    <3> QED
      BY <1>5, <1>9, <2>1, <3>1, <3>2 DEF HasSecret
  <2> QED
    BY <1>2, <1>4, <1>5, <1>11, <2>1 DEF HasSecret
<1>12. SecretsOfOneBrowser'
  BY <1>2, <1>11 DEF IInv, SecretsOfOneBrowser
<1>13. SecretsOfOneUser'
  <2>1. \A v \in Nat \ {NoSecret}, u \in AnyUser : SecretOf(v, u)' => SecretOf(v, u)
    BY <1>2, <1>4, <1>5 DEF SecretOf, InFlight
  <2> QED
    BY <1>2, <2>1 DEF IInv, SecretsOfOneUser
<1>14. ASSUME NEW p \in Requests, Renewed(p)' PROVE Private(p)'
  <2>1. p # r /\ Renewed(p)
    BY <1>2, <1>4, <1>14 DEF Renewed
  <2>2. Private(p) /\ state[p] \in Nat \ {NoSecret} /\ data[p].token \in Nat \ {NoToken}
    BY <2>1 DEF IInv, Renewed, Phase, Private, TypeOK
  <2>3. data[p].token \notin RequestTokens(r)' /\ state[p] \notin RequestSecrets(r)'
    BY <1>3, <1>5, <2>2 DEF Private
  <2> QED
    BY <1>2, <1>4, <1>5, <2>1, <2>2, <2>3 DEF Private
<1>14a. ASSUME NEW p \in Requests, Flushed(p)' PROVE Blank(p)'
  <2>1. p # r /\ Flushed(p) /\ pc'[p] = pc[p]
    BY <1>2, <1>4, <1>14a DEF Flushed
  <2>2. Blank(p)
    BY <2>1 DEF IInv
  <2>3. ASSUME NEW t \in Nat \ {NoToken}, Alone(p, t) PROVE Alone(p, t)'
    <3>1. t \notin RequestTokens(r)'
      BY <1>3, <1>5, <2>3 DEF Alone
    <3> QED
      BY <1>2, <1>5, <2>3, <3>1 DEF Alone
  <2>4. answer[p].session \in Nat \cup {Keep}
    BY DEF IInv, TypeOK
  <2> QED
    BY <1>2, <2>1, <2>2, <2>3, <2>4 DEF Blank
<1>15. RetiredAreDead'
  <2>1. ASSUME NEW c \in Browsers, NEW v \in Nat \ {NoSecret}, Live(c, v)'
        PROVE  Live(c, v)
    <3>1. CASE jar'[c].secret = v \/ InRow(jar[c].session, v)'
      BY <1>2, <1>5, <3>1 DEF Live
    <3>2. ASSUME NEW q \in Requests, Active(q)', input'[q].browser = c,
                 \/ v \in RequestSecrets(q)'
                 \/ InRow(input'[q].session, v)
                 \/ InRow(answer[q].session, v)
          PROVE  Live(c, v)
      <4>1. CASE q # r
        BY <1>4, <1>5, <3>2, <4>1 DEF Live, Active
      <4>2. CASE q = r
        <5>1. ~InRow(answer[r].session, v)
          BY <1>3 DEF InRow, IInv, TypeOK
        <5> QED
          BY <1>3, <1>4, <1>5, <3>2, <4>2, <5>1 DEF Live
      <4> QED
        BY <4>1, <4>2
    <3>3. /\ InRow(jar[c].session, v)' = InRow(jar'[c].session, v)
          /\ \A q \in Requests :
               /\ InRow(input[q].session, v)' = InRow(input'[q].session, v)
               /\ InRow(answer[q].session, v)' = InRow(answer[q].session, v)
      BY <1>2 DEF InRow
    <3> QED
      BY <2>1, <3>1, <3>2, <3>3 DEF Live
  <2>2. \A x \in retired : x.browser \in Browsers /\ x.secret \in Nat \ {NoSecret}
    BY DEF IInv, TypeOK
  <2> QED
    BY <1>2, <2>1, <2>2 DEF IInv, RetiredAreDead, ShownTo, Unrotated
<1>16. LastPageSubmittable'
  BY <1>2 DEF IInv, LastPageSubmittable
<1> QED
  BY <1>6, <1>7, <1>8, <1>10, <1>12, <1>13, <1>14, <1>14a, <1>15,
     <1>16 DEF IInv

\* The session data of r is written under its token t, new or its own, or it
\* is not written.
LEMMA CommitStep ==
  ASSUME IInv, NEW r \in Requests, Commit(r), UNCHANGED site
  PROVE  IInv'
<1> DEFINE b == input[r].browser
           d == data[r]
           written == d.status = "modified"
<1>0. PICK t : t = IF d.token = NoToken THEN tokens + 1 ELSE d.token
  OBVIOUS
<1>1. /\ pc[r] = "commit" /\ pc' = [pc EXCEPT ![r] = "reply"]
      /\ UNCHANGED <<site, jar, page, input, data, state, secrets, entered,
                     changed, shown, retired, replays>>
      /\ IF written
         THEN /\ stored' = stored \cup {t}
              /\ row' = [row EXCEPT ![t] = [user |-> d.user, secret |-> d.secret]]
              /\ tokens' = IF d.token = NoToken THEN tokens + 1 ELSE tokens
              /\ answer' = [answer EXCEPT ![r].session = t]
         ELSE /\ UNCHANGED <<stored, row, tokens>>
              /\ \/ answer' = [answer EXCEPT ![r].session = NoToken]
                 \/ answer' = answer /\ d.status = "unmodified"
  BY <1>0 DEF Commit, Goto
<1>2. /\ d \in Data /\ b \in Browsers /\ tokens \in Nat /\ secrets \in Nat
      /\ answer[r] \in Answer /\ answer[r].session = Keep
      /\ state[r] \in Nat \ {NoSecret} /\ site.useSessions \in BOOLEAN
  BY <1>1, ConstantsAssumption DEF IInv, TypeOK, Phase, Data, Answer
<1>3. /\ t \in Nat \ {NoToken}
      /\ t = d.token \/ (written => NewToken(t))
      /\ tokens' \in {tokens, tokens + 1}
      /\ written => answer'[r].session = t
      /\ d.token # NoToken => HasToken(b, d.token)
      /\ HasSecret(b, d.secret)
  <2>1. t \in Nat \ {NoToken} /\ (t = d.token \/ (written => NewToken(t)))
    BY <1>0, <1>1, <1>2 DEF Data, NewToken
  <2>2. tokens' \in {tokens, tokens + 1}
    BY <1>1
  <2>3. written => answer'[r].session = t
    BY <1>1, <1>2 DEF IInv, TypeOK, Answer
  <2>4. HasToken(b, d.token) /\ HasSecret(b, d.secret)
    BY DEF HasToken, HasSecret, RequestTokens, RequestSecrets
  <2> QED
    BY <2>1, <2>2, <2>3, <2>4
<1>4. /\ r \notin Spent \/ d.token # NoToken
      /\ t \in Tokens /\ t <= tokens + 1
      /\ written => t <= tokens'
      /\ d.secret # NoSecret => d.secret <= secrets
  <2>1. r \notin Spent \/ d.token # NoToken
    BY <1>1 DEF Spent
  <2>2. d.token \in Nat /\ d.secret \in Nat
    BY <1>2 DEF Data
  <2>3. d.token # NoToken => d.token <= tokens
    BY <1>2, <1>3, <2>2 DEF IInv, TokensOfOneBrowser
  <2>4. t \in Tokens
    <3>1. CASE d.token = NoToken
      BY <1>0, <2>1, <3>1, AnotherToken DEF IInv
    <3>2. CASE d.token # NoToken
      <4>1. d.token \in 1 .. tokens
        BY <1>2, <2>2, <2>3, <3>2
      <4> QED
        BY <1>0, <3>2, <4>1, GeneratedAreTokens DEF IInv
    <3> QED
      BY <3>1, <3>2
  <2>5. d.secret # NoSecret => d.secret <= secrets
    BY <1>2, <1>3, <2>2 DEF IInv, SecretsOfOneBrowser
  <2>6. t <= tokens + 1 /\ (written => t <= tokens')
    BY <1>0, <1>1, <1>2, <2>2, <2>3
  <2> HIDE DEF d, written
  <2> QED
    BY <2>1, <2>4, <2>5, <2>6
<1>5. /\ \A q \in Requests \ {r} :
           /\ RequestTokens(q)' = RequestTokens(q)
           /\ pc'[q] = pc[q] /\ answer'[q] = answer[q]
      /\ \A q \in Requests : RequestSecrets(q)' = RequestSecrets(q)
      /\ RequestTokens(r)' \subseteq
           {NoToken} \cup RequestTokens(r) \cup (IF written THEN {t} ELSE {})
      /\ pc'[r] = "reply" /\ answer'[r].secret = answer[r].secret
      /\ answer'[r].page = answer[r].page
      /\ ~written => answer'[r].session \in {NoToken, Keep}
      /\ answer' \in [Requests -> Answer]
  <2>1. /\ \A q \in Requests \ {r} : answer'[q] = answer[q]
        /\ answer'[r].secret = answer[r].secret
        /\ answer'[r].page = answer[r].page
        /\ ~written => answer'[r].session \in {NoToken, Keep}
        /\ answer' \in [Requests -> Answer]
    <3>1. CASE written
      <4>1. answer' = [answer EXCEPT ![r].session = t] /\ t \in Nat
        BY <1>1, <1>3, <3>1
      <4>2. answer \in [Requests -> Answer]
        BY DEF IInv, TypeOK, Answer
      <4> QED
        BY <3>1, <4>1, <4>2 DEF Answer
    <3>2. CASE ~written
      <4>1. \/ answer' = [answer EXCEPT ![r].session = NoToken]
            \/ answer' = answer
        BY <1>1, <3>2
      <4>2. answer \in [Requests -> Answer]
        BY DEF IInv, TypeOK, Answer
      <4> QED
        BY <1>2, <3>2, <4>1, <4>2 DEF Answer
    <3> QED
      BY <3>1, <3>2
  <2>2. \A q \in Requests : answer'[q].secret = answer[q].secret
    BY <2>1
  <2>3. /\ pc'[r] = "reply" /\ \A q \in Requests \ {r} : pc'[q] = pc[q]
    BY <1>1 DEF IInv, TypeOK
  <2>4. \A q \in Requests : RequestSecrets(q)' = RequestSecrets(q)
    BY <1>1, <2>2 DEF RequestSecrets
  <2>5. /\ \A q \in Requests \ {r} : RequestTokens(q)' = RequestTokens(q)
        /\ RequestTokens(r)' \subseteq
             {NoToken} \cup RequestTokens(r) \cup (IF written THEN {t} ELSE {})
    BY <1>1, <1>2, <1>3, <2>1 DEF RequestTokens
  <2> QED
    BY <2>1, <2>3, <2>4, <2>5
<1>6. /\ written => /\ row'[t] = [user |-> d.user, secret |-> d.secret]
                    /\ \A k \in Tokens \ {t} : row'[k] = row[k]
      /\ \A k \in stored : k \in Tokens
      /\ \A k \in stored' : \A v : row'[k].secret = v =>
           IF written /\ k = t THEN v = d.secret ELSE InRow(k, v)
      /\ \A k \in stored' : k # t => k \in stored
  <2>1. \A k \in stored : k \in Tokens
    BY GeneratedAreTokens DEF IInv, TypeOK
  <2>2. CASE written
    BY <1>1, <1>4, <2>1, <2>2 DEF IInv, TypeOK, InRow
  <2>3. CASE ~written
    BY <1>1, <2>1, <2>3 DEF InRow
  <2> QED
    BY <2>2, <2>3, <2>1
<1> HIDE DEF written
<1>7. TypeOK'
  <2>1. tokens' <= Cardinality(Spent')
    <3>1. Spent' = Spent \cup {r} /\ Spent' \subseteq Requests
      BY <1>1, <1>5 DEF Spent
    <3>2. CASE r \in Spent
      <4>1. tokens' = tokens
        BY <1>1, <1>4, <3>2 DEF written
      <4>2. tokens <= Cardinality(Spent) /\ Spent' = Spent
        BY <3>1, <3>2 DEF IInv, TypeOK
      <4> QED
        BY <4>1, <4>2
    <3>3. CASE r \notin Spent
      <4>1. tokens + 1 <= Cardinality(Spent')
        BY <3>1, <3>3, AnotherToken DEF IInv
      <4>2. Cardinality(Spent') \in Nat
        BY <3>1, <3>3, AnotherToken, FS_Subset, FS_CardinalityType DEF IInv
      <4> QED
        BY <1>2, <1>3, <4>1, <4>2
    <3> QED
      BY <3>2, <3>3
  <2>2. /\ stored' \subseteq 1 .. tokens' /\ tokens' \in Nat
        /\ row' \in [Tokens -> [user : AnyUser, secret : Nat]]
        /\ \A k \in stored' : row'[k].secret <= secrets'
    <3>1. CASE written
      <4>1. d.user \in AnyUser /\ d.secret \in Nat
        BY <1>2 DEF Data
      <4>2. row' \in [Tokens -> [user : AnyUser, secret : Nat]]
        <5>1. row' = [row EXCEPT ![t] = [user |-> d.user, secret |-> d.secret]]
          BY <1>1, <3>1
        <5>2. [user |-> d.user, secret |-> d.secret] \in [user : AnyUser, secret : Nat]
          BY <4>1
        <5> QED
          BY <5>1, <5>2 DEF IInv, TypeOK
      <4>3. stored' \subseteq 1 .. tokens' /\ tokens' \in Nat
        <5>1. stored \subseteq 1 .. tokens
          BY DEF IInv, TypeOK
        <5>2. stored' = stored \cup {t} /\ t <= tokens'
          BY <1>1, <1>4, <3>1
        <5>3. /\ tokens \in Nat /\ tokens' \in {tokens, tokens + 1}
              /\ t \in Nat \ {0}
          BY <1>2, <1>3
        <5>4. \A k \in stored : k \in 1 .. tokens'
          BY <5>1, <5>3
        <5> QED
          BY <5>2, <5>3, <5>4
      <4>4. \A k \in stored' : row'[k].secret <= secrets'
        BY <1>1, <1>2, <1>4, <1>6, <3>1, <4>1 DEF IInv, TypeOK
      <4> QED
        BY <4>2, <4>3, <4>4
    <3>2. CASE ~written
      BY <1>1, <1>2, <3>2 DEF IInv, TypeOK
    <3> QED
      BY <3>1, <3>2
  <2>4. pc' \in [Requests -> Places]
    BY <1>1 DEF IInv, TypeOK, Places
  <2> QED
    BY <1>1, <1>5, <2>1, <2>2, <2>4 DEF IInv, TypeOK, Answer
<1>8. ASSUME NEW q \in Requests PROVE Phase(q)' /\ Presented(q)'
  <2>1. Presented(q)'
    BY <1>1 DEF IInv, Presented
  <2>2. CASE q # r
    BY <1>1, <1>5, <2>1, <2>2 DEF IInv, Phase
  <2>3. CASE q = r
    BY <1>1, <1>2, <1>5, <2>1, <2>3 DEF Phase
  <2> QED
    BY <2>2, <2>3
<1>9. OneStore'
  <2>1. ~site.useSessions /\ written => d.secret = NoSecret /\ d.user # NoUser
    BY DEF IInv, OneStore, written
  <2>2. ~site.useSessions =>
          \A k \in stored' : row'[k].secret = NoSecret /\ row'[k].user # NoUser
    <3>1. CASE written
      BY <1>6, <2>1, <3>1 DEF IInv, OneStore
    <3>2. CASE ~written
      BY <1>1, <3>2 DEF IInv, OneStore
    <3> QED
      BY <3>1, <3>2
  <2>3. \A q \in Requests : /\ answer'[q].secret = answer[q].secret
                            /\ answer'[q].page = answer[q].page
                            /\ pc[q] \in {"unsent", "enter"} <=>
                                 pc'[q] \in {"unsent", "enter"}
    BY <1>1, <1>5
  <2> QED
    BY <1>1, <2>2, <2>3 DEF IInv, OneStore
<1>10. \A c \in Browsers, k \in Nat \ {NoToken} : HasToken(c, k)' =>
         HasToken(c, k) \/ (c = b /\ NewToken(k))
  BY <1>1, <1>3, <1>5 DEF HasToken
<1>11. TokensOfOneBrowser'
  <2>1. \A c \in Browsers, k \in Nat \ {NoToken} : HasToken(c, k)' =>
          HasToken(c, k) \/ (c = b /\ k = tokens + 1 /\ tokens' = tokens + 1)
    BY <1>10 DEF NewToken
  <2> QED
    BY <1>2, <1>3, <2>1, TokensKept DEF IInv
<1>12. /\ written => \A c \in Browsers :
             \/ jar[c].session = t
             \/ \E q \in Requests : /\ input[q].browser = c
                                    /\ t \in {input[q].session, answer'[q].session}
             \/ HasToken(c, t)'
             => c = b
       /\ \A k, v : InRow(k, v)' => k \in stored' /\ row'[k].secret = v
  <2>1. written => HasToken(b, t)'
    BY <1>1, <1>3 DEF HasToken, RequestTokens
  <2>2. \A c \in Browsers :
          \/ jar[c].session = t
          \/ \E q \in Requests : /\ input[q].browser = c
                                 /\ t \in {input[q].session, answer'[q].session}
          => HasToken(c, t)'
    BY <1>1 DEF HasToken, RequestTokens
  <2> QED
    BY <1>2, <1>3, <1>11, <2>1, <2>2 DEF TokensOfOneBrowser, InRow
<1>13. ASSUME NEW c \in Browsers, NEW v \in Nat \ {NoSecret}, HasSecret(c, v)'
       PROVE  HasSecret(c, v)
  <2>1. ASSUME NEW k \in stored', HasToken(c, k)', InRow(k, v)'
        PROVE  HasSecret(c, v)
    <3>1. CASE written /\ k = t
      BY <1>3, <1>6, <1>12, <2>1, <3>1
    <3>2. CASE ~(written /\ k = t)
      <4>1. InRow(k, v)
        BY <1>6, <1>12, <2>1, <3>2
      <4>2. k \in stored /\ k \in Nat \ {NoToken} /\ k # tokens + 1
        BY <1>2, <4>1 DEF InRow, IInv, TypeOK
      <4>3. HasToken(c, k)
        BY <1>10, <2>1, <4>2 DEF NewToken
      <4> QED
        BY <4>1, <4>2, <4>3 DEF HasSecret
    <3> QED
      BY <3>1, <3>2
  <2> QED
    BY <1>1, <1>5, <1>13, <2>1 DEF HasSecret
<1>14. SecretsOfOneBrowser'
  BY <1>1, <1>13 DEF IInv, SecretsOfOneBrowser
<1>15. SecretsOfOneUser'
  <2>1. ASSUME NEW v \in Nat \ {NoSecret}, NEW u \in AnyUser, SecretOf(v, u)'
        PROVE  SecretOf(v, u)
    <3>1. ASSUME NEW k \in stored', InRow(k, v)', row'[k].user = u
          PROVE  SecretOf(v, u)
      <4>1. CASE written /\ k = t
        BY <1>6, <1>12, <3>1, <4>1 DEF SecretOf
      <4>2. CASE ~written
        BY <1>1, <3>1, <4>2 DEF SecretOf, InRow
      <4>3. CASE k # t
        <5>1. k \in stored /\ row'[k] = row[k]
          BY <1>1, <1>6, <3>1, <4>3
        <5> QED
          BY <3>1, <5>1 DEF SecretOf, InRow
      <4> QED
        BY <4>1, <4>2, <4>3
    <3>2. \A q \in Requests : InFlight(q)' => InFlight(q)
      BY <1>1, <1>5 DEF InFlight
    <3> QED
      BY <1>1, <2>1, <3>1, <3>2 DEF SecretOf
  <2> QED
    BY <1>1, <2>1 DEF IInv, SecretsOfOneUser
<1>16. ASSUME NEW p \in Requests, Renewed(p)' PROVE Private(p)'
  <2> DEFINE s == state[p]
             k == data[p].token
  <2>1. Renewed(p)
    BY <1>1, <1>5, <1>16 DEF Renewed
  <2>2. Private(p) /\ s \in Nat \ {NoSecret} /\ k \in Nat \ {NoToken}
    BY <2>1 DEF IInv, Renewed, Phase, Private, TypeOK
  <2>3. k <= tokens
    <3>1. input[p].browser \in Browsers /\ HasToken(input[p].browser, k)
      BY <2>1 DEF IInv, Phase, Renewed, HasToken, RequestTokens
    <3> QED
      BY <2>2, <3>1 DEF IInv, TokensOfOneBrowser
  <2>4. CASE p = r
    <3>1. t = k
      BY <1>0, <2>2, <2>4
    <3>2. \A m \in stored' : m # k => row'[m].secret # s
      BY <1>1, <1>6, <2>2, <3>1 DEF Private
    <3>3. site.useSessions =>
            /\ d.secret = s /\ written /\ answer'[p].session = k
            /\ k \in stored' => row'[k].secret = s
      BY <1>3, <1>6, <2>2, <2>4, <3>1 DEF Private, written
    <3> QED
      BY <1>1, <1>5, <2>2, <2>4, <3>2, <3>3 DEF Private, written
  <2>5. CASE p # r
    <3>1. d.token # k /\ d.secret # s /\ k \notin RequestTokens(r)
      BY <2>2, <2>5 DEF Private, RequestTokens, RequestSecrets
    <3>2. t # k
      BY <1>0, <1>2, <2>3, <3>1 DEF Data
    <3>3. k \notin RequestTokens(r)'
      BY <1>5, <2>2, <3>1, <3>2
    <3>4. \A q \in Requests \ {p} : k \notin RequestTokens(q)'
      BY <1>5, <2>2, <2>5, <3>3 DEF Private
    <3>5. \A m \in stored' : m # k => row'[m].secret # s
      BY <1>1, <1>6, <2>2, <3>1 DEF Private
    <3>6. k \in stored' => k \in stored /\ row'[k] = row[k]
      BY <1>1, <1>6, <3>2
    <3>7. pc'[p] = pc[p] /\ answer'[p] = answer[p]
      BY <1>5, <2>5
    <3> QED
      BY <1>1, <1>5, <2>2, <3>4, <3>5, <3>6, <3>7 DEF Private
  <2> QED
    BY <2>4, <2>5
<1>16a. ASSUME NEW p \in Requests, Flushed(p)' PROVE Blank(p)'
  <2>1. Flushed(p)
    BY <1>1, <1>5, <1>16a DEF Flushed
  <2>2. Blank(p)
    BY <2>1 DEF IInv
  <2>3. CASE p = r
    <3>1. d.token = NoToken /\ d.secret = NoSecret /\ d.status # "unmodified"
      BY <2>2, <2>3 DEF Blank
    <3>2. CASE written
      <4>1. answer'[r].session = t /\ t = tokens + 1 /\ NewToken(t)
        BY <1>0, <1>1, <1>3, <3>1, <3>2 DEF NewToken
      <4>2. \A c \in Browsers : ~HasToken(c, t)
        BY <1>2, <1>3, <4>1 DEF IInv, TokensOfOneBrowser
      <4>3. ASSUME NEW q \in Requests \ {r} PROVE t \notin RequestTokens(q)'
        <5>1. CASE input[q].browser \in Browsers
          BY <1>5, <4>2, <5>1 DEF HasToken
        <5>2. CASE input[q].browser \notin Browsers
          <6>1. RequestTokens(q) \subseteq {NoToken, Keep}
            BY <5>2 DEF IInv, Phase, RequestTokens, TypeOK, Places
          <6> QED
            BY <1>3, <1>5, <6>1
        <5> QED
          BY <5>1, <5>2
      <4>4. Alone(r, t)'
        BY <1>1, <4>2, <4>3 DEF Alone, HasToken
      <4>5. row'[t].secret = NoSecret /\ t # Keep
        BY <1>3, <1>6, <3>1, <3>2
      <4> QED
        BY <1>1, <2>3, <3>1, <4>1, <4>4, <4>5 DEF Blank
    <3>3. CASE ~written
      <4>1. answer'[r].session = NoToken
        BY <1>1, <1>2, <3>1, <3>3 DEF IInv, TypeOK, Answer
      <4> QED
        BY <1>1, <2>3, <3>1, <4>1 DEF Blank
    <3> QED
      BY <3>2, <3>3
  <2>4. CASE p # r
    <3> DEFINE k == answer[p].session
    <3>1. pc'[p] = pc[p] /\ answer'[p] = answer[p]
      BY <1>5, <2>4
    <3>2. ASSUME pc[p] = "reply", k # NoToken
          PROVE  /\ k # Keep /\ Alone(p, k)'
                 /\ k \in stored' => row'[k].secret = NoSecret
      <4>1. /\ k # Keep /\ Alone(p, k) /\ k \in Nat \ {NoToken}
            /\ k \in stored => row[k].secret = NoSecret
        BY <2>2, <3>2 DEF Blank, IInv, TypeOK
      <4>2. k <= tokens
        <5>1. input[p].browser \in Browsers /\ HasToken(input[p].browser, k)
          BY <3>2 DEF IInv, Phase, HasToken, RequestTokens
        <5> QED
          BY <4>1, <5>1 DEF IInv, TokensOfOneBrowser
      <4>3. k \notin RequestTokens(r) /\ k # t
        <5>1. k \notin RequestTokens(r) /\ k # d.token
          BY <2>4, <4>1 DEF Alone, RequestTokens
        <5> QED
          BY <1>0, <1>2, <4>2, <5>1
      <4>4. k \notin RequestTokens(r)'
        BY <1>5, <4>1, <4>3
      <4>5. \A q \in Requests \ {p} : k \notin RequestTokens(q)'
        BY <1>5, <4>1, <4>4 DEF Alone
      <4>6. k \in stored' => k \in stored /\ row'[k] = row[k]
        BY <1>1, <1>6, <4>3
      <4> QED
        BY <1>1, <3>1, <4>1, <4>5, <4>6 DEF Alone
    <3> QED
      BY <1>1, <2>2, <3>1, <3>2 DEF Blank
  <2> QED
    BY <2>3, <2>4
<1>17. ASSUME NEW c \in Browsers, NEW v \in Nat \ {NoSecret}, Live(c, v)'
       PROVE  Live(c, v)
  <2>1. /\ Active(r) /\ d.secret \in RequestSecrets(r)
        /\ v = d.secret => Live(b, v)
    BY <1>1, <1>2 DEF Live, Active, RequestSecrets
  <2>2. ASSUME NEW k \in stored', row'[k].secret = v, k = t /\ written => c = b
        PROVE  Live(c, v) \/ InRow(k, v)
    BY <1>6, <2>1, <2>2
  <2>3. CASE jar'[c].secret = v
    BY <1>1, <2>3 DEF Live
  <2>4. CASE InRow(jar[c].session, v)'
    <3>1. jar[c].session \in stored' /\ row'[jar[c].session].secret = v
      BY <1>1, <2>4 DEF InRow
    <3>2. Live(c, v) \/ InRow(jar[c].session, v)
      BY <1>12, <2>2, <3>1
    <3> QED
      BY <3>2 DEF Live
  <2>5. ASSUME NEW q \in Requests, Active(q)', input'[q].browser = c,
               \/ v \in RequestSecrets(q)'
               \/ InRow(input[q].session, v)'
               \/ InRow(answer[q].session, v)'
        PROVE  Live(c, v)
    <3>1. Active(q) /\ input[q].browser = c
      BY <1>1, <1>5, <2>5 DEF Active
    <3>2. CASE v \in RequestSecrets(q)'
      BY <1>5, <3>1, <3>2 DEF Live
    <3>3. CASE InRow(input[q].session, v)'
      <4>1. input[q].session \in stored' /\ row'[input[q].session].secret = v
        BY <1>1, <3>3 DEF InRow
      <4>2. Live(c, v) \/ InRow(input[q].session, v)
        BY <1>12, <2>2, <3>1, <4>1
      <4> QED
        BY <3>1, <4>2 DEF Live
    <3>4. CASE InRow(answer[q].session, v)'
      <4>1. answer'[q].session \in stored' /\ row'[answer'[q].session].secret = v
        BY <3>4 DEF InRow
      <4>2. Live(c, v) \/ InRow(answer'[q].session, v)
        BY <1>12, <2>2, <3>1, <4>1
      <4>3. CASE q # r
        BY <1>5, <3>1, <4>2, <4>3 DEF Live
      <4>4. CASE q = r /\ written
        BY <1>3, <1>6, <2>1, <3>1, <4>1, <4>4
      <4>5. CASE q = r /\ ~written
        <5>1. answer'[r].session \in {NoToken, Keep}
          BY <1>5, <4>5
        <5>2. ~InRow(answer'[r].session, v)
          BY <5>1 DEF InRow, IInv, TypeOK
        <5> QED
          BY <4>2, <4>5, <5>2
      <4> QED
        BY <4>3, <4>4, <4>5
    <3> QED
      BY <2>5, <3>2, <3>3, <3>4
  <2> QED
    BY <1>17, <2>3, <2>4, <2>5 DEF Live
<1>18. RetiredAreDead'
  <2>1. \A x \in retired : x.browser \in Browsers /\ x.secret \in Nat \ {NoSecret}
    BY DEF IInv, TypeOK
  <2> QED
    BY <1>1, <1>17, <2>1 DEF IInv, RetiredAreDead, ShownTo, Unrotated
<1>19. LastPageSubmittable'
  BY <1>1 DEF IInv, LastPageSubmittable
<1> QED
  BY <1>7, <1>8, <1>9, <1>11, <1>14, <1>15, <1>16, <1>16a, <1>18,
     <1>19 DEF IInv

\* The cookies and the form of an answer replace those of its browser.
LEMMA ReceiveStep ==
  ASSUME IInv, NEW r \in Requests, Receive(r), UNCHANGED site
  PROVE  IInv'
<1>0. PICK b : b = input[r].browser
  OBVIOUS
<1> DEFINE a == answer[r]
           Put(new, old) == IF new = Keep THEN old ELSE new
           ended == IF changed[r] # "none" /\ OnlyOneDue(r) THEN ShownTo(b)
                    ELSE {}
<1>1. /\ pc[r] = "reply" /\ pc' = [pc EXCEPT ![r] = "done"]
      /\ jar' = [jar EXCEPT ![b] = [session |-> Put(a.session, @.session),
                                    secret  |-> Put(a.secret, @.secret)]]
      /\ page' = [page EXCEPT ![b] = a.page]
      /\ retired' = retired \cup
           {[browser |-> b, kind |-> changed[r], secret |-> s] : s \in ended}
      /\ UNCHANGED <<site, stored, row, input, data, state, answer, tokens,
                     secrets, entered, changed, shown, replays>>
  BY <1>0 DEF Receive, Goto
<1>2. /\ b \in Browsers /\ a \in Answer /\ changed[r] \in Changes
      /\ jar[b] \in [session : Nat, secret : Nat]
      /\ state[r] \in Nat \ {NoSecret} /\ site.useSessions \in BOOLEAN
  BY <1>0, <1>1, ConstantsAssumption DEF IInv, TypeOK, Phase, Answer
<1>3. /\ \A c \in Browsers \ {b} : jar'[c] = jar[c] /\ page'[c] = page[c]
      /\ jar'[b].session = Put(a.session, jar[b].session)
      /\ jar'[b].secret = Put(a.secret, jar[b].secret)
      /\ jar' \in [Browsers -> [session : Nat, secret : Nat]]
      /\ page' \in [Browsers -> Nat] /\ page'[b] = a.page
  BY <1>1, <1>2 DEF IInv, TypeOK, Answer
<1>4. /\ \A q \in Requests \ {r} : pc'[q] = pc[q]
      /\ pc'[r] = "done" /\ pc' \in [Requests -> Places]
      /\ \A q \in Requests : /\ RequestTokens(q)' = RequestTokens(q)
                             /\ RequestSecrets(q)' = RequestSecrets(q)
      /\ \A k, v : InRow(k, v)' = InRow(k, v)
  BY <1>1 DEF RequestTokens, RequestSecrets, InRow, IInv, TypeOK, Places
<1>5. ended \subseteq ShownTo(b) /\ ended \subseteq Nat \ {0}
  BY DEF ShownTo, IInv, TypeOK
<1> HIDE DEF ended
<1>6. TypeOK'
  <2>1. tokens' <= Cardinality(Spent')
    <3>1. Spent \subseteq Spent' /\ Spent' \subseteq Requests
      BY <1>1, <1>4 DEF Spent
    <3>2. tokens <= Cardinality(Spent')
      BY <3>1, SpentGrows DEF IInv, TypeOK
    <3> QED
      BY <1>1, <3>2
  <2>2. retired' \subseteq [browser : Browsers, kind : Changes, secret : Nat \ {0}]
    BY <1>1, <1>2, <1>5 DEF IInv, TypeOK
  <2> QED
    BY <1>1, <1>3, <1>4, <2>1, <2>2 DEF IInv, TypeOK
<1>7. ASSUME NEW q \in Requests PROVE Phase(q)' /\ Presented(q)'
  <2>1. Presented(q)'
    BY <1>1 DEF IInv, Presented
  <2>2. CASE q # r
    BY <1>1, <1>4, <2>1, <2>2 DEF IInv, Phase
  <2>3. CASE q = r
    BY <1>0, <1>1, <1>2, <1>4, <2>1, <2>3 DEF Phase
  <2> QED
    BY <2>2, <2>3
<1>8. OneStore'
  <2>1. ASSUME site.useSessions, NEW c \in Browsers PROVE jar'[c].secret = NoSecret
    BY <1>3, <2>1 DEF IInv, OneStore
  <2>2. \A q \in Requests : pc'[q] \in {"unsent", "enter"} <=>
                              pc[q] \in {"unsent", "enter"}
    BY <1>1, <1>4
  <2> QED
    BY <1>1, <2>1, <2>2 DEF IInv, OneStore
<1>9. \A c \in Browsers, t \in Nat \ {NoToken} :
        HasToken(c, t)' => HasToken(c, t)
  BY <1>0, <1>1, <1>2, <1>3, <1>4 DEF HasToken, RequestTokens
<1>10. TokensOfOneBrowser'
  BY <1>1, <1>9 DEF IInv, TokensOfOneBrowser
<1>11. ASSUME NEW c \in Browsers, NEW v \in Nat \ {NoSecret}, HasSecret(c, v)'
       PROVE  HasSecret(c, v)
  <2>1. ASSUME NEW t \in stored', HasToken(c, t)', InRow(t, v)'
        PROVE  HasSecret(c, v)
    <3>1. t \in stored
      BY <1>1, <2>1
    <3>2. t \in Nat \ {NoToken}
      BY <3>1, GeneratedAreTokens DEF IInv
    <3> QED
      BY <1>4, <1>9, <2>1, <3>1, <3>2 DEF HasSecret
  <2>2. CASE jar'[c].secret = v
    BY <1>0, <1>2, <1>3, <2>2 DEF HasSecret, RequestSecrets
  <2> QED
    BY <1>1, <1>4, <1>11, <2>1, <2>2 DEF HasSecret
<1>12. SecretsOfOneBrowser'
  BY <1>1, <1>11 DEF IInv, SecretsOfOneBrowser
<1>13. SecretsOfOneUser'
  <2>1. \A v \in Nat \ {NoSecret}, u \in AnyUser : SecretOf(v, u)' => SecretOf(v, u)
    BY <1>1, <1>4 DEF SecretOf, InFlight
  <2> QED
    BY <1>1, <2>1 DEF IInv, SecretsOfOneUser
<1>14. ASSUME NEW p \in Requests, Renewed(p)' PROVE Private(p)'
  <2>1. p # r /\ Renewed(p)
    BY <1>1, <1>4, <1>14 DEF Renewed
  <2>2. Private(p)
    BY <2>1 DEF IInv
  <2>3. /\ data[p].token \notin RequestTokens(r)
        /\ state[p] \notin RequestSecrets(r)
        /\ \A c \in Browsers : jar[c].session # data[p].token
                               /\ jar[c].secret # state[p]
    BY <2>1, <2>2 DEF Private
  <2>4. \A c \in Browsers : jar'[c].session # data[p].token
                            /\ jar'[c].secret # state[p]
    BY <1>2, <1>3, <2>3 DEF RequestTokens, RequestSecrets
  <2>5. pc'[p] = pc[p]
    BY <1>4, <2>1
  <2> QED
    BY <1>1, <1>4, <2>2, <2>4, <2>5 DEF Private
<1>14a. ASSUME NEW p \in Requests, Flushed(p)' PROVE Blank(p)'
  <2>1. p # r /\ Flushed(p) /\ pc'[p] = pc[p]
    BY <1>1, <1>4, <1>14a DEF Flushed
  <2>2. Blank(p)
    BY <2>1 DEF IInv
  <2>3. ASSUME NEW t \in Nat \ {NoToken}, Alone(p, t) PROVE Alone(p, t)'
    <3>1. a.session # t /\ \A c \in Browsers : jar[c].session # t
      BY <2>1, <2>3 DEF Alone, RequestTokens
    <3>2. \A c \in Browsers : jar'[c].session # t
      BY <1>2, <1>3, <3>1
    <3> QED
      BY <1>4, <2>3, <3>2 DEF Alone
  <2>4. answer[p].session \in Nat \cup {Keep}
    BY DEF IInv, TypeOK
  <2> QED
    BY <1>1, <2>1, <2>2, <2>3, <2>4 DEF Blank
<1>15. Active(r) /\ \A q \in Requests : Active(q)' <=> Active(q) /\ q # r
  BY <1>1, <1>4 DEF Active
<1>16. ASSUME NEW c \in Browsers, NEW v \in Nat \ {NoSecret}, Live(c, v)'
       PROVE  Live(c, v)
  <2>1. CASE jar'[c].secret = v
    BY <1>0, <1>2, <1>3, <1>15, <2>1 DEF Live, RequestSecrets
  <2>2. CASE InRow(jar[c].session, v)'
    <3>1. InRow(jar'[c].session, v)
      BY <1>1, <2>2 DEF InRow
    <3> QED
      BY <1>0, <1>2, <1>3, <1>15, <3>1 DEF Live
  <2>3. ASSUME NEW q \in Requests, Active(q)', input'[q].browser = c,
               \/ v \in RequestSecrets(q)'
               \/ InRow(input[q].session, v)'
               \/ InRow(answer[q].session, v)'
        PROVE  Live(c, v)
    <3>1. /\ InRow(input[q].session, v)' = InRow(input[q].session, v)
          /\ InRow(answer[q].session, v)' = InRow(answer[q].session, v)
      BY <1>1 DEF InRow
    <3> QED
      BY <1>1, <1>4, <1>15, <2>3, <3>1 DEF Live
  <2> QED
    BY <1>16, <2>1, <2>2, <2>3 DEF Live
<1>17. ASSUME NEW v \in ended, changed[r] \notin Unrotated, Live(b, v)'
       PROVE  FALSE
  <2>1. changed[r] # "none" /\ OnlyOneDue(r) /\ v \in ShownTo(b)
    BY <1>17 DEF ended
  <2>2. v \in Nat \ {NoSecret}
    BY <1>5, <1>17
  <2>3. \A q \in Requests : ~(Active(q)' /\ input'[q].browser = b)
    BY <1>0, <1>1, <1>15, <2>1 DEF OnlyOneDue, Active
  <2>4. jar'[b].secret = v \/ InRow(jar'[b].session, v)
    BY <1>1, <1>17, <2>3 DEF Live, InRow
  <2>5. ASSUME Renewed(r), site.useSessions PROVE FALSE
    <3>1. Private(r) /\ v # state[r]
      BY <2>1, <2>5 DEF IInv, Private, ShownTo
    <3>2. a.session = data[r].token /\ a.secret = Keep
          /\ (data[r].token \in stored => row[data[r].token].secret = state[r])
      BY <1>1, <2>5, <3>1 DEF Private, IInv, OneStore
    <3>3. data[r].token \in Nat
      BY DEF IInv, TypeOK
    <3>4. jar'[b].session = data[r].token /\ jar'[b].secret = NoSecret
      BY <1>2, <1>3, <2>5, <3>2, <3>3 DEF IInv, OneStore
    <3> QED
      BY <2>2, <2>4, <3>1, <3>2, <3>4 DEF InRow
  <2>6. ASSUME Renewed(r), ~site.useSessions PROVE FALSE
    <3>1. Private(r) /\ v # state[r]
      BY <2>1, <2>6 DEF IInv, Private, ShownTo
    <3>2. a.secret = state[r] /\ \A k \in stored : row[k].secret = NoSecret
      BY <1>1, <2>6 DEF IInv, OneStore
    <3>3. jar'[b].secret = state[r]
      BY <1>2, <1>3, <3>2
    <3> QED
      BY <2>2, <2>4, <3>1, <3>2, <3>3 DEF InRow
  <2>7. ASSUME Flushed(r) PROVE FALSE
    <3>1. /\ Blank(r) /\ a.secret = Keep
          /\ \A c \in Browsers : jar[c].secret = NoSecret
      BY <2>7 DEF IInv, OneStore, Flushed
    <3>2. a.session # Keep /\ (a.session \in stored =>
                                a.session = NoToken \/ row[a.session].secret = NoSecret)
      BY <1>1, <3>1 DEF Blank
    <3>3. jar'[b].session = a.session /\ jar'[b].secret = NoSecret
      BY <1>2, <1>3, <3>1, <3>2
    <3>4. NoToken \notin stored
      BY DEF IInv, TypeOK
    <3> QED
      BY <2>2, <2>4, <3>2, <3>3, <3>4 DEF InRow
  <2> QED
    BY <1>1, <1>2, <1>17, <2>1, <2>5, <2>6, <2>7
    DEF Unrotated, Renewed, Flushed
<1>18. RetiredAreDead'
  <2>1. \A x \in retired : x.browser \in Browsers /\ x.secret \in Nat \ {NoSecret}
    BY DEF IInv, TypeOK
  <2>2. \A x \in retired' : \/ x \in retired
                            \/ /\ x.browser = b /\ x.kind = changed[r]
                               /\ x.secret \in ended
    BY <1>1
  <2>3. \A c : ShownTo(c)' = ShownTo(c)
    BY <1>1 DEF ShownTo
  <2>4. ASSUME NEW x \in retired'
        PROVE  /\ x.secret \in ShownTo(x.browser)
               /\ x.kind \notin Unrotated => ~Live(x.browser, x.secret)'
    <3>1. CASE x \in retired
      BY <1>16, <2>1, <3>1 DEF IInv, RetiredAreDead
    <3>2. CASE x \notin retired
      <4>1. x.browser = b /\ x.kind = changed[r] /\ x.secret \in ended
        BY <2>2, <3>2
      <4> QED
        BY <1>5, <1>17, <4>1
    <3> QED
      BY <3>1, <3>2
  <2>5. Unrotated' = Unrotated
    BY <1>1 DEF Unrotated
  <2> QED
    BY <2>3, <2>4, <2>5 DEF RetiredAreDead
<1>19. LastPageSubmittable'
  <2>1. ASSUME ~site.useSessions, NEW c \in Browsers, page'[c] # NoSecret
        PROVE  jar'[c].secret = page'[c]
    <3>1. CASE c = b
      <4>1. a.secret = state[r] /\ a.page \in {NoSecret, state[r]}
        BY <1>1, <2>1 DEF IInv, OneStore
      <4> QED
        BY <1>2, <1>3, <2>1, <3>1, <4>1
    <3>2. CASE c # b
      BY <1>3, <2>1, <3>2 DEF IInv, LastPageSubmittable
    <3> QED
      BY <3>1, <3>2
  <2> QED
    BY <2>1 DEF LastPageSubmittable
<1> QED
  BY <1>6, <1>7, <1>8, <1>10, <1>12, <1>13, <1>14, <1>14a, <1>18,
     <1>19 DEF IInv
-----------------------------------------------------------------------------
\* Nobody has anything at first.
LEMMA Initially ==
  ASSUME Init
  PROVE  IInv
<1>1. /\ IsFiniteSet(Requests) /\ Cardinality(Requests) \in Nat
      /\ Spent = {} /\ Cardinality({}) = 0
  BY ConstantsAssumption, FS_CardinalityType, FS_EmptySet DEF Init, Spent
<1>2. TypeOK
  BY <1>1 DEF Init, TypeOK, Places, AnyUser, Tokens
<1>3. \A r \in Requests : Phase(r) /\ Presented(r)
  BY DEF Init, Phase, Presented
<1>4. OneStore
  BY DEF Init, OneStore
<1>5. /\ \A b \in Browsers, t \in Nat \ {NoToken} : ~HasToken(b, t)
      /\ \A b \in Browsers, s \in Nat \ {NoSecret} : ~HasSecret(b, s)
      /\ \A s \in Nat \ {NoSecret} : \A u : ~SecretOf(s, u)
  BY DEF Init, HasToken, HasSecret, SecretOf, RequestTokens, RequestSecrets,
     InFlight
<1>6. /\ TokensOfOneBrowser /\ SecretsOfOneBrowser /\ SecretsOfOneUser
      /\ RetiredAreDead /\ LastPageSubmittable
      /\ \A r \in Requests : ~Renewed(r) /\ ~Flushed(r)
  BY <1>5 DEF Init, TokensOfOneBrowser, SecretsOfOneBrowser, SecretsOfOneUser,
     RetiredAreDead, LastPageSubmittable, Renewed, Flushed
<1> QED
  BY <1>2, <1>3, <1>4, <1>6 DEF IInv

\* Whatever the requests do, in whatever order, the invariant is kept.
THEOREM InductiveInvariant == Spec => []IInv
<1>1. Init => IInv
  BY Initially
<1>2. IInv /\ [Next]_vars => IInv'
  <2> SUFFICES ASSUME IInv, [Next]_vars PROVE IInv'
    OBVIOUS
  <2>1. ASSUME NEW r \in Requests, Step(r), UNCHANGED site PROVE IInv'
    <3>1. CASE Send(r)
      BY <2>1, <3>1, SendStep
    <3>2. CASE Enter(r)
      BY <2>1, <3>2, EnterStep
    <3>3. CASE Admit(r)
      BY <2>1, <3>3, AdmitStep
    <3>4. CASE Drop(r)
      <4>1. /\ pc[r] = "identify" /\ pc' = [pc EXCEPT ![r] = "handle"]
            /\ Flush(r) /\ changed' = [changed EXCEPT ![r] = "none"]
            /\ UNCHANGED <<row, jar, page, input, state, answer, generated,
                           entered, shown, retired, replays>>
        BY <3>4, Unmarked DEF Drop, Goto
      <4> QED
        BY <2>1, <4>1, FlushStep
    <3>5. CASE ShowForm(r)
      BY <2>1, <3>5, ShowFormStep
    <3>6. CASE Post(r)
      BY <2>1, <3>6, PostStep
    <3>7. CASE SignIn(r)
      <4>1. PICK u \in site.users : Cycle(r, u)
        BY <3>7 DEF SignIn
      <4>2. u \in Users
        BY <4>1, ConstantsAssumption DEF IInv, TypeOK
      <4>3. /\ pc[r] = "handle" /\ pc' = [pc EXCEPT ![r] = "commit"]
            /\ Marked(r, "login")
            /\ UNCHANGED <<row, jar, page, input>>
        BY <3>7 DEF SignIn, Goto
      <4> QED
        BY <2>1, <4>1, <4>2, <4>3, CycleStep
    <3>8. CASE SwitchUser(r)
      BY <2>1, <3>8, SwitchUserStep
    <3>9. CASE SignInAgain(r)
      BY <2>1, <3>9, SignInAgainStep
    <3>10. CASE Logout(r)
      <4>1. /\ pc[r] = "handle" /\ pc' = [pc EXCEPT ![r] = "commit"]
            /\ Flush(r)
            /\ UNCHANGED <<row, jar, page, input, state, answer, generated,
                           entered, shown, retired, replays>>
        BY <3>10 DEF Logout, Marked, Goto
      <4>2. PICK k \in {"none", "logout"} : changed' = [changed EXCEPT ![r] = k]
        BY <3>10 DEF Logout, Marked
      <4> QED
        BY <2>1, <4>1, <4>2, FlushStep
    <3>11. CASE ChangePassword(r)
      <4>1. /\ pc[r] = "handle" /\ pc' = [pc EXCEPT ![r] = "commit"]
            /\ Cycle(r, data[r].user) /\ data[r].user # NoUser
            /\ Marked(r, "change")
            /\ UNCHANGED <<row, jar, page, input>>
        BY <3>11 DEF ChangePassword, Goto
      <4>2. data[r].user \in Users
        BY <4>1 DEF IInv, TypeOK, AnyUser
      <4>3. PICK u \in Users : u = data[r].user
        BY <4>2
      <4>4. Cycle(r, u)
        BY <4>1, <4>3
      <4> QED
        BY <2>1, <4>1, <4>4, CycleStep
    <3>12. CASE Commit(r)
      BY <2>1, <3>12, CommitStep
    <3>13. CASE Receive(r)
      BY <2>1, <3>13, ReceiveStep
    <3> QED
      BY <2>1, <3>1, <3>2, <3>3, <3>4, <3>5, <3>6, <3>7, <3>8, <3>9, <3>10,
         <3>11, <3>12, <3>13 DEF Step
  <2>2. CASE UNCHANGED vars
    <3>1. TypeOK' /\ OneStore' /\ LastPageSubmittable'
      BY <2>2 DEF vars, IInv, TypeOK, Spent, OneStore, LastPageSubmittable
    <3>4. RetiredAreDead'
      BY <2>2 DEF vars, IInv, RetiredAreDead, Live, ShownTo, Active, InRow,
         RequestSecrets, Unrotated
    <3>5. \A r \in Requests : Phase(r)' /\ Presented(r)'
      BY <2>2 DEF vars, IInv, Phase, Presented, ShownTo, Unrotated
    <3>6. \A r \in Requests : /\ (Renewed(r) => Private(r))'
                             /\ (Flushed(r) => Blank(r))'
      BY <2>2 DEF vars, IInv, Renewed, Private, Flushed, Blank, Alone, InRow,
         Active, RequestSecrets, RequestTokens, ShownTo
    <3>2. TokensOfOneBrowser' /\ SecretsOfOneBrowser' /\ SecretsOfOneUser'
      BY <2>2 DEF vars, IInv, TokensOfOneBrowser, SecretsOfOneBrowser,
         SecretsOfOneUser, HasToken, HasSecret, SecretOf, RequestTokens,
         RequestSecrets, InRow, InFlight
    <3> QED
      BY <3>1, <3>2, <3>4, <3>5, <3>6 DEF IInv
  <2> QED
    BY <2>1, <2>2 DEF Next, Quiet
<1> QED
  BY <1>1, <1>2, PTL DEF Spec

\* An unsafe request reaches its handler only with the secret of a form that
\* was shown to its own browser (CSRF.Middleware).
THEOREM FormsOfOneBrowser == Spec => []OwnSecret
<1>1. IInv => OwnSecret
  <2> SUFFICES ASSUME IInv, NEW r \in Requests, InFlight(r),
                      input[r].kind \notin Safe
               PROVE  input[r].presented \in ShownTo(input[r].browser)
    BY DEF OwnSecret
  <2>1. /\ input[r].presented = state[r] /\ state[r] \in Nat \ {NoSecret}
        /\ input[r].browser \in Browsers
    BY DEF IInv, Phase, InFlight, TypeOK
  <2>2. PICK x \in shown : x.secret = state[r]
    BY <2>1 DEF IInv, Presented
  <2>3. x.browser \in Browsers
    BY DEF IInv, TypeOK
  <2>4. HasSecret(x.browser, state[r]) /\ HasSecret(input[r].browser, state[r])
    BY <2>2 DEF HasSecret, RequestSecrets
  <2>5. x.browser = input[r].browser
    BY <2>1, <2>3, <2>4 DEF IInv, SecretsOfOneBrowser
  <2> QED
    BY <2>1, <2>2, <2>5 DEF ShownTo
<1> QED
  BY <1>1, InductiveInvariant, PTL

\* With the secret in its own cookie, every session row names a user.
THEOREM NoRowsForVisitors == Spec => []NoAnonymousRows
<1>1. IInv => NoAnonymousRows
  BY DEF IInv, OneStore, NoAnonymousRows
<1> QED
  BY <1>1, InductiveInvariant, PTL

\* With the secret in its own cookie, the form a browser shows carries the
\* secret of its cookie, in whatever order the answers came.
THEOREM PagesSubmittable == Spec => []LastPageSubmittable
<1>1. IInv => LastPageSubmittable
  BY DEF IInv
<1> QED
  BY <1>1, InductiveInvariant, PTL

\* With the secret in the session, a secret that was shown to one user is
\* never accepted from another (Session.Cycle, Login's flush).
THEOREM SecretsByUser == Spec => []SecretOfOneUser
<1>1. IInv => SecretOfOneUser
  <2> SUFFICES ASSUME IInv, site.useSessions, NEW r \in Requests, InFlight(r),
                      input[r].kind \notin Safe, NEW x \in shown,
                      x.secret = input[r].presented
               PROVE  x.user = entered[r]
    BY DEF SecretOfOneUser
  <2>1. /\ input[r].presented = state[r] /\ state[r] \in Nat \ {NoSecret}
        /\ x.user \in AnyUser /\ entered[r] \in AnyUser
    BY DEF IInv, Phase, InFlight, TypeOK
  <2>2. SecretOf(state[r], x.user) /\ SecretOf(state[r], entered[r])
    BY <2>1 DEF SecretOf
  <2> QED
    BY <2>1, <2>2 DEF IInv, SecretsOfOneUser
<1> QED
  BY <1>1, InductiveInvariant, PTL

\* What a browser was shown before the answer of a sign-in or of a password
\* change is not accepted from it after (rotateCSRFState), nor, with the secret
\* in the session, what it was shown before the answer of a logout or of a
\* login as another user.
THEOREM Rotation == Spec => []RotationRetiresSecret
<1>1. IInv => RotationRetiresSecret
  <2> SUFFICES ASSUME IInv, NEW r \in Requests, InFlight(r),
                      NEW k \in replays[r], k \notin Unrotated
               PROVE  FALSE
    BY DEF RotationRetiresSecret
  <2> DEFINE x == [browser |-> input[r].browser, kind |-> k,
                   secret |-> input[r].presented]
  <2>1. x \in retired
    BY DEF IInv, Presented
  <2>2. x.secret # NoSecret /\ ~Live(x.browser, x.secret)
    BY <2>1 DEF IInv, TypeOK, RetiredAreDead
  <2>3. input[r].kind \notin Safe => input[r].presented = state[r]
    BY DEF IInv, Phase, InFlight
  <2>4. input[r].kind \in Safe => input[r].presented = NoSecret
    BY DEF IInv, Presented
  <2>5. Live(input[r].browser, state[r])
    BY DEF Live, Active, InFlight, RequestSecrets
  <2> QED
    BY <2>2, <2>3, <2>4, <2>5
<1> QED
  BY <1>1, InductiveInvariant, PTL
=============================================================================
