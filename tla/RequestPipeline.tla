--------------------------- MODULE RequestPipeline ---------------------------
(* One request on its way from a browser through reverse proxies and the     *)
(* middleware chain of a generated project (management/scaffold.go) to a     *)
(* handler: whose address and scheme it carries (web/security.go), the body  *)
(* limit of its path (web/bodylimit.go), whether it is served without state  *)
(* (web/stateless.go), and who may enter (web/router.go, web/auth_http.go).  *)
(* A path is the sequence of the texts between its slashes; a trailing slash *)
(* decides nothing here.                                                     *)
EXTENDS Integers, FiniteSetsExt, SequencesExt

CONSTANTS
  Clients, Proxies,  \* addresses
  Addresses,         \* these, and what else a header may name
  Sites              \* deployments: how the chain is configured, how the
                     \* proxies state what they saw, and what clients send

\* A forwarding header, its lines read as one list: an entry has its text (an
\* address or a scheme, "blank" where it is empty, "junk" for what is none of
\* these) and the number of its line.
Texts == Addresses \cup {"http", "https", "junk", "blank"}
Entry == [text : Texts, line : Nat]

ASSUME SitesAssumption ==
  /\ Clients \cap Proxies = {} /\ Clients \cup Proxies \subseteq Addresses
  /\ \A s \in Sites :
    /\ s.networks \subseteq Proxies /\ s.proxies \subseteq Proxies
    /\ s.any \in BOOLEAN /\ s.tls \subseteq BOOLEAN
    /\ s.states \in {"append", "line", "replace"}
    /\ \A h \in s.sent : h.for \in Seq(Entry) /\ h.proto \in Seq(Entry)
    /\ s.bodies \subseteq Nat
    /\ s.default \in Nat \ {0} /\ \A l \in s.limits : l.bytes \in Nat \ {0}

VARIABLES
  site,      \* the deployment
  limitOf,   \* BodyLimits.Middleware: byNormalized
  prefixes,  \* and prefixes, its keys, longest first
  request,   \* what the next hop is given
  hops,      \* the connections so far, but for the last: who, and over TLS?
  at,        \* the middleware that runs
  ctx,       \* the values the request's context and Body carry
  taken,     \* the bytes of the body somebody has read
  answer     \* the response

config == <<site, limitOf, prefixes>>
vars == <<site, limitOf, prefixes, request, hops, at, ctx, taken, answer>>

\* "" and "." are dropped, ".." takes the segment before it.
CleanPath(p) ==
  FoldLeft(LAMBDA done, segment :
             CASE segment \in {"", "."} -> done
               [] segment = ".." -> IF done = <<>> THEN done ELSE Front(done)
               [] OTHER -> Append(done, segment), <<>>, p)

Matching(path) ==
  {i \in DOMAIN prefixes : IsPrefix(prefixes[i], CleanPath(path))}

\* Mutant: the loop has no break, and the last match decides.
LimitAtShortest(path) ==
  IF Matching(path) = {} THEN site.default
  ELSE limitOf[prefixes[Max(Matching(path))]]

\* The first match decides.
LimitAt(path) ==
  IF Matching(path) = {} THEN site.default
  ELSE limitOf[prefixes[Min(Matching(path))]]

\* Mutant: the path is matched as it was sent.
MatchRaw(path) == \E p \in site.stateless : IsPrefix(CleanPath(p), path)

Match(path) == \E p \in site.stateless : IsPrefix(CleanPath(p), CleanPath(path))

NoContext == [client |-> "none", scheme |-> "none", id |-> FALSE,
              recovers |-> FALSE, hardened |-> FALSE, limit |-> 0,
              ran |-> <<>>, stateless |-> FALSE, user |-> "none"]
NoAnswer == [status |-> 0, code |-> "none", id |-> FALSE, hardened |-> FALSE]

\* The keys in some order in which none is before a longer one.
Sorted(keys) ==
  {p \in [1 .. Cardinality(keys) -> keys] :
     /\ \A k \in keys : \E i \in DOMAIN p : p[i] = k
     /\ \A i, j \in DOMAIN p : i <= j => Len(p[j]) <= Len(p[i])}

\* The maps that the loop over the declared prefixes can make: of those that are
\* normalised alike the one that a Go map yields last decides.
Filled(limits) ==
  LET keys == {CleanPath(l.prefix) : l \in limits}
  IN  {f \in [keys -> {l.bytes : l \in limits}] :
         \A p \in keys : \E l \in limits : CleanPath(l.prefix) = p /\ l.bytes = f[p]}

Init ==
  /\ site \in Sites
  /\ limitOf \in Filled(site.limits)
  /\ prefixes \in Sorted(DOMAIN limitOf)
  /\ request = [peer |-> "none", tls |-> FALSE, for |-> <<>>, proto |-> <<>>,
                path |-> <<>>, form |-> FALSE, origin |-> "none",
                declared |-> -1, body |-> 0]
  /\ hops = <<>> /\ at = "browser" /\ ctx = NoContext
  /\ taken = 0 /\ answer = NoAnswer
-----------------------------------------------------------------------------
(* The browser and the proxies                                               *)

\* A client connects, with any forwarding headers of its own. A form may
\* carry an Origin: a page of the site names the scheme the browser used, any
\* other page another host. The length is -1 where it is not declared.
Dial(c) ==
  /\ at = "browser" /\ at' = "network"
  /\ \E tls \in site.tls, sent \in site.sent, path \in site.paths,
        body \in site.bodies, form \in BOOLEAN :
       \E declared \in {-1, body},
          from \in IF form THEN {"none", "foreign", IF tls THEN "https" ELSE "http"}
                  ELSE {"none"} :
         request' = [peer |-> c, tls |-> tls, for |-> sent.for, proto |-> sent.proto,
                     path |-> path, form |-> form, origin |-> from,
                     declared |-> declared, body |-> body]
  /\ UNCHANGED <<config, hops, ctx, taken, answer>>

\* How a proxy adds what it knows to a header.
Stated(header, text) ==
  IF site.states = "replace" \/ header = <<>>
    THEN <<[text |-> text, line |-> 1]>>
    ELSE LET added == IF site.states = "line" THEN 1 ELSE 0
         IN  Append(header, [text |-> text, line |-> Last(header).line + added])

\* A proxy accepts the connection and opens one of its own.
Forward(p) ==
  /\ at = "network" /\ p \in site.proxies \ {request.peer}
  /\ \A i \in DOMAIN hops : hops[i].peer # p
  /\ hops' = Append(hops, [peer |-> request.peer, tls |-> request.tls])
  /\ request' = [request EXCEPT
       !.peer = p, !.tls = FALSE,
       !.for = Stated(@, request.peer),
       !.proto = Stated(@, IF request.tls THEN "https" ELSE "http")]
  /\ UNCHANGED <<config, at, ctx, taken, answer>>
-----------------------------------------------------------------------------
(* The answer                                                                *)

\* What is already on its way cannot be replaced.
Answered(status, code) ==
  IF answer = NoAnswer
    THEN [status |-> status, code |-> code, id |-> ctx.id, hardened |-> ctx.hardened]
    ELSE answer

WriteError(status, code) ==
  /\ answer' = Answered(status, code) /\ at' = "done"
  /\ UNCHANGED <<config, request, hops, ctx, taken>>

\* A panic: the connection is closed unless Recover is on the stack.
Panic ==
  /\ at \in {"RequestID", "handler"}
  /\ IF ctx.recovers THEN WriteError(500, "internal_error")
     ELSE at' = "done" /\ UNCHANGED <<config, request, hops, ctx, taken, answer>>

\* The middleware calls the next one with a new context.
Pass(from, to, new) ==
  /\ at = from /\ at' = to /\ ctx' = new
  /\ UNCHANGED <<config, request, hops, taken, answer>>
-----------------------------------------------------------------------------
(* The chain, outermost first                                                *)

\* Mutant: Header.Get, which returns the first line only.
JoinedFirst(header) == [i \in {i \in DOMAIN header : header[i].line = 1} |-> header[i].text]

\* forwardedHeader: the lines of a repeated header as one list.
Joined(header) == [i \in DOMAIN header |-> header[i].text]

\* forwardedAddresses, and of them those that no declared network covers: one
\* entry that is no address, an empty one included, invalidates them all.
Outside(entries) ==
  IF \E i \in DOMAIN entries : entries[i] \notin Addresses THEN {}
  ELSE {i \in DOMAIN entries : entries[i] \notin site.networks}

\* TrustedProxy's loop: the last of them.
Nearest(entries) ==
  IF Outside(entries) = {} THEN request.peer ELSE entries[Max(Outside(entries))]

Observed == IF request.tls THEN "https" ELSE "http"

\* forwardedScheme: the last entry that is not empty, if it is a scheme.
ForwardedScheme(entries) ==
  LET filled == {i \in DOMAIN entries : entries[i] # "blank"}
  IN  IF filled # {} /\ entries[Max(filled)] \in {"http", "https"}
        THEN entries[Max(filled)] ELSE Observed

Believed == site.any \/ request.peer \in site.networks

TrustedProxy ==
  Pass("network", "RequestID",
       [ctx EXCEPT
          !.client = IF Believed THEN Nearest(Joined(request.for))
                     ELSE request.peer,
          !.scheme = IF Believed THEN ForwardedScheme(Joined(request.proto))
                     ELSE Observed])

RequestID == Pass("RequestID", "Recover", [ctx EXCEPT !.id = TRUE])
Recover == Pass("Recover", "SecurityHeaders", [ctx EXCEPT !.recovers = TRUE])
SecurityHeaders ==
  Pass("SecurityHeaders", "BodyLimits", [ctx EXCEPT !.hardened = TRUE])

BodyLimits ==
  LET limit == LimitAt(request.path)
  IN  IF request.declared > limit
        THEN at = "BodyLimits" /\ WriteError(413, "body_too_large")
        ELSE Pass("BodyLimits", "Sessions", [ctx EXCEPT !.limit = limit])

\* Exempt asks for every middleware it wraps.
Exempt(from, to) ==
  /\ Match(request.path)
  /\ Pass(from, to, [ctx EXCEPT !.stateless = TRUE])

Runs(from) ==
  /\ at = from /\ ~Match(request.path)

Sessions ==
  \/ Exempt("Sessions", "CSRF")
  \/ Runs("Sessions") /\ Pass("Sessions", "CSRF", [ctx EXCEPT !.ran = Append(@, "Sessions")])

\* Mutant: the comparison is against the scheme of this connection.
ValidOriginObserved == request.origin \in {"none", Observed}

\* validRequestOrigin
ValidOrigin == request.origin \in {"none", ctx.scheme}

\* http.MaxBytesReader, which the chain has put in front of the body.
Overruns == request.body > ctx.limit

\* ParseForm or the handler reads the body to its end or to the limit.
Reads(to, new) ==
  /\ taken' = IF Overruns THEN ctx.limit ELSE request.body
  /\ at' = to /\ ctx' = new
  /\ UNCHANGED <<config, request, hops, answer>>

\* What a token is compared with is the CSRF module's: here a form is refused
\* for its origin (the answer does not tell it from the other) or its token,
\* or it passes, its token in a header or in the body.
CSRF ==
  LET passed == [ctx EXCEPT !.ran = Append(@, "CSRF")]
  IN  \/ Exempt("CSRF", "Authentication")
      \/ /\ Runs("CSRF") /\ ~request.form
         /\ Pass("CSRF", "Authentication", passed)
      \/ /\ Runs("CSRF") /\ request.form /\ ~ValidOrigin
         /\ WriteError(403, "csrf_origin")
      \/ /\ Runs("CSRF") /\ request.form /\ ValidOrigin
         /\ \/ Pass("CSRF", "Authentication", passed)
            \/ Overruns /\ WriteError(413, "body_too_large")
            \/ ~Overruns /\ Reads("Authentication", passed)
            \/ WriteError(403, "csrf_failed")

Authentication ==
  LET passed == [ctx EXCEPT !.ran = Append(@, "Authentication")]
  IN  \/ Exempt("Authentication", "router")
      \/ /\ Runs("Authentication")
         /\ \/ WriteError(500, "auth_unavailable")
            \/ \E u \in {"none", "member", "editor"} :
                 Pass("Authentication", "router", [passed EXCEPT !.user = u])
-----------------------------------------------------------------------------
(* The router and its handlers                                               *)

\* A handler that anybody, a user (RequireAuthentication) or a user with a
\* permission (RequirePermission) may enter. chi matches the path as sent.
Route ==
  /\ at = "router"
  /\ \E guard \in {"anybody", "user", "permission"} :
       CASE guard # "anybody" /\ ctx.user = "none" ->
              WriteError(401, "authentication_required")
         [] guard = "permission" /\ ctx.user = "member" ->
              WriteError(403, "permission_denied")
         [] OTHER -> Pass("router", "handler", ctx)

\* The pages a sign-in may be asked to return to: a place on the same host, a
\* host, with or without its scheme, or a text no redirect may be made of (a
\* backslash, a control character, a user, "//").
Targets == [scheme : {"none", "http", "https", "other"},
            host : {"none", "own", "allowed", "foreign"}, odd : BOOLEAN]

RequiresHTTPS == ctx.scheme = "https"

IsSafeRedirect(t) ==
  /\ ~t.odd /\ t.scheme # "other"
  /\ RequiresHTTPS => t.scheme # "http"
  /\ IF t.host = "none" THEN t.scheme = "none" ELSE t.host # "foreign"

\* The handler of a sign-in sends the browser on, others read and write.
Handle ==
  /\ at = "handler"
  /\ \/ Reads("handler", ctx) /\ taken = 0
     \/ \E t \in Targets :
          answer = NoAnswer /\ IsSafeRedirect(t)
            /\ WriteError(303, IF t.scheme = "none" THEN "same" ELSE t.scheme)
     \/ answer = NoAnswer /\ answer' = Answered(200, "begun")
          /\ UNCHANGED <<config, request, hops, at, ctx, taken>>
     \/ WriteError(200, "begun")

Quiet == at = "done" /\ UNCHANGED vars

Next ==
  \/ \E c \in Clients : Dial(c)
  \/ \E p \in Proxies : Forward(p)
  \/ TrustedProxy \/ RequestID \/ Recover \/ SecurityHeaders \/ BodyLimits
  \/ Sessions \/ CSRF \/ Authentication \/ Route \/ Handle \/ Panic \/ Quiet

Spec == Init /\ [][Next]_vars
-----------------------------------------------------------------------------
(* Correctness                                                               *)

\* Where every peer may speak, only a proxy connects.
Deployed == site.any => request.peer \in Proxies

\* The nearest hop that the deployment has not declared its own.
NearestHop == hops[Max({i \in DOMAIN hops : hops[i].peer \notin site.networks})].peer

\* The address a request is served for (RemoteIP) is one that did connect:
\* the peer's, or the one that the nearest undeclared hop had when a believed
\* proxy accepted it. A client cannot name another whatever it sends, and
\* where every hop adds its entry and all of them parse, those that the client
\* itself has sent included, it gets its own.
ClientNotForged ==
  ctx.client # "none" /\ Deployed =>
    IF ~Believed \/ hops = <<>> THEN ctx.client = request.peer
    ELSE /\ ctx.client \in {NearestHop, request.peer}
         /\ \/ ctx.client = NearestHop
            \/ site.states = "replace" /\ Len(hops) > 1
            \/ \E i \in DOMAIN request.for : request.for[i].text \notin Addresses

\* The transport the browser used, where no proxy or a believed one is
\* between: the site's own forms are not refused for their origin, another
\* host's never pass, and a sign-in over HTTPS does not send the browser on to
\* a plaintext page.
TransportHonoured ==
  LET https == IF hops = <<>> THEN request.tls ELSE hops[1].tls
  IN  Deployed /\ Len(hops) <= 1 /\ (hops # <<>> => Believed) =>
        /\ answer.code = "csrf_origin" => request.origin = "foreign"
        /\ request.form /\ "CSRF" \in ToSet(ctx.ran) => request.origin # "foreign"
        /\ answer.status = 303 /\ https => answer.code # "http"

\* The limits declared for the longest prefix that covers the path.
Declared ==
  LET covering == {l \in site.limits : IsPrefix(CleanPath(l.prefix), CleanPath(request.path))}
      longest == {l \in covering : \A k \in covering :
                    Len(CleanPath(k.prefix)) <= Len(CleanPath(l.prefix))}
  IN  IF covering = {} THEN {site.default} ELSE {l.bytes : l \in longest}

\* Where the most specific prefix of the path is declared with one limit,
\* nobody reads more of a body than that, whether its length was declared or
\* not, and only a body that exceeds it is refused as too large. (Prefixes that
\* are normalised alike may declare two: MapOrderNeverDecides.)
WithinLimit ==
  \A limit \in Declared : Declared = {limit} =>
    /\ taken <= limit
    /\ answer.status = 413 => request.body > limit

\* "Map iteration order cannot decide which limit a route gets": however the
\* loop had filled its map, the request would have been given the same limit.
MapOrderNeverDecides ==
  ctx.limit # 0 =>
    \A f \in Filled(site.limits) :
      Matching(request.path) # {} =>
        f[prefixes[Min(Matching(request.path))]] = ctx.limit

\* A handler is entered with all of the session, CSRF and authentication
\* middleware behind it or, exactly on the paths that lie under a stateless
\* prefix however they are written, with none, anonymous, and marked.
StatelessTogether ==
  at \in {"router", "handler"} =>
    IF \E p \in site.stateless : IsPrefix(CleanPath(p), CleanPath(request.path))
      THEN ctx.ran = <<>> /\ ctx.stateless /\ ctx.user = "none"
      ELSE ctx.ran = <<"Sessions", "CSRF", "Authentication">> /\ ~ctx.stateless
=============================================================================
