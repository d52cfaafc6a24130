------------------------ MODULE RequestPipelineProofs ------------------------
(* Proofs about RequestPipeline, for any deployments, headers and paths. The  *)
(* invariant says what every hop has left in the forwarding headers, and what *)
(* each place of the chain implies about the request's context and its        *)
(* answer. CleanPath stays what it is: nothing depends on how it cleans.      *)
EXTENDS RequestPipeline, WellFoundedInduction, SequenceTheorems, TLAPS

Text(tls) == IF tls THEN "https" ELSE "http"

\* What the client's connection says of the scheme its browser used.
Browsed == IF hops = <<>> THEN request.tls ELSE hops[1].tls

Hop == [peer : Clients \cup Proxies, tls : BOOLEAN]

Headers ==
  /\ request.for \in Seq(Entry) /\ request.proto \in Seq(Entry)
  /\ hops \in Seq(Hop)

\* The first hop is a client's, and only the last one's proxy is the peer.
Peers ==
  /\ hops # <<>> => hops[1].peer \in Clients
  /\ at = "browser" => hops = <<>>
  /\ at # "browser" =>
       /\ request.tls \in BOOLEAN
       /\ hops = <<>> => request.peer \in Clients
       /\ hops # <<>> => request.peer \in Proxies

\* Every hop is the last entry that its proxy could know of: those that add to
\* what they are given end with all of them, in order.
Stages ==
  /\ site.states # "replace" =>
       /\ Len(request.for) >= Len(hops)
       /\ \A i \in 1 .. Len(hops) :
            request.for[Len(request.for) - Len(hops) + i].text = hops[i].peer
  /\ site.states = "replace" /\ hops # <<>> =>
       /\ Len(request.for) = 1
       /\ request.for[1].text = hops[Len(hops)].peer
  /\ hops # <<>> =>
       /\ Len(request.proto) > 0
       /\ request.proto[Len(request.proto)].text = Text(hops[Len(hops)].tls)

\* What a form says of its origin, and a request of its length.
Honest ==
  at # "browser" =>
    /\ request.declared \in {-1, request.body} /\ request.body \in Nat
    /\ request.origin \in {"none", "foreign", Text(Browsed)}

Arriving == {"browser", "network"}

\* What TrustedProxy has put into the context.
Trusted ==
  IF at \in Arriving THEN ctx = NoContext
  ELSE /\ ctx.client = (IF Believed THEN Nearest(Joined(request.for))
                        ELSE request.peer)
       /\ ctx.scheme = (IF Believed THEN ForwardedScheme(Joined(request.proto))
                        ELSE Observed)

Shell == {"RequestID", "Recover", "SecurityHeaders", "BodyLimits"}

\* The limits of the paths, as Middleware has sorted them.
Limits ==
  /\ \A p \in DOMAIN limitOf : \E l \in site.limits :
       CleanPath(l.prefix) = p /\ l.bytes = limitOf[p]
  /\ \A l \in site.limits : CleanPath(l.prefix) \in DOMAIN limitOf
  /\ prefixes \in Sorted(DOMAIN limitOf)

\* Nobody reads before the limit of the path is set, or beyond it.
Bounded ==
  /\ at \in Arriving \cup Shell => taken = 0
  /\ at \notin Arriving \cup Shell \cup {"done"} => ctx.limit = LimitAt(request.path)
  /\ taken <= LimitAt(request.path)
  /\ answer.status = 413 => request.body > LimitAt(request.path)

\* The middleware that has run so far, at each place.
RanOne == <<"Sessions">>
RanTwo == <<"Sessions", "CSRF">>
RanThree == <<"Sessions", "CSRF", "Authentication">>

Ran(stack) ==
  IF Match(request.path) THEN ctx.ran = <<>> /\ ctx.stateless
  ELSE ctx.ran = stack /\ ~ctx.stateless

Together ==
  /\ at \in Arriving \cup Shell \cup {"Sessions"} => ctx.ran = <<>> /\ ~ctx.stateless
  /\ at = "CSRF" => Ran(RanOne)
  /\ at = "Authentication" => Ran(RanTwo)
  /\ at \in {"router", "handler"} => Ran(RanThree)
  /\ ctx.ran \in {<<>>, RanOne, RanTwo, RanThree}
  /\ Match(request.path) \/ at \notin {"router", "handler", "done"} => ctx.user = "none"

\* Whose form has passed, whose was refused, and where a sign-in led.
SchemeUsed ==
  /\ at \in Arriving => answer = NoAnswer
  /\ request.form /\ ctx.ran \in {RanTwo, RanThree} =>
       request.origin \in {"none", ctx.scheme}
  /\ answer.code = "csrf_origin" => request.origin \notin {"none", ctx.scheme}
  /\ answer.status = 303 /\ ctx.scheme = "https" => answer.code # "http"

\* What a request and its context are made of.
Fields ==
  /\ DOMAIN ctx = {"client", "scheme", "id", "recovers", "hardened", "limit", "ran",
                   "stateless", "user"}
  /\ DOMAIN request = {"peer", "tls", "for", "proto", "path", "form", "origin",
                       "declared", "body"}

IInv ==
  /\ site \in Sites /\ Fields /\ Headers /\ Peers /\ Stages /\ Honest /\ Trusted
  /\ Limits /\ Bounded /\ Together /\ SchemeUsed
-----------------------------------------------------------------------------
(* The operators the pipeline is built from                                  *)

\* A set of natural numbers has a least element.
LEMMA MinExists ==
  ASSUME NEW S, S \subseteq Nat, S # {}
  PROVE  Min(S) \in S /\ \A y \in S : Min(S) <= y
<1> DEFINE R == OpToRel(<, Nat)
<1>1. IsWellFoundedOn(R, Nat)
  BY NatLessThanWellFounded
<1>2. PICK x \in S : \A y \in S : ~(<<y, x>> \in R)
  BY <1>1, WFMin
<1>3. \A a, b \in Nat : a < b => <<a, b>> \in R
  BY DEF OpToRel
<1> HIDE DEF R
<1>4. \A y \in S : ~(y < x)
  BY <1>2, <1>3
<1>5. \A y \in S : x <= y
  BY <1>4
<1> QED
  BY <1>5 DEF Min

\* A set of positions in a sequence has a last one.
LEMMA MaxExists ==
  ASSUME NEW n \in Nat, NEW S, S \subseteq 1 .. n, S # {}
  PROVE  Max(S) \in S /\ \A y \in S : Max(S) >= y
<1> DEFINE T == {n - i : i \in S}
<1>1. T \subseteq Nat
  BY \A i \in S : i \in 1 .. n /\ n - i \in Nat
<1>2. T # {}
  BY \A i \in S : n - i \in T
<1> HIDE DEF T
<1>3. Min(T) \in T /\ \A y \in T : Min(T) <= y
  BY <1>1, <1>2, MinExists
<1>4. PICK x \in S : Min(T) = n - x
  BY <1>3 DEF T
<1>5. ASSUME NEW y \in S PROVE x >= y
  <2>1. Min(T) <= n - y
    BY <1>3 DEF T
  <2>2. x \in 1 .. n /\ y \in 1 .. n
    OBVIOUS
  <2> QED
    BY <1>4, <2>1, <2>2
<1> QED
  BY <1>5 DEF Max

\* It is the one that no later one follows.
LEMMA MaxIs ==
  ASSUME NEW n \in Nat, NEW S, S \subseteq 1 .. n, NEW x \in S, \A y \in S : x >= y
  PROVE  Max(S) = x
<1>1. Max(S) \in S /\ Max(S) >= x
  BY MaxExists
<1>2. x >= Max(S) /\ x \in 1 .. n /\ Max(S) \in 1 .. n
  BY <1>1
<1> QED
  BY <1>1, <1>2

\* The limit of a path is the default where no prefix covers it, and otherwise
\* one that was declared for the longest that does.
LEMMA LimitFound ==
  ASSUME Limits, NEW path
  PROVE  \/ /\ LimitAt(path) = site.default
            /\ \A l \in site.limits : ~IsPrefix(CleanPath(l.prefix), CleanPath(path))
         \/ \E l \in site.limits :
              /\ l.bytes = LimitAt(path)
              /\ IsPrefix(CleanPath(l.prefix), CleanPath(path))
              /\ \A k \in site.limits :
                   IsPrefix(CleanPath(k.prefix), CleanPath(path)) =>
                     Len(CleanPath(k.prefix)) <= Len(CleanPath(l.prefix))
<1>1. /\ DOMAIN prefixes = 1 .. Cardinality(DOMAIN limitOf)
      /\ \A i \in DOMAIN prefixes : prefixes[i] \in DOMAIN limitOf
      /\ \A k \in DOMAIN limitOf : \E i \in DOMAIN prefixes : prefixes[i] = k
      /\ \A i, j \in DOMAIN prefixes : i <= j => Len(prefixes[j]) <= Len(prefixes[i])
  BY DEF Limits, Sorted
<1>2. \A k \in site.limits :
        IsPrefix(CleanPath(k.prefix), CleanPath(path)) =>
          \E j \in Matching(path) : prefixes[j] = CleanPath(k.prefix)
  BY <1>1 DEF Limits, Matching
<1>3. CASE Matching(path) = {}
  BY <1>2, <1>3 DEF LimitAt
<1>4. CASE Matching(path) # {}
  <2> DEFINE i == Min(Matching(path))
  <2>1. Matching(path) \subseteq Nat
    BY <1>1 DEF Matching
  <2>2. i \in Matching(path) /\ \A j \in Matching(path) : i <= j
    BY <1>4, <2>1, MinExists
  <2> HIDE DEF i
  <2>3. /\ i \in DOMAIN prefixes /\ IsPrefix(prefixes[i], CleanPath(path))
        /\ prefixes[i] \in DOMAIN limitOf
    BY <1>1, <2>2 DEF Matching
  <2>4. PICK l \in site.limits :
          CleanPath(l.prefix) = prefixes[i] /\ l.bytes = limitOf[prefixes[i]]
    BY <2>3 DEF Limits
  <2>5. LimitAt(path) = limitOf[prefixes[i]]
    BY <1>4 DEF LimitAt, i
  <2>6. \A j \in Matching(path) : Len(prefixes[j]) <= Len(prefixes[i])
    BY <1>1, <2>2, <2>3 DEF Matching
  <2> QED
    BY <1>2, <2>3, <2>4, <2>5, <2>6
<1> QED
  BY <1>3, <1>4

LEMMA LimitPositive ==
  ASSUME site \in Sites, Limits, NEW path
  PROVE  LimitAt(path) \in Nat \ {0}
BY LimitFound, SitesAssumption

\* What a proxy leaves in a header.
LEMMA StatedLast ==
  ASSUME NEW header \in Seq(Entry),
         NEW text \in Texts
  PROVE  /\ Stated(header, text) \in Seq(Entry)
         /\ Len(Stated(header, text)) > 0
         /\ Stated(header, text)[Len(Stated(header, text))].text = text
         /\ site.states = "replace" => Len(Stated(header, text)) = 1
         /\ site.states # "replace" =>
              /\ Len(Stated(header, text)) = Len(header) + 1
              /\ \A i \in 1 .. Len(header) : Stated(header, text)[i] = header[i]
<1>1. CASE site.states = "replace" \/ header = <<>>
  <2> DEFINE e == [text |-> text, line |-> 1]
  <2>1. Stated(header, text) = <<e>>
    BY <1>1 DEF Stated
  <2>2. e \in Entry
    BY DEF Entry
  <2>a. e.text = text
    OBVIOUS
  <2> HIDE DEF e
  <2>3. <<e>> \in Seq(Entry) /\ Len(<<e>>) = 1 /\ <<e>>[1] = e
    BY <2>2
  <2>4. site.states # "replace" => Len(header) = 0
    BY <1>1, EmptySeq
  <2> QED
    BY <1>1, <2>1, <2>a, <2>3, <2>4
<1>2. CASE ~(site.states = "replace" \/ header = <<>>)
  <2> DEFINE added == IF site.states = "line" THEN 1 ELSE 0
             e == [text |-> text, line |-> Last(header).line + added]
  <2>1. Stated(header, text) = Append(header, e)
    BY <1>2 DEF Stated
  <2>2. Last(header) \in Entry
    <3>1. Len(header) \in Nat /\ Len(header) # 0
      BY <1>2, EmptySeq
    <3>2. Len(header) \in 1 .. Len(header)
      BY <3>1
    <3> QED
      BY <3>2, ElementOfSeq DEF Last
  <2>3. e \in Entry /\ e.text = text
    <3>1. Last(header).line + added \in Nat
      BY <2>2 DEF Entry
    <3> QED
      BY <3>1 DEF Entry
  <2> HIDE DEF e
  <2>4. Len(header) \in Nat
    BY LenProperties
  <2>5. /\ Append(header, e) \in Seq(Entry)
        /\ Len(Append(header, e)) = Len(header) + 1
        /\ \A i \in 1 .. Len(header) : Append(header, e)[i] = header[i]
        /\ Append(header, e)[Len(header) + 1] = e
    BY <2>3, AppendProperties
  <2> QED
    BY <1>2, <2>1, <2>3, <2>4, <2>5
<1> QED
  BY <1>1, <1>2

\* The middleware that has run, one more each time.
LEMMA Stack ==
  /\ Append(<<>>, "Sessions") = RanOne /\ Append(RanOne, "CSRF") = RanTwo
  /\ Append(RanTwo, "Authentication") = RanThree
  /\ <<>> \notin {RanTwo, RanThree} /\ RanOne \notin {RanTwo, RanThree}
  /\ "CSRF" \notin ToSet(<<>>) /\ "CSRF" \notin ToSet(RanOne)
<1> DEFINE S == {"Sessions", "CSRF", "Authentication"}
<1>1. RanOne \in Seq(S) /\ RanTwo \in Seq(S) /\ RanThree \in Seq(S) /\ <<>> \in Seq(S)
  BY DEF RanOne, RanTwo, RanThree
<1>2. /\ Len(RanOne) = 1 /\ Len(RanTwo) = 2 /\ Len(RanThree) = 3
      /\ RanOne[1] = "Sessions" /\ RanTwo[1] = "Sessions" /\ RanTwo[2] = "CSRF"
      /\ RanThree[1] = "Sessions" /\ RanThree[2] = "CSRF"
      /\ RanThree[3] = "Authentication"
  BY DEF RanOne, RanTwo, RanThree
<1>3. Len(<<>>) = 0
  OBVIOUS
<1>4. Append(<<>>, "Sessions") = RanOne
  BY DEF RanOne
<1>5. Append(RanOne, "CSRF") = RanTwo
  <2> DEFINE a == Append(RanOne, "CSRF")
  <2>1. /\ a \in Seq(S) /\ Len(a) = Len(RanOne) + 1
        /\ \A i \in 1 .. Len(RanOne) : a[i] = RanOne[i]
        /\ a[Len(RanOne) + 1] = "CSRF"
    BY <1>1, AppendProperties, "CSRF" \in S
  <2> HIDE DEF a
  <2>2. Len(a) = 2 /\ a[1] = "Sessions" /\ a[2] = "CSRF"
    BY <1>2, <2>1
  <2>3. \A i \in 1 .. Len(a) : a[i] = RanTwo[i]
    BY <1>2, <2>2
  <2>4. a = RanTwo
    BY <1>1, <1>2, <2>1, <2>2, <2>3, SeqEqual
  <2> QED
    BY <2>4 DEF a
<1>6. Append(RanTwo, "Authentication") = RanThree
  <2> DEFINE a == Append(RanTwo, "Authentication")
  <2>1. /\ a \in Seq(S) /\ Len(a) = Len(RanTwo) + 1
        /\ \A i \in 1 .. Len(RanTwo) : a[i] = RanTwo[i]
        /\ a[Len(RanTwo) + 1] = "Authentication"
    BY <1>1, AppendProperties, "Authentication" \in S
  <2> HIDE DEF a
  <2>2. Len(a) = 3 /\ a[1] = "Sessions" /\ a[2] = "CSRF" /\ a[3] = "Authentication"
    BY <1>2, <2>1
  <2>3. \A i \in 1 .. Len(a) : a[i] = RanThree[i]
    BY <1>2, <2>2
  <2>4. a = RanThree
    BY <1>1, <1>2, <2>1, <2>2, <2>3, SeqEqual
  <2> QED
    BY <2>4 DEF a
<1>7. <<>> \notin {RanTwo, RanThree} /\ RanOne \notin {RanTwo, RanThree}
  BY <1>2, <1>3
<1>8. "CSRF" \notin ToSet(<<>>) /\ "CSRF" \notin ToSet(RanOne)
  BY DEF ToSet, RanOne
<1> QED
  BY <1>4, <1>5, <1>6, <1>7, <1>8
-----------------------------------------------------------------------------
(* The invariant                                                             *)

\* Before anybody connects there is nothing to say of a request.
LEMMA InitIInv == Init => IInv
<1> SUFFICES ASSUME Init PROVE IInv
  OBVIOUS
<1>1. site \in Sites /\ Fields
  BY DEF Init, Fields, NoContext
<1>2. Headers /\ Peers
  BY DEF Init, Headers, Peers
<1>3. Stages
  BY DEF Init, Stages
<1>4. Honest /\ Trusted
  BY DEF Init, Honest, Trusted, Arriving
<1>5. Limits
  BY DEF Init, Filled, Limits
<1>6. Bounded
  <2>1. taken = 0 /\ answer.status = 0 /\ at = "browser"
    BY DEF Init, NoAnswer
  <2> QED
    BY <1>1, <1>5, <2>1, LimitPositive DEF Bounded, Arriving
<1>7. Together
  BY DEF Init, Together, NoContext, Arriving
<1>8. SchemeUsed
  BY Stack DEF Init, SchemeUsed, NoContext, NoAnswer, Arriving
<1> QED
  BY <1>1, <1>2, <1>3, <1>4, <1>5, <1>6, <1>7, <1>8 DEF IInv

\* What depends on the deployment and the request only.
LEMMA Steady ==
  ASSUME UNCHANGED <<config, request>>
  PROVE  /\ LimitAt(request.path)' = LimitAt(request.path)
         /\ Match(request.path)' <=> Match(request.path)
         /\ Limits' <=> Limits
         /\ (Believed' <=> Believed) /\ Observed' = Observed
         /\ Nearest(Joined(request.for))' = Nearest(Joined(request.for))
         /\ ForwardedScheme(Joined(request.proto))'
              = ForwardedScheme(Joined(request.proto))
<1> USE DEF config
<1>1. LimitAt(request.path)' = LimitAt(request.path)
  BY DEF LimitAt, Matching
<1>2. Match(request.path)' <=> Match(request.path)
  BY DEF Match
<1>3. Limits' <=> Limits
  BY DEF Limits
<1>4. (Believed' <=> Believed) /\ Observed' = Observed
  BY DEF Believed, Observed
<1>5. Nearest(Joined(request.for))' = Nearest(Joined(request.for))
  BY DEF Nearest, Outside
<1>6. ForwardedScheme(Joined(request.proto))' = ForwardedScheme(Joined(request.proto))
  BY <1>4 DEF ForwardedScheme
<1> QED
  BY <1>1, <1>2, <1>3, <1>4, <1>5, <1>6

\* A client connects: no proxy has seen it yet.
LEMMA DialStep == ASSUME IInv, NEW c \in Clients, Dial(c) PROVE IInv'
<1>1. PICK tls \in site.tls, sent \in site.sent, path \in site.paths,
           body \in site.bodies, form \in BOOLEAN :
        \E declared \in {-1, body},
           from \in IF form THEN {"none", "foreign", Text(tls)} ELSE {"none"} :
          request' = [peer |-> c, tls |-> tls, for |-> sent.for, proto |-> sent.proto,
                      path |-> path, form |-> form, origin |-> from,
                      declared |-> declared, body |-> body]
  BY DEF Dial, Text
<1>2. PICK declared \in {-1, body} :
        \E from \in IF form THEN {"none", "foreign", Text(tls)} ELSE {"none"} :
          request' = [peer |-> c, tls |-> tls, for |-> sent.for, proto |-> sent.proto,
                      path |-> path, form |-> form, origin |-> from,
                      declared |-> declared, body |-> body]
  BY <1>1
<1>3. PICK from \in IF form THEN {"none", "foreign", Text(tls)} ELSE {"none"} :
        request' = [peer |-> c, tls |-> tls, for |-> sent.for, proto |-> sent.proto,
                    path |-> path, form |-> form, origin |-> from,
                    declared |-> declared, body |-> body]
  BY <1>2
<1>4. /\ at = "browser" /\ at' = "network" /\ hops = <<>>
      /\ UNCHANGED <<site, limitOf, prefixes, hops, ctx, taken, answer>>
  BY DEF Dial, config, IInv, Peers
<1>5. /\ tls \in BOOLEAN /\ sent.for \in Seq(Entry) /\ sent.proto \in Seq(Entry)
      /\ body \in Nat
  BY SitesAssumption DEF IInv
<1>6. site' \in Sites /\ Fields' /\ Headers' /\ Limits'
  BY <1>3, <1>4, <1>5 DEF IInv, Fields, Headers, Limits
<1>7. Peers'
  BY <1>3, <1>4, <1>5 DEF Peers
<1>8. Stages'
  <2>1. Len(hops') = 0 /\ Len(request'.for) \in Nat
    BY <1>4, <1>6, LenProperties DEF Headers
  <2> QED
    BY <1>4, <2>1 DEF Stages
<1>9. Honest'
  <2>1. Browsed' = tls
    BY <1>3, <1>4 DEF Browsed
  <2> QED
    BY <1>3, <1>4, <1>5, <2>1 DEF Honest
<1>10. Trusted' /\ ctx = NoContext
  BY <1>4 DEF Trusted, IInv, Arriving
<1>11. answer = NoAnswer
  BY <1>4 DEF IInv, SchemeUsed, Arriving
<1>12. Bounded'
  <2>1. LimitAt(request.path)' \in Nat \ {0}
    <3>1. \A path2 : LimitAt(path2) \in Nat \ {0}
      BY LimitPositive DEF IInv
    <3>2. LimitAt(request.path)' = LimitAt(request'.path)
      BY <1>4 DEF LimitAt, Matching
    <3> QED
      BY <3>1, <3>2
  <2>2. taken = 0 /\ answer.status = 0
    BY <1>4, <1>11 DEF IInv, Bounded, Arriving, NoAnswer
  <2> QED
    BY <1>4, <2>1, <2>2 DEF Bounded, Arriving
<1>13. Together'
  BY <1>4, <1>10 DEF Together, NoContext, Arriving
<1>14. SchemeUsed'
  BY <1>4, <1>10, <1>11, Stack DEF SchemeUsed, NoContext, NoAnswer, Arriving
<1> QED
  BY <1>6, <1>7, <1>8, <1>9, <1>10, <1>12, <1>13, <1>14 DEF IInv

\* A proxy adds the connection it has accepted to what is known of the way.
LEMMA ForwardStep == ASSUME IInv, NEW p \in Proxies, Forward(p) PROVE IInv'
<1> DEFINE hop == [peer |-> request.peer, tls |-> request.tls]
           n == Len(hops)
           m == Len(request.for)
<1>1. /\ at = "network" /\ at' = "network" /\ p \in site.proxies
      /\ hops' = Append(hops, hop)
      /\ UNCHANGED <<site, limitOf, prefixes, ctx, taken, answer>>
      /\ request' = [request EXCEPT
           !.peer = p, !.tls = FALSE,
           !.for = Stated(@, request.peer),
           !.proto = Stated(@, IF request.tls THEN "https" ELSE "http")]
  BY DEF Forward, config
<1>2. /\ request'.peer = p /\ request'.tls = FALSE
      /\ request'.for = Stated(request.for, request.peer)
      /\ request'.proto = Stated(request.proto, Text(request.tls))
      /\ request'.path = request.path /\ request'.form = request.form
      /\ request'.origin = request.origin /\ request'.declared = request.declared
      /\ request'.body = request.body /\ DOMAIN request' = DOMAIN request
  BY <1>1 DEF IInv, Fields, Text
<1>3. /\ hop \in Hop /\ hop.peer = request.peer /\ hop.tls = request.tls
      /\ request.peer \in Texts /\ Text(request.tls) \in Texts
  BY <1>1, SitesAssumption DEF IInv, Peers, Hop, Texts, Text
<1> HIDE DEF hop
<1>4. /\ hops \in Seq(Hop) /\ n \in Nat /\ (hops = <<>> <=> n = 0)
      /\ request.for \in Seq(Entry) /\ m \in Nat /\ request.proto \in Seq(Entry)
  BY LenProperties, EmptySeq DEF IInv, Headers
<1>5. /\ hops' \in Seq(Hop) /\ Len(hops') = n + 1 /\ hops' # <<>>
      /\ \A i \in 1 .. n : hops'[i] = hops[i]
      /\ hops'[n + 1] = hop
  BY <1>1, <1>3, <1>4, AppendProperties
<1>6. /\ request'.for \in Seq(Entry) /\ Len(request'.for) > 0
      /\ request'.for[Len(request'.for)].text = request.peer
      /\ site.states = "replace" => Len(request'.for) = 1
      /\ site.states # "replace" =>
           /\ Len(request'.for) = m + 1
           /\ \A i \in 1 .. m : request'.for[i] = request.for[i]
  <2> DEFINE new == Stated(request.for, request.peer)
  <2>1. /\ new \in Seq(Entry) /\ Len(new) > 0 /\ new[Len(new)].text = request.peer
        /\ site.states = "replace" => Len(new) = 1
        /\ site.states # "replace" =>
             Len(new) = m + 1 /\ \A i \in 1 .. m : new[i] = request.for[i]
    BY <1>3, <1>4, StatedLast
  <2>2. request'.for = new
    BY <1>2
  <2> HIDE DEF new, m
  <2> QED
    BY <2>1, <2>2
<1>7. /\ request'.proto \in Seq(Entry) /\ Len(request'.proto) > 0
      /\ request'.proto[Len(request'.proto)].text = Text(request.tls)
  BY <1>2, <1>3, <1>4, StatedLast
<1>8. site' \in Sites /\ Fields' /\ Headers' /\ Limits'
  BY <1>1, <1>2, <1>5, <1>6, <1>7 DEF IInv, Fields, Headers, Limits
<1>9. Peers'
  <2>1. hops'[1].peer \in Clients
    <3>1. CASE n = 0
      BY <1>1, <1>3, <1>4, <1>5, <3>1 DEF IInv, Peers
    <3>2. CASE n # 0
      BY <1>4, <1>5, <3>2 DEF IInv, Peers
    <3> QED
      BY <3>1, <3>2
  <2> QED
    BY <1>1, <1>2, <1>5, <2>1 DEF Peers
<1>10. Stages'
  <2>1. CASE site.states = "replace"
    BY <1>1, <1>3, <1>4, <1>5, <1>6, <1>7, <2>1 DEF Stages
  <2>2. CASE site.states # "replace"
    <3>1. m >= n /\ \A i \in 1 .. n : request.for[m - n + i].text = hops[i].peer
      BY <2>2 DEF IInv, Stages
    <3>2. ASSUME NEW i \in 1 .. n + 1
          PROVE  request'.for[(m + 1) - (n + 1) + i].text = hops'[i].peer
      <4>1. CASE i = n + 1
        <5> HIDE DEF n, m
        <5>1. (m + 1) - (n + 1) + i = m + 1
          <6>1. n \in Int /\ m \in Int
            BY <1>4
          <6> QED
            BY <4>1, <6>1
        <5> QED
          BY <1>3, <1>5, <1>6, <2>2, <4>1, <5>1
      <4>2. CASE i # n + 1
        <5>1. i \in 1 .. n /\ m - n + i \in 1 .. m /\ (m + 1) - (n + 1) + i = m - n + i
          BY <1>4, <3>1, <4>2
        <5> QED
          BY <1>5, <1>6, <2>2, <3>1, <5>1
      <4> QED
        BY <4>1, <4>2
    <3>3. Len(request'.for) = m + 1 /\ Len(hops') = n + 1 /\ m + 1 >= n + 1
      BY <1>4, <1>5, <1>6, <2>2, <3>1
    <3>4. request'.proto[Len(request'.proto)].text = Text(hops'[Len(hops')].tls)
      BY <1>3, <1>5, <1>7
    <3> HIDE DEF n, m
    <3> QED
      BY <1>1, <1>7, <2>2, <3>2, <3>3, <3>4 DEF Stages
  <2> QED
    BY <2>1, <2>2
<1>11. Honest'
  <2>1. Browsed' = Browsed
    <3>1. CASE n = 0
      BY <1>3, <1>4, <1>5, <3>1 DEF Browsed
    <3>2. CASE n # 0
      BY <1>4, <1>5, <3>2 DEF Browsed
    <3> QED
      BY <3>1, <3>2
  <2> QED
    BY <1>1, <1>2, <2>1 DEF IInv, Honest
<1>12. Trusted'
  BY <1>1 DEF IInv, Trusted, Arriving
<1>13. Bounded'
  <2>1. LimitAt(request.path)' = LimitAt(request.path)
    BY <1>1, <1>2 DEF LimitAt, Matching
  <2> QED
    BY <1>1, <1>2, <2>1 DEF IInv, Bounded, Arriving
<1>14. Together'
  BY <1>1 DEF IInv, Together, Arriving
<1>15. SchemeUsed'
  BY <1>1, <1>2, Stack DEF IInv, SchemeUsed, Together, Arriving
<1> QED
  BY <1>8, <1>9, <1>10, <1>11, <1>12, <1>13, <1>14, <1>15 DEF IInv

\* What the chain does inside leaves the request and what is known of its way.
Inside ==
  /\ at \notin Arriving /\ at' \notin Arriving
  /\ UNCHANGED <<config, request, hops>>
  /\ ctx'.client = ctx.client /\ ctx'.scheme = ctx.scheme
  /\ DOMAIN ctx' = DOMAIN ctx

LEMMA InsideStep ==
  ASSUME IInv, Inside, Bounded', Together', SchemeUsed'
  PROVE  IInv'
<1>1. site' \in Sites /\ Fields' /\ Headers'
  BY DEF IInv, Inside, Fields, Headers, config
<1>2. Peers' /\ Stages' /\ Honest'
  BY DEF IInv, Inside, Peers, Stages, Honest, Browsed, config, Arriving
<1>3. Trusted' /\ Limits'
  BY Steady DEF IInv, Inside, Trusted
<1> QED
  BY <1>1, <1>2, <1>3 DEF IInv

\* TrustedProxy says who the client is.
LEMMA TrustedProxyStep == ASSUME IInv, TrustedProxy PROVE IInv'
<1>1. /\ at = "network" /\ at' = "RequestID" /\ ctx = NoContext /\ answer = NoAnswer
      /\ UNCHANGED <<config, request, hops, taken, answer>>
      /\ ctx' = [ctx EXCEPT
           !.client = IF Believed THEN Nearest(Joined(request.for)) ELSE request.peer,
           !.scheme = IF Believed THEN ForwardedScheme(Joined(request.proto))
                      ELSE Observed]
  BY DEF TrustedProxy, Pass, IInv, Trusted, SchemeUsed, Arriving
<1>2. /\ ctx'.client = IF Believed THEN Nearest(Joined(request.for)) ELSE request.peer
      /\ ctx'.scheme = IF Believed THEN ForwardedScheme(Joined(request.proto))
                       ELSE Observed
      /\ DOMAIN ctx' = DOMAIN ctx /\ ctx'.ran = <<>> /\ ctx'.stateless = FALSE
      /\ ctx'.user = "none"
  <2>1. /\ DOMAIN ctx = {"client", "scheme", "id", "recovers", "hardened", "limit",
                         "ran", "stateless", "user"}
        /\ ctx.ran = <<>> /\ ctx.stateless = FALSE /\ ctx.user = "none"
    BY <1>1 DEF IInv, Fields, NoContext
  <2> QED
    BY <1>1, <2>1
<1>3. site' \in Sites /\ Fields' /\ Headers'
  BY <1>1, <1>2 DEF IInv, Fields, Headers, config
<1>4. Peers' /\ Stages' /\ Honest'
  BY <1>1 DEF IInv, Peers, Stages, Honest, Browsed, config
<1>5. Trusted' /\ Limits'
  BY <1>1, <1>2, Steady DEF IInv, Trusted, Arriving
<1>6. Bounded'
  BY <1>1, Steady DEF IInv, Bounded, Arriving, Shell
<1>7. Together'
  BY <1>1, <1>2 DEF Together, Arriving, Shell
<1>8. SchemeUsed'
  <2>1. ctx'.ran \notin {RanTwo, RanThree}
    BY <1>2, Stack
  <2> QED
    BY <1>1, <2>1 DEF SchemeUsed, NoAnswer, Arriving
<1> QED
  BY <1>3, <1>4, <1>5, <1>6, <1>7, <1>8 DEF IInv

\* RequestID, Recover and SecurityHeaders leave a mark each.
LEMMA ShellStep ==
  ASSUME IInv, RequestID \/ Recover \/ SecurityHeaders
  PROVE  IInv'
<1>1. /\ at \in {"RequestID", "Recover", "SecurityHeaders"}
      /\ at' \in {"Recover", "SecurityHeaders", "BodyLimits"}
      /\ UNCHANGED <<config, request, hops, taken, answer>>
      /\ ctx'.client = ctx.client /\ ctx'.scheme = ctx.scheme
      /\ DOMAIN ctx' = DOMAIN ctx /\ ctx'.ran = ctx.ran
      /\ ctx'.stateless = ctx.stateless /\ ctx'.user = ctx.user
  BY DEF RequestID, Recover, SecurityHeaders, Pass, IInv, Fields
<1>2. Inside
  BY <1>1 DEF Inside, Arriving
<1>3. Bounded'
  BY <1>1, Steady DEF IInv, Bounded, Arriving, Shell
<1>4. Together'
  BY <1>1, Steady DEF IInv, Together, Arriving, Shell
<1>5. SchemeUsed'
  BY <1>1 DEF IInv, SchemeUsed, Arriving
<1> QED
  BY <1>2, <1>3, <1>4, <1>5, InsideStep

\* An answer is the first one, and ends the request.
LEMMA WriteErrorStep ==
  ASSUME IInv, at \notin Arriving, NEW status, NEW code, WriteError(status, code),
         status = 413 => request.body > LimitAt(request.path),
         code = "csrf_origin" => request.origin \notin {"none", ctx.scheme},
         status = 303 /\ ctx.scheme = "https" => code # "http"
  PROVE  IInv'
<1>1. /\ at' = "done" /\ UNCHANGED <<config, request, hops, ctx, taken>>
      /\ \/ answer'.status = status /\ answer'.code = code
         \/ answer' = answer
  BY DEF WriteError, Answered
<1>2. Inside
  BY <1>1 DEF Inside, Arriving
<1>3. Bounded'
  BY <1>1, Steady DEF IInv, Bounded, Arriving, Shell
<1>4. Together'
  BY <1>1, Steady DEF IInv, Together, Arriving, Shell
<1>5. SchemeUsed'
  BY <1>1 DEF IInv, SchemeUsed, Arriving
<1> QED
  BY <1>2, <1>3, <1>4, <1>5, InsideStep

\* BodyLimits refuses what is declared to be too long, and bounds the rest.
LEMMA BodyLimitsStep == ASSUME IInv, BodyLimits PROVE IInv'
<1> DEFINE limit == LimitAt(request.path)
<1>1. at = "BodyLimits" /\ limit \in Nat
  <2>1. limit \in Nat \ {0}
    BY LimitPositive DEF IInv
  <2> QED
    BY <2>1 DEF BodyLimits, Pass
<1>2. CASE request.declared > limit
  <2>1. request.body > limit
    BY <1>1, <1>2 DEF IInv, Honest
  <2>2. WriteError(413, "body_too_large")
    BY <1>2 DEF BodyLimits
  <2> QED
    BY <1>1, <2>1, <2>2, WriteErrorStep DEF Arriving
<1>3. CASE ~(request.declared > limit)
  <2>1. /\ at' = "Sessions" /\ ctx' = [ctx EXCEPT !.limit = limit]
        /\ UNCHANGED <<config, request, hops, taken, answer>>
    BY <1>3 DEF BodyLimits, Pass
  <2> HIDE DEF limit
  <2>2. /\ ctx'.client = ctx.client /\ ctx'.scheme = ctx.scheme
        /\ DOMAIN ctx' = DOMAIN ctx /\ ctx'.ran = ctx.ran /\ ctx'.limit = limit
        /\ ctx'.stateless = ctx.stateless /\ ctx'.user = ctx.user
    BY <2>1 DEF IInv, Fields
  <2>3. Inside
    BY <1>1, <2>1, <2>2 DEF Inside, Arriving
  <2>4. Bounded'
    BY <1>1, <2>1, <2>2, Steady DEF IInv, Bounded, Arriving, Shell, limit
  <2>5. Together'
    BY <1>1, <2>1, <2>2, Steady DEF IInv, Together, Arriving, Shell
  <2>6. SchemeUsed'
    BY <1>1, <2>1, <2>2 DEF IInv, SchemeUsed, Arriving
  <2> QED
    BY <2>3, <2>4, <2>5, <2>6, InsideStep
<1> QED
  BY <1>2, <1>3

\* The places of the middleware that Exempt may skip, each with the one after
\* it, what has run before it and what has run after it.
Wrapped ==
  {<<"Sessions", "CSRF", <<>>, RanOne>>, <<"CSRF", "Authentication", RanOne, RanTwo>>,
   <<"Authentication", "router", RanTwo, RanThree>>}

\* What is behind it, behind each of them.
LEMMA WrappedStack ==
  ASSUME IInv, NEW w \in Wrapped, at = w[1]
  PROVE  /\ at \in {"Sessions", "CSRF", "Authentication"} /\ Append(w[3], w[1]) = w[4]
         /\ w[2] \in {"CSRF", "Authentication", "router"}
         /\ Match(request.path) => ctx.ran = <<>>
         /\ ~Match(request.path) => ctx.ran = w[3] /\ ~ctx.stateless
         /\ ctx.user = "none"
<1>1. CASE w = <<"Sessions", "CSRF", <<>>, RanOne>>
  <2>1. w[1] = "Sessions" /\ w[2] = "CSRF" /\ w[3] = <<>> /\ w[4] = RanOne
    BY <1>1
  <2> QED
    BY <2>1, Stack DEF IInv, Together
<1>2. CASE w = <<"CSRF", "Authentication", RanOne, RanTwo>>
  <2>1. w[1] = "CSRF" /\ w[2] = "Authentication" /\ w[3] = RanOne /\ w[4] = RanTwo
    BY <1>2
  <2> QED
    BY <2>1, Stack DEF IInv, Together, Ran
<1>3. CASE w = <<"Authentication", "router", RanTwo, RanThree>>
  <2>1. /\ w[1] = "Authentication" /\ w[2] = "router"
        /\ w[3] = RanTwo /\ w[4] = RanThree
    BY <1>3
  <2> QED
    BY <2>1, Stack DEF IInv, Together, Ran
<1> QED
  BY <1>1, <1>2, <1>3 DEF Wrapped

\* Past such a middleware, whether it has run or not.
LEMMA PastStep ==
  ASSUME IInv, NEW w \in Wrapped, at = w[1], at' = w[2],
         UNCHANGED <<config, request, hops, answer>>,
         Bounded', ctx'.limit = ctx.limit,
         ctx'.client = ctx.client, ctx'.scheme = ctx.scheme, DOMAIN ctx' = DOMAIN ctx,
         IF Match(request.path)
           THEN ctx'.ran = ctx.ran /\ ctx'.stateless /\ ctx'.user = "none"
           ELSE /\ ctx'.ran = Append(ctx.ran, w[1]) /\ ctx'.stateless = ctx.stateless
                /\ ctx'.user = "none" \/ w[2] = "router",
         w[1] = "CSRF" /\ request.form /\ ~Match(request.path) =>
           request.origin \in {"none", ctx.scheme}
  PROVE  IInv'
<1>1. /\ at \in {"Sessions", "CSRF", "Authentication"} /\ Append(w[3], w[1]) = w[4]
      /\ w[2] \in {"CSRF", "Authentication", "router"}
      /\ Match(request.path) => ctx.ran = <<>>
      /\ ~Match(request.path) => ctx.ran = w[3] /\ ~ctx.stateless
      /\ ctx.user = "none"
  BY WrappedStack
<1>2. Inside
  BY <1>1 DEF Inside, Arriving
<1>3. /\ Match(request.path) => ctx'.ran = <<>> /\ ctx'.stateless /\ ctx'.user = "none"
      /\ ~Match(request.path) => ctx'.ran = w[4] /\ ~ctx'.stateless
      /\ w[2] # "router" => ctx'.user = "none"
  BY <1>1
<1>4. Together'
  <2>1. Match(request.path)' <=> Match(request.path)
    BY Steady
  <2>2. CASE w = <<"Sessions", "CSRF", <<>>, RanOne>>
    <3>1. w[2] = "CSRF" /\ w[4] = RanOne
      BY <2>2
    <3> QED
      BY <1>3, <2>1, <3>1 DEF Together, Ran, Arriving, Shell
  <2>3. CASE w = <<"CSRF", "Authentication", RanOne, RanTwo>>
    <3>1. w[2] = "Authentication" /\ w[4] = RanTwo
      BY <2>3
    <3> QED
      BY <1>3, <2>1, <3>1 DEF Together, Ran, Arriving, Shell
  <2>4. CASE w = <<"Authentication", "router", RanTwo, RanThree>>
    <3>1. w[2] = "router" /\ w[4] = RanThree
      BY <2>4
    <3> QED
      BY <1>3, <2>1, <3>1 DEF Together, Ran, Arriving, Shell
  <2> QED
    BY <2>2, <2>3, <2>4 DEF Wrapped
<1>5. SchemeUsed'
  <2>1. request.form /\ ctx'.ran \in {RanTwo, RanThree} =>
          request.origin \in {"none", ctx.scheme}
    <3>1. CASE w = <<"Sessions", "CSRF", <<>>, RanOne>>
      <4>1. w[4] = RanOne
        BY <3>1
      <4> QED
        BY <1>3, <4>1, Stack
    <3>2. CASE w = <<"CSRF", "Authentication", RanOne, RanTwo>>
      <4>1. w[1] = "CSRF"
        BY <3>2
      <4> QED
        BY <1>3, <4>1, Stack
    <3>3. CASE w = <<"Authentication", "router", RanTwo, RanThree>>
      <4>1. w[3] = RanTwo
        BY <3>3
      <4> QED
        BY <1>1, <1>3, <4>1, Stack DEF IInv, SchemeUsed
    <3> QED
      BY <3>1, <3>2, <3>3 DEF Wrapped
  <2> QED
    BY <1>1, <2>1 DEF IInv, SchemeUsed, Arriving
<1> QED
  BY <1>2, <1>4, <1>5, InsideStep

\* Exempt marks the request once and more.
LEMMA ExemptStep ==
  ASSUME IInv, NEW w \in Wrapped, Exempt(w[1], w[2])
  PROVE  IInv'
<1>1. /\ Match(request.path) /\ at = w[1] /\ at' = w[2]
      /\ ctx' = [ctx EXCEPT !.stateless = TRUE]
      /\ UNCHANGED <<config, request, hops, taken, answer>>
  BY DEF Exempt, Pass
<1>2. /\ ctx'.client = ctx.client /\ ctx'.scheme = ctx.scheme
      /\ DOMAIN ctx' = DOMAIN ctx /\ ctx'.ran = ctx.ran /\ ctx'.limit = ctx.limit
      /\ ctx'.stateless /\ ctx'.user = ctx.user
  BY <1>1 DEF IInv, Fields
<1>3. /\ at \in {"Sessions", "CSRF", "Authentication"} /\ ctx.user = "none"
      /\ w[2] \in {"CSRF", "Authentication", "router"}
  BY <1>1, WrappedStack
<1>4. Bounded'
  BY <1>1, <1>2, <1>3, Steady DEF IInv, Bounded, Arriving, Shell
<1> QED
  BY <1>1, <1>2, <1>3, <1>4, PastStep

\* The middleware runs and calls the next one, whatever it has read.
LEMMA RanStep ==
  ASSUME IInv, NEW w \in Wrapped, at = w[1], at' = w[2], ~Match(request.path),
         UNCHANGED <<config, request, hops, answer>>,
         NEW user, user = "none" \/ w[2] = "router",
         ctx' = [ctx EXCEPT !.ran = Append(@, w[1]), !.user = user],
         taken' = taken \/ (taken' = request.body /\ ~Overruns),
         w[1] = "CSRF" /\ request.form => request.origin \in {"none", ctx.scheme}
  PROVE  IInv'
<1>1. /\ ctx'.client = ctx.client /\ ctx'.scheme = ctx.scheme
      /\ DOMAIN ctx' = DOMAIN ctx /\ ctx'.limit = ctx.limit
      /\ ctx'.ran = Append(ctx.ran, w[1]) /\ ctx'.stateless = ctx.stateless
      /\ ctx'.user = user
  BY DEF IInv, Fields
<1>2. /\ at \in {"Sessions", "CSRF", "Authentication"}
      /\ w[2] \in {"CSRF", "Authentication", "router"}
  BY WrappedStack
<1>3. ctx.limit = LimitAt(request.path) /\ LimitAt(request.path) \in Nat \ {0}
  BY <1>2, LimitPositive DEF IInv, Bounded, Arriving, Shell
<1>4. taken' <= LimitAt(request.path)
  <2>1. request.body \in Nat
    BY <1>2 DEF IInv, Honest
  <2> QED
    BY <1>3, <2>1 DEF IInv, Bounded, Overruns
<1>5. Bounded'
  BY <1>1, <1>2, <1>3, <1>4, Steady DEF IInv, Bounded, Arriving, Shell
<1> QED
  BY <1>1, <1>2, <1>5, PastStep

\* It need not say who the user is.
LEMMA SameUser ==
  ASSUME IInv, ctx.user = "none", NEW name,
         NEW c, c = [ctx EXCEPT !.ran = Append(@, name)]
  PROVE  c = [ctx EXCEPT !.ran = Append(@, name), !.user = "none"]
BY DEF IInv, Fields

LEMMA SessionsStep == ASSUME IInv, Sessions PROVE IInv'
<1> DEFINE w == <<"Sessions", "CSRF", <<>>, RanOne>>
<1>1. w \in Wrapped /\ w[1] = "Sessions" /\ w[2] = "CSRF"
  BY DEF Wrapped
<1> HIDE DEF w
<1>2. CASE Exempt("Sessions", "CSRF")
  BY <1>1, <1>2, ExemptStep
<1>3. CASE Runs("Sessions") /\
           Pass("Sessions", "CSRF", [ctx EXCEPT !.ran = Append(@, "Sessions")])
  <2>1. /\ at = "Sessions" /\ at' = "CSRF" /\ ~Match(request.path)
        /\ UNCHANGED <<config, request, hops, taken, answer>>
        /\ ctx' = [ctx EXCEPT !.ran = Append(@, "Sessions")]
    BY <1>3 DEF Runs, Pass
  <2>2. ctx.user = "none"
    BY <1>1, <2>1, WrappedStack
  <2>3. ctx' = [ctx EXCEPT !.ran = Append(@, "Sessions"), !.user = "none"]
    BY <2>1, <2>2, SameUser
  <2> QED
    BY <1>1, <2>1, <2>3, RanStep
<1> QED
  BY <1>2, <1>3 DEF Sessions

\* A form passes only with an origin of the site, and its body is cut off at
\* the limit.
LEMMA CSRFStep == ASSUME IInv, CSRF PROVE IInv'
<1> DEFINE w == <<"CSRF", "Authentication", RanOne, RanTwo>>
           passed == [ctx EXCEPT !.ran = Append(@, "CSRF")]
<1>1. w \in Wrapped /\ w[1] = "CSRF" /\ w[2] = "Authentication"
  BY DEF Wrapped
<1> HIDE DEF w
<1>2. CASE Exempt("CSRF", "Authentication")
  BY <1>1, <1>2, ExemptStep
<1>3. ASSUME Runs("CSRF"), request.form => ValidOrigin,
             \/ Pass("CSRF", "Authentication", passed)
             \/ ~Overruns /\ Reads("Authentication", passed)
      PROVE  IInv'
  <2>1. /\ at = "CSRF" /\ at' = "Authentication" /\ ~Match(request.path)
        /\ UNCHANGED <<config, request, hops, answer>> /\ ctx' = passed
        /\ taken' = taken \/ (taken' = request.body /\ ~Overruns)
    BY <1>3 DEF Runs, Pass, Reads
  <2>2. ctx.user = "none"
    BY <1>1, <2>1, WrappedStack
  <2>3. ctx' = [ctx EXCEPT !.ran = Append(@, "CSRF"), !.user = "none"]
    BY <2>1, <2>2, SameUser
  <2> QED
    BY <1>1, <1>3, <2>1, <2>3, RanStep DEF ValidOrigin
<1>4. ASSUME Runs("CSRF"),
             \/ WriteError(403, "csrf_origin") /\ ~ValidOrigin
             \/ WriteError(413, "body_too_large") /\ Overruns
             \/ WriteError(403, "csrf_failed")
      PROVE  IInv'
  <2>1. at = "CSRF" /\ at \notin Arriving \cup Shell \cup {"done"}
    BY <1>4 DEF Runs, Arriving, Shell
  <2>2. ctx.limit = LimitAt(request.path)
    BY <2>1 DEF IInv, Bounded
  <2>3. CASE WriteError(403, "csrf_origin") /\ ~ValidOrigin
    BY <2>1, <2>3, WriteErrorStep DEF ValidOrigin
  <2>4. CASE WriteError(413, "body_too_large") /\ Overruns
    BY <2>1, <2>2, <2>4, WriteErrorStep DEF Overruns
  <2>5. CASE WriteError(403, "csrf_failed")
    BY <2>1, <2>5, WriteErrorStep
  <2> QED
    BY <1>4, <2>3, <2>4, <2>5
<1>5. \/ Exempt("CSRF", "Authentication")
      \/ /\ Runs("CSRF") /\ ~request.form
         /\ Pass("CSRF", "Authentication", passed)
      \/ /\ Runs("CSRF") /\ request.form /\ ~ValidOrigin
         /\ WriteError(403, "csrf_origin")
      \/ /\ Runs("CSRF") /\ request.form /\ ValidOrigin
         /\ \/ Pass("CSRF", "Authentication", passed)
            \/ Overruns /\ WriteError(413, "body_too_large")
            \/ ~Overruns /\ Reads("Authentication", passed)
            \/ WriteError(403, "csrf_failed")
  BY Zenon DEF CSRF
<1> HIDE DEF passed
<1> QED
  BY <1>2, <1>3, <1>4, <1>5, Zenon

LEMMA AuthenticationStep == ASSUME IInv, Authentication PROVE IInv'
<1> DEFINE w == <<"Authentication", "router", RanTwo, RanThree>>
           passed == [ctx EXCEPT !.ran = Append(@, "Authentication")]
<1>1. w \in Wrapped /\ w[1] = "Authentication" /\ w[2] = "router"
  BY DEF Wrapped
<1> HIDE DEF w
<1>2. CASE Exempt("Authentication", "router")
  BY <1>1, <1>2, ExemptStep
<1>3. CASE Runs("Authentication") /\ WriteError(500, "auth_unavailable")
  BY <1>3, WriteErrorStep DEF Runs, Arriving
<1>4. ASSUME Runs("Authentication"), NEW u,
             Pass("Authentication", "router", [passed EXCEPT !.user = u])
      PROVE  IInv'
  <2>1. /\ at = "Authentication" /\ at' = "router" /\ ~Match(request.path)
        /\ UNCHANGED <<config, request, hops, taken, answer>>
        /\ ctx' = [passed EXCEPT !.user = u]
    BY <1>4 DEF Runs, Pass
  <2>2. ctx' = [ctx EXCEPT !.ran = Append(@, "Authentication"), !.user = u]
    BY <2>1 DEF IInv, Fields
  <2> QED
    BY <1>1, <2>1, <2>2, RanStep
<1> QED
  BY <1>2, <1>3, <1>4 DEF Authentication

\* The guards answer, or let the handler run as the chain has left things.
LEMMA RouteStep == ASSUME IInv, Route PROVE IInv'
<1>1. at = "router" /\ at \notin Arriving
  BY DEF Route, Arriving
<1>2. \/ WriteError(401, "authentication_required")
      \/ WriteError(403, "permission_denied")
      \/ Pass("router", "handler", ctx)
  BY DEF Route
<1>3. CASE WriteError(401, "authentication_required")
  BY <1>1, <1>3, WriteErrorStep
<1>4. CASE WriteError(403, "permission_denied")
  BY <1>1, <1>4, WriteErrorStep
<1>5. CASE Pass("router", "handler", ctx)
  <2>1. /\ at' = "handler" /\ UNCHANGED <<config, request, hops, ctx, taken, answer>>
    BY <1>5 DEF Pass
  <2>2. Inside
    BY <1>1, <2>1 DEF Inside, Arriving
  <2>3. Bounded' /\ Together' /\ SchemeUsed'
    <3>1. Bounded'
      BY <1>1, <2>1, Steady DEF IInv, Bounded, Arriving, Shell
    <3>2. Together'
      BY <1>1, <2>1, Steady DEF IInv, Together, Ran, Arriving, Shell
    <3>3. SchemeUsed'
      BY <1>1, <2>1 DEF IInv, SchemeUsed, Arriving
    <3> QED
      BY <3>1, <3>2, <3>3
  <2> QED
    BY <2>2, <2>3, InsideStep
<1> QED
  BY <1>2, <1>3, <1>4, <1>5

\* A handler reads to the limit at most, and no further than HTTPS allows
\* does a sign-in lead.
LEMMA HandleStep == ASSUME IInv, Handle PROVE IInv'
<1>1. at = "handler" /\ at \notin Arriving \cup Shell \cup {"done"}
  BY DEF Handle, Arriving, Shell
<1>2. ctx.limit = LimitAt(request.path) /\ LimitAt(request.path) \in Nat \ {0}
  BY <1>1, LimitPositive DEF IInv, Bounded
<1>3. CASE Reads("handler", ctx)
  <2>1. /\ at' = at /\ UNCHANGED <<config, request, hops, ctx, answer>>
        /\ taken' = IF Overruns THEN ctx.limit ELSE request.body
    BY <1>1, <1>3 DEF Reads
  <2>2. Inside
    BY <1>1, <2>1 DEF Inside
  <2>3. Bounded'
    <3>1. taken' <= LimitAt(request.path)
      <4>1. request.body \in Nat
        BY <1>1 DEF IInv, Honest, Arriving
      <4> QED
        BY <1>2, <2>1, <4>1 DEF Overruns
    <3> QED
      BY <1>1, <2>1, <3>1, Steady DEF IInv, Bounded
  <2>4. Together'
    BY <1>1, <2>1, Steady DEF IInv, Together, Ran, Arriving, Shell
  <2>5. SchemeUsed'
    BY <1>1, <2>1 DEF IInv, SchemeUsed, Arriving
  <2> QED
    BY <2>2, <2>3, <2>4, <2>5, InsideStep
<1>4. ASSUME NEW t \in Targets, IsSafeRedirect(t),
             WriteError(303, IF t.scheme = "none" THEN "same" ELSE t.scheme)
      PROVE  IInv'
  <2> DEFINE code == IF t.scheme = "none" THEN "same" ELSE t.scheme
  <2>1. code \in {"same", "http", "https"} /\ (ctx.scheme = "https" => code # "http")
    BY <1>4 DEF Targets, IsSafeRedirect, RequiresHTTPS
  <2>2. WriteError(303, code)
    BY <1>4
  <2> HIDE DEF code
  <2> QED
    BY <1>1, <2>1, <2>2, WriteErrorStep
<1>5. CASE answer = NoAnswer /\ answer' = Answered(200, "begun")
           /\ UNCHANGED <<config, request, hops, at, ctx, taken>>
  <2>1. answer'.status = 200 /\ answer'.code = "begun"
    BY <1>5 DEF Answered
  <2>2. Inside
    BY <1>1, <1>5 DEF Inside
  <2>3. Bounded'
    BY <1>1, <1>5, <2>1, Steady DEF IInv, Bounded
  <2>4. Together'
    BY <1>1, <1>5, Steady DEF IInv, Together, Ran, Arriving, Shell
  <2>5. SchemeUsed'
    BY <1>1, <1>5, <2>1 DEF IInv, SchemeUsed, Arriving
  <2> QED
    BY <2>2, <2>3, <2>4, <2>5, InsideStep
<1>6. CASE WriteError(200, "begun")
  BY <1>1, <1>6, WriteErrorStep
<1> QED
  BY <1>3, <1>4, <1>5, <1>6 DEF Handle

\* A panic answers or closes the connection.
LEMMA PanicStep == ASSUME IInv, Panic PROVE IInv'
<1>1. at \in {"RequestID", "handler"} /\ at \notin Arriving
  BY DEF Panic, Arriving
<1>2. CASE ctx.recovers
  BY <1>1, <1>2, WriteErrorStep DEF Panic
<1>3. CASE ~ctx.recovers
  <2>1. at' = "done" /\ UNCHANGED <<config, request, hops, ctx, taken, answer>>
    BY <1>3 DEF Panic
  <2>2. Inside
    BY <1>1, <2>1 DEF Inside, Arriving
  <2>3. Bounded'
    BY <2>1, Steady DEF IInv, Bounded, Arriving, Shell
  <2>4. Together'
    BY <2>1, Steady DEF IInv, Together, Arriving, Shell
  <2>5. SchemeUsed'
    BY <1>1, <2>1 DEF IInv, SchemeUsed, Arriving
  <2> QED
    BY <2>2, <2>3, <2>4, <2>5, InsideStep
<1> QED
  BY <1>2, <1>3

\* Nothing happens.
LEMMA StutterIInv == ASSUME IInv, UNCHANGED vars PROVE IInv'
<1>1. UNCHANGED <<site, limitOf, prefixes, request, hops, at, ctx, taken, answer>>
  BY DEF vars
<1>2. site' \in Sites /\ Fields' /\ Headers' /\ Peers'
  BY <1>1 DEF IInv, Fields, Headers, Peers
<1>3. Stages' /\ Honest'
  BY <1>1 DEF IInv, Stages, Honest, Browsed
<1>4. Trusted' /\ Limits'
  BY <1>1, Steady DEF IInv, Trusted, config
<1>5. Bounded' /\ Together'
  BY <1>1, Steady DEF IInv, Bounded, Together, Ran, config
<1>6. SchemeUsed'
  BY <1>1 DEF IInv, SchemeUsed
<1> QED
  BY <1>2, <1>3, <1>4, <1>5, <1>6 DEF IInv

LEMMA NextIInv == IInv /\ [Next]_vars => IInv'
<1> SUFFICES ASSUME IInv, [Next]_vars PROVE IInv'
  OBVIOUS
<1>1. ASSUME NEW c \in Clients, Dial(c) PROVE IInv'
  BY <1>1, DialStep
<1>2. ASSUME NEW p \in Proxies, Forward(p) PROVE IInv'
  BY <1>2, ForwardStep
<1>3. CASE TrustedProxy
  BY <1>3, TrustedProxyStep
<1>4. CASE RequestID \/ Recover \/ SecurityHeaders
  BY <1>4, ShellStep
<1>5. CASE BodyLimits
  BY <1>5, BodyLimitsStep
<1>6. CASE Sessions
  BY <1>6, SessionsStep
<1>7. CASE CSRF
  BY <1>7, CSRFStep
<1>8. CASE Authentication
  BY <1>8, AuthenticationStep
<1>9. CASE Route
  BY <1>9, RouteStep
<1>10. CASE Handle
  BY <1>10, HandleStep
<1>11. CASE Panic
  BY <1>11, PanicStep
<1>12. CASE Quiet \/ UNCHANGED vars
  BY <1>12, StutterIInv DEF Quiet
<1> QED
  BY <1>1, <1>2, <1>3, <1>4, <1>5, <1>6, <1>7, <1>8, <1>9, <1>10, <1>11, <1>12 DEF Next

\* Every state the pipeline reaches: what each hop left in the headers, what
\* each middleware has left in the context, whatever the deployment.
THEOREM InductiveInvariant == Spec => []IInv
<1>1. Init => IInv
  BY InitIInv
<1>2. IInv /\ [Next]_vars => IInv'
  BY NextIInv
<1> QED
  BY <1>1, <1>2, PTL DEF Spec
-----------------------------------------------------------------------------
(* What it says about the requests that reach a handler                      *)

\* What one reads of a header: the texts of its entries.
LEMMA JoinedTexts ==
  ASSUME NEW header \in Seq(Entry)
  PROVE  /\ Len(header) \in Nat /\ DOMAIN Joined(header) = 1 .. Len(header)
         /\ \A i \in 1 .. Len(header) : Joined(header)[i] = header[i].text
<1>1. Len(header) \in Nat /\ DOMAIN header = 1 .. Len(header)
  BY LenProperties
<1> QED
  BY <1>1 DEF Joined

\* The nearest hop that is not declared: the first one is not.
LEMMA NearestHopIs ==
  ASSUME IInv, hops # <<>>
  PROVE  LET U == {i \in DOMAIN hops : hops[i].peer \notin site.networks}
         IN  /\ Len(hops) \in Nat \ {0} /\ DOMAIN hops = 1 .. Len(hops)
             /\ 1 \in U /\ U \subseteq 1 .. Len(hops)
             /\ Max(U) \in U /\ \A i \in U : Max(U) >= i
<1> DEFINE U == {i \in DOMAIN hops : hops[i].peer \notin site.networks}
<1>1. Len(hops) \in Nat \ {0} /\ DOMAIN hops = 1 .. Len(hops)
  <2>1. hops \in Seq(Hop)
    BY DEF IInv, Headers
  <2> QED
    BY <2>1, LenProperties, EmptySeq
<1>2. hops[1].peer \notin site.networks
  BY SitesAssumption DEF IInv, Peers
<1>3. 1 \in U /\ U \subseteq 1 .. Len(hops)
  BY <1>1, <1>2
<1> HIDE DEF U
<1>4. Max(U) \in U /\ \A i \in U : Max(U) >= i
  BY <1>1, <1>3, MaxExists
<1> QED
  BY <1>1, <1>3, <1>4 DEF U

\* Whom a believed proxy's last entries name.
LEMMA NearestIs ==
  ASSUME IInv, hops # <<>>
  PROVE  LET found == Nearest(Joined(request.for))
         IN  \/ found = NearestHop
             \/ /\ found = request.peer
                /\ \/ site.states = "replace" /\ Len(hops) > 1
                   \/ \E i \in DOMAIN request.for : request.for[i].text \notin Addresses
<1> DEFINE U == {i \in DOMAIN hops : hops[i].peer \notin site.networks}
           u == Max(U)
           n == Len(hops)
           m == Len(request.for)
           entries == Joined(request.for)
           found == Nearest(entries)
           unparsed == \E i \in DOMAIN request.for : request.for[i].text \notin Addresses
<1>1. /\ n \in Nat \ {0} /\ DOMAIN hops = 1 .. n /\ 1 \in U /\ U \subseteq 1 .. n
      /\ u \in U /\ \A i \in U : u >= i
  BY NearestHopIs
<1>2. /\ m \in Nat /\ DOMAIN request.for = 1 .. m /\ DOMAIN entries = 1 .. m
      /\ \A i \in 1 .. m : entries[i] = request.for[i].text
  BY JoinedTexts, LenProperties DEF IInv, Headers
<1>3. NearestHop = hops[u].peer
  BY DEF NearestHop
<1>4. \A i \in 1 .. n : i \in U <=> hops[i].peer \notin site.networks
  BY <1>1
<1> HIDE DEF U, u, n, m, entries
<1>5. CASE unparsed
  <2>1. Outside(entries) = {}
    BY <1>2, <1>5 DEF Outside
  <2>2. found = request.peer
    BY <2>1 DEF Nearest
  <2> QED
    BY <1>5, <2>2 DEF entries
<1>6. CASE ~unparsed
  <2>1. Outside(entries) = {i \in 1 .. m : entries[i] \notin site.networks}
    BY <1>2, <1>6 DEF Outside
  <2>2. CASE site.states = "replace"
    <3>1. m = 1 /\ entries[1] = hops[n].peer
      BY <1>1, <1>2, <2>2 DEF IInv, Stages, m, n
    <3>2. CASE hops[n].peer \in site.networks
      <4>1. Outside(entries) = {}
        BY <2>1, <3>1, <3>2
      <4>2. n # 1
        BY <1>1, <1>4, <3>2
      <4>3. found = request.peer
        BY <4>1 DEF Nearest
      <4> QED
        BY <1>1, <2>2, <4>2, <4>3 DEF entries, n
    <3>3. CASE hops[n].peer \notin site.networks
      <4>1. Outside(entries) = {1}
        BY <2>1, <3>1, <3>3
      <4>2. Max({1}) = 1
        BY MaxIs, 1 \in Nat, {1} \subseteq 1 .. 1
      <4>3. found = entries[1]
        BY <4>1, <4>2 DEF Nearest
      <4>4. n \in U
        BY <1>1, <1>4, <3>3
      <4>5. u = n
        BY <1>1, <4>4
      <4> QED
        BY <1>3, <3>1, <4>3, <4>5 DEF entries
    <3> QED
      BY <3>2, <3>3
  <2>3. CASE site.states # "replace"
    <3>1. m >= n /\ \A i \in 1 .. n : request.for[m - n + i].text = hops[i].peer
      BY <2>3 DEF IInv, Stages, m, n
    <3>2. \A i \in 1 .. n : m - n + i \in 1 .. m /\ entries[m - n + i] = hops[i].peer
      <4>1. \A i \in 1 .. n : m - n + i \in 1 .. m
        BY <1>1, <1>2, <3>1
      <4> QED
        BY <1>2, <3>1, <4>1
    <3>3. m - n + u \in Outside(entries)
      BY <1>1, <1>4, <2>1, <3>2
    <3>4. ASSUME NEW y \in Outside(entries) PROVE m - n + u >= y
      <4>1. y \in 1 .. m /\ entries[y] \notin site.networks
        BY <2>1
      <4>2. CASE y <= m - n
        BY <1>1, <1>2, <4>1, <4>2
      <4>3. CASE y > m - n
        <5> DEFINE i == y - (m - n)
        <5>1. i \in 1 .. n /\ y = m - n + i
          BY <1>1, <1>2, <4>1, <4>3
        <5> HIDE DEF i
        <5>2. i \in U
          BY <1>4, <3>2, <4>1, <5>1
        <5>3. u >= i /\ u \in 1 .. n
          BY <1>1, <5>2
        <5> QED
          BY <1>1, <1>2, <5>1, <5>3
      <4> QED
        BY <1>1, <1>2, <4>1, <4>2, <4>3
    <3>5. Outside(entries) \subseteq 1 .. m
      BY <2>1
    <3>6. Max(Outside(entries)) = m - n + u
      BY <1>2, <3>3, <3>4, <3>5, MaxIs
    <3>7. found = entries[m - n + u]
      BY <3>3, <3>6 DEF Nearest
    <3> QED
      BY <1>1, <1>3, <3>2, <3>7 DEF entries
  <2> QED
    BY <2>2, <2>3
<1> QED
  BY <1>5, <1>6

LEMMA ClientHolds == IInv => ClientNotForged
<1> SUFFICES ASSUME IInv, ctx.client # "none", Deployed
    PROVE  IF ~Believed \/ hops = <<>> THEN ctx.client = request.peer
           ELSE /\ ctx.client \in {NearestHop, request.peer}
                /\ \/ ctx.client = NearestHop
                   \/ site.states = "replace" /\ Len(hops) > 1
                   \/ \E i \in DOMAIN request.for : request.for[i].text \notin Addresses
  BY DEF ClientNotForged
<1>1. /\ at # "browser"
      /\ ctx.client = (IF Believed THEN Nearest(Joined(request.for)) ELSE request.peer)
  BY DEF IInv, Trusted, NoContext, Arriving
<1>2. hops = <<>> => ~Believed
  <2>1. hops = <<>> => request.peer \in Clients
    BY <1>1 DEF IInv, Peers
  <2> QED
    BY <2>1, SitesAssumption DEF IInv, Believed, Deployed
<1> QED
  BY <1>1, <1>2, NearestIs

\* The scheme a request carries is that of the browser's connection, where the
\* one proxy between is believed, or there is none.
LEMMA SchemeHolds ==
  ASSUME IInv, at \notin Arriving, Deployed, Len(hops) <= 1,
         hops # <<>> => Believed
  PROVE  ctx.scheme = Text(Browsed)
<1>1. /\ at # "browser"
      /\ ctx.scheme = (IF Believed THEN ForwardedScheme(Joined(request.proto))
                       ELSE Observed)
  BY DEF IInv, Trusted, Arriving
<1>2. CASE hops = <<>>
  <2>1. ~Believed
    BY <1>1, <1>2, SitesAssumption DEF IInv, Peers, Believed, Deployed
  <2> QED
    BY <1>1, <1>2, <2>1 DEF Observed, Text, Browsed
<1>3. CASE hops # <<>>
  <2> DEFINE k == Len(request.proto)
             entries == Joined(request.proto)
             filled == {i \in DOMAIN entries : entries[i] # "blank"}
  <2>1. Len(hops) = 1
    <3>1. Len(hops) \in Nat \ {0} /\ Len(hops) <= 1
      BY <1>3, NearestHopIs
    <3>2. \A n \in Nat \ {0} : n <= 1 => n = 1
      OBVIOUS
    <3> QED
      BY <3>1, <3>2, Zenon
  <2>2. /\ k \in Nat /\ k > 0 /\ DOMAIN entries = 1 .. k
        /\ entries[k] = Text(Browsed)
    <3>1. /\ k \in Nat /\ DOMAIN entries = 1 .. k
          /\ \A i \in 1 .. k : entries[i] = request.proto[i].text
      BY JoinedTexts DEF IInv, Headers
    <3>2. k > 0 /\ request.proto[k].text = Text(hops[1].tls)
      BY <1>3, <2>1 DEF IInv, Stages
    <3> HIDE DEF entries, k
    <3>3. k \in 1 .. k
      BY <3>1, <3>2
    <3> QED
      BY <1>3, <3>1, <3>2, <3>3 DEF Browsed
  <2>3. Text(Browsed) \in {"http", "https"}
    BY DEF Text
  <2> HIDE DEF entries, k
  <2>4. Max(filled) = k /\ filled # {}
    <3>1. k \in filled /\ filled \subseteq 1 .. k /\ \A i \in filled : k >= i
      BY <2>2, <2>3
    <3> HIDE DEF filled
    <3> QED
      BY <2>2, <3>1, MaxIs
  <2>5. ForwardedScheme(entries) = Text(Browsed)
    BY <2>2, <2>3, <2>4 DEF ForwardedScheme
  <2> QED
    BY <1>1, <1>3, <2>5 DEF entries
<1> QED
  BY <1>2, <1>3

LEMMA TransportHolds == IInv => TransportHonoured
<1> SUFFICES ASSUME IInv, Deployed, Len(hops) <= 1, hops # <<>> => Believed
    PROVE  /\ answer.code = "csrf_origin" => request.origin = "foreign"
           /\ request.form /\ "CSRF" \in ToSet(ctx.ran) => request.origin # "foreign"
           /\ answer.status = 303 /\ Browsed => answer.code # "http"
  BY DEF TransportHonoured, Browsed
<1>1. CASE at \in Arriving
  <2>1. answer = NoAnswer /\ ctx = NoContext
    BY <1>1 DEF IInv, SchemeUsed, Trusted
  <2>2. "CSRF" \notin ToSet(ctx.ran)
    BY <2>1, Stack DEF NoContext
  <2> QED
    BY <2>1, <2>2 DEF NoAnswer
<1>2. CASE at \notin Arriving
  <2>1. ctx.scheme = Text(Browsed) /\ ctx.scheme \in {"http", "https"}
    BY <1>2, SchemeHolds DEF Text
  <2>2. request.origin \in {"none", "foreign", Text(Browsed)}
    BY <1>2 DEF IInv, Honest, Arriving
  <2>3. "CSRF" \in ToSet(ctx.ran) => ctx.ran \in {RanTwo, RanThree}
    BY Stack DEF IInv, Together
  <2>4. Browsed => ctx.scheme = "https"
    BY <2>1 DEF Text
  <2> QED
    BY <2>1, <2>2, <2>3, <2>4 DEF IInv, SchemeUsed
<1> QED
  BY <1>1, <1>2

LEMMA LimitHolds == IInv => WithinLimit
<1> SUFFICES ASSUME IInv PROVE WithinLimit
  OBVIOUS
<1>1. LimitAt(request.path) \in Declared
  BY LimitFound DEF IInv, Declared
<1>2. \A limit \in Declared : Declared = {limit} => limit = LimitAt(request.path)
  BY <1>1
<1> QED
  BY <1>2 DEF IInv, Bounded, WithinLimit

LEMMA StatelessHolds == IInv => StatelessTogether
BY DEF IInv, Together, Ran, RanThree, StatelessTogether, Match

\* In every deployment, a request is served for an address that did connect:
\* whatever a client writes into its headers, it is the peer or the nearest
\* undeclared hop, and the latter where the proxies add to what they are given
\* and every entry, the client's own included, is an address.
THEOREM ClientIsNotForged == Spec => []ClientNotForged
BY InductiveInvariant, ClientHolds, PTL

\* Behind no proxy or a believed one, the forms of the site pass the origin's
\* check, no other form does, and HTTPS never leads to a plaintext page.
THEOREM TransportIsHonoured == Spec => []TransportHonoured
BY InductiveInvariant, TransportHolds, PTL

\* For any limits and prefixes, where one limit is declared for the longest
\* prefix that covers the path nobody reads beyond it, and no shorter body is
\* refused.
THEOREM BodiesAreBounded == Spec => []WithinLimit
BY InductiveInvariant, LimitHolds, PTL

\* A handler has all of the stateful middleware behind it, in order, or none.
THEOREM StatelessIsWhole == Spec => []StatelessTogether
BY InductiveInvariant, StatelessHolds, PTL
=============================================================================
