----------------------------- MODULE MCPipeline -----------------------------
(* Deployments for TLC. Those behind proxies differ in what they believe,    *)
(* their proxies in how they state what they saw, their clients in the       *)
(* headers they send. Those without differ in the prefixes they declare;     *)
(* they are asked for every path of up to three segments.                    *)
EXTENDS RequestPipeline

One(text) == <<[text |-> text, line |-> 1]>>

Headers ==
  {[for |-> a, proto |-> <<>>] :
     a \in {<<>>, One("c2"), One("p1"), One("junk"), One("blank"),
            Append(One("c2"), [text |-> "p2", line |-> 2])}}
  \cup {[for |-> One("p1"), proto |-> a] :
          a \in {One("http"), One("https"), One("junk") \o One("blank")}}

Behind ==
  {[networks |-> n, any |-> a, states |-> s, proxies |-> Proxies, tls |-> BOOLEAN,
    sent |-> Headers, paths |-> {<<"api">>}, bodies |-> {1},
    stateless |-> {}, limits |-> {}, default |-> 2] :
     n \in {{}, {"p2"}, Proxies}, a \in BOOLEAN, s \in {"append", "line", "replace"}}

Paths == UNION {[1 .. n -> {"", "..", "api", "up"}] : n \in 0 .. 3}

Limiting(limits, stateless) ==
  [networks |-> {}, any |-> FALSE, states |-> "append", proxies |-> {}, tls |-> {FALSE},
   sent |-> {[for |-> <<>>, proto |-> <<>>]}, paths |-> Paths, bodies |-> {1, 3},
   stateless |-> stateless, limits |-> limits, default |-> 2]

\* "/api" and "/api/" are one prefix once they are normalised.
Alike == {[prefix |-> <<"api">>, bytes |-> 1], [prefix |-> <<"api", "">>, bytes |-> 3]}

Limits ==
  {{}, Alike, {[prefix |-> <<"api">>, bytes |-> 1]},
   {[prefix |-> <<"api">>, bytes |-> 3], [prefix |-> <<"api", "up">>, bytes |-> 1]},
   {[prefix |-> <<"">>, bytes |-> 1], [prefix |-> <<"up", "..", "api">>, bytes |-> 3]}}

Statelesses == {{<<"api">>}, {<<"api", "up", "">>, <<"up", "", "up">>}}

Deployments ==
  Behind \cup {Limiting(l, {}) : l \in Limits}
         \cup {Limiting(Alike \cup {[prefix |-> <<"up">>, bytes |-> 1]}, s) : s \in Statelesses}

Ambiguous == {Limiting(Alike, {})}
=============================================================================
