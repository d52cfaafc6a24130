--------------------------- MODULE MCSessionAuth ---------------------------
(* Small instances of SessionAuth for TLC, of one set of constants: each     *)
(* bounds the browsers, users and kinds of request that take part, the       *)
(* hashes, the failing calls and what operators do.                          *)
EXTENDS SessionAuth, TLC

CONSTANTS u1, u2, b1, b2, r1, r2, r3, t1, t2, t3, h1, h2, h3, h4, h5,
          Instances

VARIABLE instance

TwoUsers == {u1, u2}
FirstHash == [u \in Users |-> IF u = u1 THEN h1 ELSE h2]

TwoBrowsers == [users |-> TwoUsers, browsers |-> {b1, b2}, hashes |-> 4,
                kinds |-> {"view", "login", "change"}, faults |-> 1, admin |-> 0]
OneAccount == [users |-> {u1}, browsers |-> {b1}, hashes |-> 5,
               kinds |-> AllKinds, faults |-> 0, admin |-> 1]
LoginLogout == [users |-> {u1}, browsers |-> {b1}, hashes |-> 2,
                kinds |-> {"view", "login", "logout"}, faults |-> 0, admin |-> 0]

Accounts == {TwoBrowsers, OneAccount}
Logouts == {LoginLogout}

\* The steps of the model that stay within the instance.
Within ==
  /\ faults' <= instance.faults /\ adminActs' <= instance.admin
  /\ Cardinality(usedHashes') <= instance.hashes
  /\ \A r \in Requests :
       /\ input'[r].browser \in instance.browsers \cup {NoBrowser}
       /\ input'[r].kind \in instance.kinds
       /\ input'[r].subject.user \in instance.users \cup {NoUser}
  /\ \A u \in Users \ instance.users : hash'[u] = hash[u] /\ active'[u]

\* Tokens and fresh hashes are interchangeable: they are taken in one order.
InOrder ==
  /\ {t \in Tokens : holder'[t] # NoBrowser} \in {{}, {t1}, {t1, t2}, Tokens}
  /\ usedHashes' \in {{h1, h2}, {h1, h2, h3}, {h1, h2, h3, h4}, Hashes}

InstanceInit == Init /\ instance \in Instances
InstanceNext == Next /\ Within /\ InOrder /\ UNCHANGED instance
InstanceSpec == InstanceInit /\ [][InstanceNext]_<<vars, instance>>

\* So are requests.
Symmetry == Permutations(Requests)
=============================================================================
