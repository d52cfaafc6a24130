------------------------------- MODULE MCCSRF -------------------------------
(* Small instances of CSRF for TLC.                                          *)
EXTENDS CSRF, TLC

CONSTANTS u1, u2, b1, b2, r1, r2, r3, r4, r5, r6

TwoUsers == {u1, u2}

AccountKinds == AllKinds \ {"post"}

\* The secret in the cookie, for a user with two browsers and for two users
\* who share one, and the secret in the session, for two users who share one.
CookieSite  == [useSessions |-> FALSE, users |-> {u1}, browsers |-> {b1, b2},
                kinds |-> AccountKinds]
SharedSite  == [useSessions |-> FALSE, users |-> TwoUsers, browsers |-> {b1},
                kinds |-> {"view", "login", "logout"}]
SessionSite == [useSessions |-> TRUE, users |-> TwoUsers, browsers |-> {b1},
                kinds |-> AllKinds]
AllSites == {CookieSite, SharedSite, SessionSite}
OneSite  == {SharedSite}

\* Identities that no definition tells apart.
Symmetry == Permutations(Requests) \cup Permutations(Browsers)
              \cup Permutations(Users)
=============================================================================
