------------------------------ MODULE MCStores ------------------------------
(* The two stores of package auth on one database, for TLC. They share no    *)
(* row, so their statements commute: an instance has clients of the accounts *)
(* or requests for the sessions, and the other store is at rest.             *)
EXTENDS AuthStore, SessionStore, TLC

VARIABLE store         \* the store in use

StoresInit ==
  /\ Init /\ SessionInit
  /\ \/ store = "accounts" /\ idleTimeout = 0
     \/ store = "sessions" /\ db = {}

StoresNext ==
  \/ store = "accounts" /\ Next /\ UNCHANGED <<store, sessionVars>>
  \/ store = "sessions" /\ SessionNext /\ UNCHANGED <<store, vars>>

StoresSpec == StoresInit /\ [][StoresNext]_<<store, vars, sessionVars>>

\* Identities that no definition tells apart.
Symmetry == Permutations(Clients) \cup Permutations(Requests)
=============================================================================
