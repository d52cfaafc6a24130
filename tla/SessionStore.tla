---------------------------- MODULE SessionStore ----------------------------
(* When a session is served and when its row goes: web.SessionStore over     *)
(* auth.BunStore (web/session_store.go, auth/session_store.go), as the SCS   *)
(* manager of web/session.go calls it. Each statement is a step, so is each  *)
(* reading of the clock after it; requests overlap.                          *)
(* SessionAuth has what the sessions hold.                                   *)
EXTENDS Integers, FiniteSets, Functions

CONSTANTS
  Requests,      \* request identifiers, each sent at most once
  Lifetime,      \* SessionConfig.Lifetime
  IdleTimeouts,  \* the values of SessionConfig.IdleTimeout, 0 for none
  MaxTime        \* bound on the clock

ASSUME SessionsAssumption ==
  IsFiniteSet(Requests) /\ Lifetime \in Nat /\ IdleTimeouts \subseteq Nat

\* Tokens are numbered as they are generated: a request generates at most one.
Tokens  == 1 .. Cardinality(Requests)
NoToken == 0

VARIABLES
  idleTimeout,   \* SessionConfig.IdleTimeout
  clock,
  row,           \* auth_sessions: a function of the tokens that have a row
  session,       \* of each request: where it is, and its scs session data
  generated,     \* how many tokens have been
  issued,        \* tokens that browsers may hold: those that were written
  \* history, for the properties alone
  born, used,    \* when a token was generated, and last written with
  over,          \* tokens whose row a handler deleted
  lapsed,        \* tokens whose row had expired at some moment
  overtaken      \* tokens a find took for expired whose row was live by then

history == <<born, used, over, lapsed, overtaken>>
sessionVars == <<idleTimeout, clock, row, session, generated, issued, history>>

Unsent == [at |-> "unsent", sent |-> NoToken, token |-> NoToken,
           status |-> "unmodified", deadline |-> 0, expiry |-> 0]

SessionInit ==
  /\ idleTimeout \in IdleTimeouts
  /\ clock = 0 /\ row = <<>> /\ generated = 0 /\ issued = {}
  /\ session = [r \in Requests |-> Unsent]
  /\ born = [t \in Tokens |-> 0] /\ used = [t \in Tokens |-> 0]
  /\ over = {} /\ lapsed = {} /\ overtaken = {}
-----------------------------------------------------------------------------
At(r, at) == session[r].at = at
Update(r, record) == session' = [session EXCEPT ![r] = record]
Advance(r, to) == session' = [session EXCEPT ![r].at = to]
Deadline == clock + Lifetime

Expired(now) == {t \in DOMAIN row : row[t].expires <= now}
Without(t) == Restrict(row, DOMAIN row \ {t})

Tick ==
  /\ clock < MaxTime /\ clock' = clock + 1
  /\ lapsed' = lapsed \cup Expired(clock + 1)
  /\ UNCHANGED <<row, session, generated, issued, born, used, over, overtaken>>

\* Only a request with a cookie looks for a session.
Asking(t) ==
  [Unsent EXCEPT !.at = IF t = NoToken THEN "new" ELSE "find", !.sent = t]

Send(r) ==
  /\ At(r, "unsent")
  /\ \E t \in {NoToken} \cup issued : Update(r, Asking(t))
  /\ UNCHANGED <<clock, row, generated, issued, history>>

\* Mutant: a session is still live at the moment of its expiry.
LiveAtExpiry(expires) == expires >= clock

Live(expires) == expires > clock

\* SessionStore.FindCtx: the SELECT.
Find(r) ==
  LET t == session[r].sent IN
  /\ At(r, "find")
  /\ IF t \in DOMAIN row
       THEN Update(r, [session[r] EXCEPT !.at = "compare", !.deadline = row[t].deadline,
                                         !.expiry = row[t].expires])
       ELSE Advance(r, "new")
  /\ UNCHANGED <<clock, row, generated, issued, history>>

\* The comparison of what was read with the time by now. An idle timeout makes
\* a session that is loaded a modified one.
Compare(r) ==
  LET t == session[r].sent
      live == Live(session[r].expiry) IN
  /\ At(r, "compare")
  /\ IF live
       THEN Update(r, [session[r] EXCEPT !.at = "handle", !.token = t,
              !.status = IF idleTimeout > 0 THEN "modified" ELSE "unmodified"])
       ELSE Update(r, [Unsent EXCEPT !.at = "expire", !.sent = t])
  /\ overtaken' = overtaken \cup
       IF live THEN {} ELSE ({t} \cap DOMAIN row) \ Expired(clock)
  /\ UNCHANGED <<clock, row, generated, issued, born, used, over, lapsed>>

\* FindCtx deletes the row that it read as expired: whatever is there now.
Expire(r) ==
  /\ At(r, "expire")
  /\ row' = Without(session[r].sent)
  /\ Advance(r, "new")
  /\ UNCHANGED <<clock, generated, issued, history>>

\* A session that is not found starts as a new one.
Start(r) ==
  /\ At(r, "new")
  /\ Update(r, [session[r] EXCEPT !.at = "handle", !.deadline = Deadline])
  /\ UNCHANGED <<clock, row, generated, issued, history>>

\* A statement fails, and the request is answered with an error.
StatementFails(r) ==
  /\ session[r].at \in {"find", "expire", "handle", "upsert"}
  /\ Advance(r, "done")
  /\ UNCHANGED <<clock, row, generated, issued, history>>

\* What the handler does to its session, if it does anything.
Put(r) ==
  /\ At(r, "handle")
  /\ Update(r, [session[r] EXCEPT !.at = "stamp", !.status = "modified"])
  /\ UNCHANGED <<clock, row, generated, issued, history>>

Read(r) ==
  /\ At(r, "handle")
  /\ Advance(r, IF session[r].status = "modified" THEN "stamp" ELSE "done")
  /\ UNCHANGED <<clock, row, generated, issued, history>>

\* The DELETE that begins Destroy and RenewToken.
Delete(r, to) ==
  LET t == session[r].token IN
  /\ At(r, "handle")
  /\ row' = Without(t)
  /\ over' = over \cup ({t} \ {NoToken})
  /\ Advance(r, to)
  /\ UNCHANGED <<clock, generated, issued, born, used, lapsed, overtaken>>

\* Destroy: nothing of it is saved unless the handler writes to it again.
Destroy(r) == Delete(r, "done") \/ Delete(r, "destroyed")

Rewrite(r) ==
  /\ At(r, "destroyed")
  /\ Update(r, [session[r] EXCEPT !.at = "stamp", !.token = NoToken,
                                  !.status = "modified", !.deadline = Deadline])
  /\ UNCHANGED <<clock, row, generated, issued, history>>

\* RenewToken, and after the DELETE a new token and a new deadline.
Renew(r) == Delete(r, "renew")

Renewed(r) ==
  /\ At(r, "renew")
  /\ generated' = generated + 1
  /\ born' = [born EXCEPT ![generated'] = clock]
  /\ Update(r, [session[r] EXCEPT !.at = "stamp", !.token = generated',
                                  !.status = "modified", !.deadline = Deadline])
  /\ UNCHANGED <<clock, row, issued, used, over, lapsed, overtaken>>

\* SessionManager.Commit: the token and the expiry, from the time now.
Stamp(r) ==
  LET fresh == session[r].token = NoToken
      idle == clock + idleTimeout IN
  /\ At(r, "stamp")
  /\ generated' = IF fresh THEN generated + 1 ELSE generated
  /\ born' = IF fresh THEN [born EXCEPT ![generated'] = clock] ELSE born
  /\ LET t == IF fresh THEN generated' ELSE session[r].token IN
       /\ used' = [used EXCEPT ![t] = clock]
       /\ Update(r, [session[r] EXCEPT !.at = "upsert", !.token = t,
            !.expiry = IF idleTimeout > 0 /\ idle < session[r].deadline
                       THEN idle ELSE session[r].deadline])
  /\ UNCHANGED <<clock, row, issued, over, lapsed, overtaken>>

\* SessionStore.CommitCtx: SaveSession's upsert.
Upsert(r) ==
  LET q == session[r] IN
  /\ At(r, "upsert")
  /\ row' = [t \in DOMAIN row \cup {q.token} |->
               IF t = q.token
               THEN [deadline |-> q.deadline, expires |-> q.expiry]
               ELSE row[t]]
  /\ issued' = issued \cup {q.token}
  /\ lapsed' = IF q.expiry <= clock THEN lapsed \cup {q.token} ELSE lapsed
  /\ Advance(r, "done")
  /\ UNCHANGED <<clock, generated, born, used, over, overtaken>>

\* Mutant: the sweep takes the rows that are about to expire.
SweptEarly(now) == Expired(now + 1)

Swept(now) == Expired(now)

\* BunStore.DeleteExpiredSessions, by a scheduled job that took the time
\* before it reached the database.
Sweep ==
  /\ \E now \in 0 .. clock :
       Swept(now) # {} /\ row' = Restrict(row, DOMAIN row \ Swept(now))
  /\ UNCHANGED <<clock, session, generated, issued, history>>

Step(r) ==
  \/ Send(r) \/ Find(r) \/ Compare(r) \/ Expire(r) \/ Start(r) \/ StatementFails(r)
  \/ Put(r) \/ Read(r) \/ Destroy(r) \/ Rewrite(r) \/ Renew(r) \/ Renewed(r)
  \/ Stamp(r) \/ Upsert(r)

AllAnswered == (\A r \in Requests : At(r, "done")) /\ UNCHANGED sessionVars

SessionNext ==
  \/ /\ UNCHANGED idleTimeout
     /\ \/ Tick \/ Sweep
        \/ \E r \in Requests : Step(r)
  \/ AllAnswered

SessionSpec == SessionInit /\ [][SessionNext]_sessionVars
-----------------------------------------------------------------------------
(* Properties.                                                               *)

\* "The HTTP/session adapter rejects expired sessions at request time": a
\* session is served only before its lifetime since the token was generated is
\* over and, with an idle timeout, only if a request has used it since that
\* long (FindCtx, whatever the overlapping requests wrote).
ServedInTime ==
  [][\A r \in Requests :
       At(r, "compare") /\ session'[r].token # NoToken =>
         LET t == session'[r].token IN
         /\ clock < born[t] + Lifetime
         /\ idleTimeout > 0 => clock < used[t] + idleTimeout]_sessionVars

\* A session keeps its row until a handler deletes it or it has been expired
\* for a moment, but for one case. FindCtx reads an expiry, compares it with
\* the time later and deletes the row later still: a row that another request
\* has refreshed meanwhile goes although it is live. No sweep takes a live row,
\* and no find one whose expiry it knows.
LiveRowKept == issued \ DOMAIN row \subseteq over \cup lapsed \cup overtaken
=============================================================================
