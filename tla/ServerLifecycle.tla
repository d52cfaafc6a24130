-------------------------- MODULE ServerLifecycle --------------------------
(* Server.Serve (web/server.go) over net/http: one goroutine serves the      *)
(* listener while the caller waits for it to fail or for the context to end. *)
(* Requests are those of handlers in flight; what net/http does is modelled  *)
(* as Serve relies on it.                                                    *)
EXTENDS Naturals, FiniteSets

CONSTANT Requests

ListenError    == "listen"              \* the listener failed
DeadlineError  == "deadline exceeded"
ServerClosed   == "server closed"       \* http.ErrServerClosed
Nothing        == "nothing"             \* the channel is empty

VARIABLES
  main,      \* where Serve is
  goroutine, \* the goroutine that runs httpServer.Serve
  served,    \* its channel, of capacity one
  listener,  \* the socket: open, failed or closed
  done,      \* ctx.Done()
  closing,   \* httpServer.inShutdown
  deadline,  \* the shutdown timeout has passed
  request,   \* of each request: its handler's progress
  errors,    \* what Serve returns, joined; {} is nil
  \* history, for the properties alone
  late,      \* requests accepted once Serve was past its select
  outcome    \* what httpServer.Serve returned

history == <<late, outcome>>
vars == <<main, goroutine, served, listener, done, closing, deadline, request,
          errors, history>>

Init ==
  /\ main = "select" /\ goroutine = "starting" /\ served = Nothing
  /\ listener = "open" /\ done = FALSE /\ closing = FALSE
  /\ deadline = FALSE
  /\ request = [r \in Requests |-> "none"]
  /\ errors = {} /\ late = {} /\ outcome = Nothing

InFlight == {r \in Requests : request[r] = "handling"}
-----------------------------------------------------------------------------
(* The goroutine.                                                            *)

\* http.Server.Serve tracks the listener, unless the server is closing.
GoroutineStarts ==
  /\ goroutine = "starting" /\ ~closing
  /\ goroutine' = "accepting"
  /\ UNCHANGED <<main, served, listener, done, closing, deadline, request,
                 errors, history>>

Accept(r) ==
  /\ goroutine = "accepting" /\ listener = "open" /\ request[r] = "none"
  /\ request' = [request EXCEPT ![r] = "handling"]
  /\ late' = IF main # "select" THEN late \cup {r} ELSE late
  /\ UNCHANGED <<main, goroutine, served, listener, done, closing, deadline,
                 errors, outcome>>

\* http.Server.Serve returns, closing the listener, and its error is sent.
\* Once the server is closing the error is ErrServerClosed, whatever happened.
GoroutineReturns ==
  /\ goroutine \in {"starting", "accepting"}
  /\ \/ closing /\ served' = ServerClosed
     \/ ~closing /\ listener = "failed" /\ served' = ListenError
  /\ goroutine' = "returned"
  /\ outcome' = served'
  /\ listener' = "closed"
  /\ UNCHANGED <<main, done, closing, deadline, request, errors, late>>
-----------------------------------------------------------------------------
(* Serve.                                                                    *)

Take == served # Nothing /\ served' = Nothing

\* Mutant: whatever the goroutine ends with is an orderly end.
OrderlyEnd(e) == TRUE

Orderly(e) == e = ServerClosed

\* The select's first case.
TakeServed ==
  /\ main = "select" /\ Take
  /\ main' = "returned"
  /\ errors' = IF Orderly(served) THEN {} ELSE {served}
  /\ UNCHANGED <<goroutine, listener, done, closing, deadline, request, history>>

\* The select's second case. Shutdown closes the listeners it knows of.
TakeDone ==
  /\ main = "select" /\ done
  /\ main' = "shutdown"
  /\ closing' = TRUE
  /\ listener' = IF goroutine = "accepting" THEN "closed" ELSE listener
  /\ UNCHANGED <<goroutine, served, done, deadline, request, errors, history>>

ShutdownIdle ==
  /\ main = "shutdown" /\ InFlight = {}
  /\ main' = "drain"
  /\ UNCHANGED <<goroutine, served, listener, done, closing, deadline, request,
                 errors, history>>

\* Mutant: the deadline is not reported.
ShutdownCutsQuietly ==
  /\ main = "shutdown" /\ deadline
  /\ main' = "drain"
  /\ request' = [r \in Requests |->
                   IF r \in InFlight THEN "cut" ELSE request[r]]
  /\ UNCHANGED <<goroutine, served, listener, done, closing, deadline, errors,
                 history>>

\* Mutant: shutdown waits without a deadline.
ShutdownWaits ==
  /\ main = "shutdown" /\ deadline /\ InFlight = {}
  /\ main' = "drain"
  /\ UNCHANGED <<goroutine, served, listener, done, closing, deadline, request,
                 errors, history>>

\* Shutdown gives up, and Close cuts the connections of the requests that are
\* still there: their contexts end, their handlers may go on.
ShutdownExpires ==
  /\ main = "shutdown" /\ deadline
  /\ main' = "drain"
  /\ errors' = {DeadlineError}
  /\ request' = [r \in Requests |->
                   IF r \in InFlight THEN "cut" ELSE request[r]]
  /\ UNCHANGED <<goroutine, served, listener, done, closing, deadline, history>>

\* Mutant: Serve does not wait for the goroutine.
DrainNothing ==
  /\ main = "drain"
  /\ main' = "returned"
  /\ UNCHANGED <<goroutine, served, listener, done, closing, deadline, request,
                 errors, history>>

Drain ==
  /\ main = "drain" /\ Take
  /\ main' = "returned"
  /\ errors' = IF Orderly(served) THEN errors ELSE errors \cup {served}
  /\ UNCHANGED <<goroutine, listener, done, closing, deadline, request, history>>
-----------------------------------------------------------------------------
(* The rest of the world.                                                    *)

Cancel ==
  /\ ~done /\ done' = TRUE
  /\ UNCHANGED <<main, goroutine, served, listener, closing, deadline, request,
                 errors, history>>

ListenerFails ==
  /\ listener = "open" /\ listener' = "failed"
  /\ UNCHANGED <<main, goroutine, served, done, closing, deadline, request,
                 errors, history>>

Finish(r) ==
  /\ request[r] = "handling"
  /\ request' = [request EXCEPT ![r] = "finished"]
  /\ UNCHANGED <<main, goroutine, served, listener, done, closing, deadline,
                 errors, history>>

DeadlinePasses ==
  /\ main = "shutdown" /\ ~deadline /\ deadline' = TRUE
  /\ UNCHANGED <<main, goroutine, served, listener, done, closing, request,
                 errors, history>>

Goroutine == GoroutineStarts \/ GoroutineReturns
Serve == TakeServed \/ TakeDone \/ ShutdownIdle \/ ShutdownExpires \/ Drain

Next ==
  \/ Goroutine \/ Serve \/ Cancel \/ ListenerFails \/ DeadlinePasses
  \/ \E r \in Requests : Accept(r) \/ Finish(r)

\* Goroutines are scheduled and timers fire; no handler has to finish and no
\* client has to come.
Fairness == WF_vars(Goroutine) /\ WF_vars(Serve) /\ WF_vars(DeadlinePasses)

Spec == Init /\ [][Next]_vars /\ Fairness
-----------------------------------------------------------------------------
(* Properties.                                                               *)

TypeOK ==
  /\ main \in {"select", "shutdown", "drain", "returned"}
  /\ goroutine \in {"starting", "accepting", "returned"}
  /\ {served, outcome} \subseteq {Nothing, ListenError, ServerClosed}
  /\ listener \in {"open", "failed", "closed"}
  /\ done \in BOOLEAN /\ closing \in BOOLEAN /\ deadline \in BOOLEAN
  /\ request \in [Requests -> {"none", "handling", "finished", "cut"}]
  /\ errors \subseteq {ListenError, DeadlineError}
  /\ late \subseteq Requests

\* Serve does not return before its goroutine has, and the listener is closed
\* by then (the receive from served on every path).
GoroutineJoined ==
  main = "returned" => goroutine = "returned" /\ listener = "closed"

\* No request is accepted once Serve has seen the cancellation, nor after it
\* returned ("cancellation stops new work").
NoLateWork == late = {}

\* Serve returns nil only if every request it accepted was answered ("allows
\* in-flight requests to finish within the declared shutdown window").
NilMeansComplete ==
  main = "returned" /\ errors = {} =>
    \A r \in Requests : request[r] \in {"none", "finished"}

\* The error returned is what happened: a listener that failed on its own is
\* reported even when Serve was already shutting down, and the deadline is
\* reported when requests were cut ("expiration force-closes connections and
\* returns the deadline error").
ErrorsReported ==
  main = "returned" =>
    /\ ListenError \in errors <=> outcome = ListenError
    /\ (\E r \in Requests : request[r] = "cut") => DeadlineError \in errors
    /\ DeadlineError \in errors => done /\ deadline

\* The inductive invariant: what each place of Serve implies.
AtSelect ==
  main = "select" =>
    /\ ~closing /\ errors = {} /\ ~deadline
    /\ outcome # ServerClosed
    /\ \A r \in Requests : request[r] # "cut"

AtShutdown ==
  main = "shutdown" =>
    closing /\ errors = {} /\ \A r \in Requests : request[r] # "cut"

\* Past the wait for requests: none is left to be answered.
Settled ==
  /\ \A r \in Requests : request[r] # "handling"
  /\ (\E r \in Requests : request[r] = "cut") => DeadlineError \in errors
  /\ DeadlineError \in errors => deadline

AtDrain == main = "drain" => closing /\ Settled /\ ListenError \notin errors

AtReturned ==
  main = "returned" =>
    /\ goroutine = "returned"
    /\ ListenError \in errors <=> outcome = ListenError
    /\ IF closing THEN Settled ELSE outcome = ListenError
                                    /\ DeadlineError \notin errors
                                    /\ \A r \in Requests : request[r] # "cut"

GoroutineInv ==
  /\ goroutine # "returned" => served = Nothing /\ outcome = Nothing
  /\ goroutine = "returned" => outcome # Nothing /\ listener = "closed"
  /\ goroutine = "returned" /\ main # "returned" => served = outcome
  /\ closing /\ goroutine = "accepting" => listener = "closed"
  /\ closing => done

IInv ==
  /\ TypeOK /\ AtSelect /\ AtShutdown /\ AtDrain /\ AtReturned
  /\ GoroutineInv /\ NoLateWork
=============================================================================
