------------------------ MODULE ProjectProcessProofs ------------------------
(* Proofs about ServerLifecycle and ProjectProcess, for any set of requests.  *)
(* IInv says what each place of Serve implies about its goroutine, the        *)
(* listener and the requests, so that what it returns is settled by where it  *)
(* came from. What is proved of Serve holds in the process around it, whose   *)
(* own invariant says where in its course a process can have requests, a      *)
(* pool, and kept lines.                                                      *)
EXTENDS ProjectProcess, FiniteSetTheorems, TLAPS
-----------------------------------------------------------------------------
(* Serve (ServerLifecycle)                                                    *)

\* Serve starts with the listener open and nothing accepted.
LEMMA InitIInv == Init => IInv
BY DEF Init, IInv, TypeOK, AtSelect, AtShutdown, AtDrain, AtReturned,
       GoroutineInv, NoLateWork, ListenError, DeadlineError, ServerClosed,
       Nothing

\* A step of the serving goroutine.
LEMMA GoroutineStep == IInv /\ Goroutine => IInv'
<1> SUFFICES ASSUME IInv, Goroutine PROVE IInv'
  OBVIOUS
<1> USE DEF IInv, TypeOK, AtSelect, AtShutdown, Settled, AtDrain, AtReturned,
            GoroutineInv, NoLateWork, ListenError, DeadlineError,
            ServerClosed, Nothing
<1>1. CASE GoroutineStarts
  BY <1>1 DEF GoroutineStarts, history
<1>2. CASE GoroutineReturns
  BY <1>2 DEF GoroutineReturns
<1> QED
  BY <1>1, <1>2 DEF Goroutine

\* A step of Serve itself.
LEMMA ServeStep == IInv /\ Serve => IInv'
<1> SUFFICES ASSUME IInv, Serve PROVE IInv'
  OBVIOUS
<1> USE DEF IInv, TypeOK, AtSelect, AtShutdown, Settled, AtDrain, AtReturned,
            GoroutineInv, NoLateWork, ListenError, DeadlineError,
            ServerClosed, Nothing, history
<1>1. CASE TakeServed
  BY <1>1 DEF TakeServed, Take, Orderly
<1>2. CASE TakeDone
  BY <1>2 DEF TakeDone
<1>3. CASE ShutdownIdle
  BY <1>3 DEF ShutdownIdle, InFlight
<1>4. CASE ShutdownExpires
  BY <1>4 DEF ShutdownExpires, InFlight
<1>5. CASE Drain
  BY <1>5 DEF Drain, Take, Orderly
<1> QED
  BY <1>1, <1>2, <1>3, <1>4, <1>5 DEF Serve

\* The caller, the listener, the handlers and the clock.
LEMMA WorldStep ==
  ASSUME IInv,
         Cancel \/ ListenerFails \/ DeadlinePasses
           \/ \E r \in Requests : Accept(r) \/ Finish(r)
  PROVE  IInv'
<1> USE DEF IInv, TypeOK, AtSelect, AtShutdown, Settled, AtDrain, AtReturned,
            GoroutineInv, NoLateWork, ListenError, DeadlineError,
            ServerClosed, Nothing, history
<1>1. CASE Cancel
  BY <1>1 DEF Cancel
<1>2. CASE ListenerFails
  BY <1>2 DEF ListenerFails
<1>3. CASE DeadlinePasses
  BY <1>3 DEF DeadlinePasses
<1>4. ASSUME NEW r \in Requests, Accept(r) PROVE IInv'
  <2>1. main = "select"
    BY <1>4 DEF Accept
  <2> QED
    BY <1>4, <2>1 DEF Accept
<1>5. ASSUME NEW r \in Requests, Finish(r) PROVE IInv'
  BY <1>5 DEF Finish
<1> QED
  BY <1>1, <1>2, <1>3, <1>4, <1>5

\* Each place of Serve implies what IInv says of it, in every reachable state.
THEOREM InductiveInvariant == Spec => []IInv
<1>1. IInv /\ UNCHANGED vars => IInv'
  BY DEF vars, history, IInv, TypeOK, AtSelect, AtShutdown, Settled, AtDrain,
         AtReturned, GoroutineInv, NoLateWork
<1>2. IInv /\ [Next]_vars => IInv'
  BY <1>1, GoroutineStep, ServeStep, WorldStep DEF Next
<1> QED
  BY <1>2, InitIInv, PTL DEF Spec

\* Type correctness: serving, Serve and its result stay what they are.
THEOREM TypeCorrectness == Spec => []TypeOK
<1>1. IInv => TypeOK
  BY DEF IInv
<1> QED
  BY <1>1, InductiveInvariant, PTL

\* Serve returns only after its goroutine, with the listener closed.
THEOREM Joined == Spec => []GoroutineJoined
<1>1. IInv => GoroutineJoined
  BY DEF IInv, GoroutineJoined, AtReturned, GoroutineInv
<1> QED
  BY <1>1, InductiveInvariant, PTL

\* No request is accepted once Serve has seen the cancellation.
THEOREM NoWorkAccepted == Spec => []NoLateWork
<1>1. IInv => NoLateWork
  BY DEF IInv
<1> QED
  BY <1>1, InductiveInvariant, PTL

\* The error Serve returns is what happened: a listener that failed and a
\* deadline that cut requests are reported, and nothing else is.
THEOREM HonestErrors == Spec => []ErrorsReported
<1>1. IInv => ErrorsReported
  BY DEF IInv, TypeOK, ErrorsReported, AtReturned, Settled, GoroutineInv,
         ListenError, DeadlineError
<1> QED
  BY <1>1, InductiveInvariant, PTL

\* After an orderly end every request that was accepted has been answered.
THEOREM GracefulShutdown == Spec => []NilMeansComplete
<1>1. IInv => NilMeansComplete
  BY DEF IInv, TypeOK, NilMeansComplete, AtReturned, Settled, GoroutineInv,
         ListenError, DeadlineError
<1> QED
  BY <1>1, InductiveInvariant, PTL
-----------------------------------------------------------------------------
(* The process around it                                                      *)

\* What a server has left: its course from some stage on.
Opening == <<"open", "configure", "assemble", "listen", "serve", "close">>
Configuring == <<"configure", "assemble", "listen", "serve", "close">>
Assembling == <<"assemble", "listen", "serve", "close">>
Listening == <<"listen", "serve", "close">>
Serving == <<"serve", "close">>
Closing == <<"close">>

BeforeServing == {ServerCourse, Opening, Configuring, Assembling, Listening}

Idle == \A r \in Requests : request[r] = "none"

\* A server has no request before it serves, and goes on to close its pool
\* only after an orderly end. A pool that is closed stays so to the end.
ServerInv ==
  how.program = "server" =>
    /\ stage \in BeforeServing \cup {Serving, Closing, <<>>}
    /\ stage \in BeforeServing => Idle
    /\ stage \in BeforeServing \cup {Serving} => pool # "closed"
    /\ stage = Closing => main = "returned" /\ errors = {}

\* The stages of commands; they never serve.
CommandStages ==
  {"configure", "load", "open", "collect", "run", "close", "check", "username",
   "email", "password"}

CommandInv ==
  how.program # "server" => stage \in Seq(CommandStages) /\ Idle

PInv == IInv /\ ServerInv /\ CommandInv /\ PoolOutlivesHandlers
-----------------------------------------------------------------------------
\* A process starts with Serve not begun.
LEMMA ProcessInitPInv == ProcessInit => PInv
<1> SUFFICES ASSUME ProcessInit PROVE PInv
  OBVIOUS
<1>1. IInv
  BY InitIInv DEF ProcessInit
<1>2. Idle /\ pool = "none"
  BY DEF ProcessInit, Init, Idle
<1>3. how.program \in DOMAIN Courses /\ stage = Courses[how.program]
  BY DEF ProcessInit
<1>4. ServerInv
  BY <1>2, <1>3 DEF ServerInv, Courses, BeforeServing, ServerCourse, Serving,
                    Closing
<1>5. CommandInv
  <2>1. CASE how.program = "migrate"
    BY <1>2, <1>3, <2>1 DEF CommandInv, CommandStages, Courses, MigrateCourse
  <2>2. CASE how.program = "superuser"
    BY <1>2, <1>3, <2>2 DEF CommandInv, CommandStages, Courses, SuperuserCourse
  <2>3. CASE how.program = "password"
    BY <1>2, <1>3, <2>3 DEF CommandInv, CommandStages, Courses, PasswordCourse
  <2>4. CASE how.program = "check"
    BY <1>2, <1>3, <2>4 DEF CommandInv, CommandStages, Courses, CheckCourse
  <2> QED
    BY <1>3, <2>1, <2>2, <2>3, <2>4 DEF CommandInv, Courses
<1> QED
  BY <1>1, <1>2, <1>4, <1>5 DEF PInv, PoolOutlivesHandlers

\* Every step of the process is one of ServerLifecycle, or leaves it alone.
LEMMA ServerOrStutter == ProcessNext => [Next]_vars
<1> SUFFICES ASSUME ProcessNext PROVE [Next]_vars
  OBVIOUS
<1>1. CASE Works
  BY <1>1 DEF Works, Passes, Fails, Load, Open, Close, Return, Served, Ask, Given
<1>2. CASE ServerWorks \/ ServerMeets \/ DeadlineComes
  BY <1>2 DEF ServerWorks, ServerMeets, DeadlineComes, Next
<1>3. CASE Interrupt
  BY <1>3 DEF Interrupt, Next
<1>4. CASE Ended
  BY <1>4 DEF Ended
<1> QED
  BY <1>1, <1>2, <1>3, <1>4 DEF ProcessNext

\* What ServerLifecycle proves of its steps carries over.
LEMMA ProcessIInv == IInv /\ [ProcessNext]_<<process, vars>> => IInv'
<1>1. IInv /\ UNCHANGED vars => IInv'
  BY DEF vars, history, IInv, TypeOK, AtSelect, AtShutdown, Settled, AtDrain,
         AtReturned, GoroutineInv, NoLateWork
<1> QED
  BY <1>1, ServerOrStutter, GoroutineStep, ServeStep, WorldStep DEF Next

\* The implementation: what the process does to Serve is what ServerLifecycle
\* allows (runserver's main around Server.Serve).
THEOREM ServesAsSpecified == ProcessSpec => Init /\ [][Next]_vars
<1>1. ProcessInit => Init
  BY DEF ProcessInit
<1>2. [ProcessNext]_<<process, vars>> => [Next]_vars
  BY ServerOrStutter DEF vars, history
<1> QED
  BY <1>1, <1>2, PTL DEF ProcessSpec
-----------------------------------------------------------------------------
\* A command goes on to its next stage, to the closing of its pool or to its
\* end, and never to Serve.
LEMMA CommandStep ==
  ASSUME CommandInv, how' = how, UNCHANGED request,
         \/ stage # <<>> /\ stage' = Tail(stage)
         \/ stage' \in {stage, <<>>, <<"close">>}
  PROVE  CommandInv'
<1> SUFFICES ASSUME how.program # "server" PROVE stage' \in Seq(CommandStages)
  BY DEF CommandInv, Idle
<1>1. stage \in Seq(CommandStages) /\ "close" \in CommandStages
  BY DEF CommandInv, CommandStages
<1>2. CASE stage # <<>> /\ stage' = Tail(stage)
  BY <1>1, <1>2
<1>3. CASE stage' \in {stage, <<>>, <<"close">>}
  <2>1. <<>> \in Seq(CommandStages) /\ <<"close">> \in Seq(CommandStages)
    BY <1>1
  <2> QED
    BY <1>1, <1>3, <2>1
<1> QED
  BY <1>2, <1>3

\* The server's course.
LEMMA Course ==
  /\ Tail(ServerCourse) = Opening /\ Tail(Opening) = Configuring
  /\ Tail(Configuring) = Assembling /\ Tail(Assembling) = Listening
  /\ Tail(Listening) = Serving /\ Tail(Serving) = Closing /\ Tail(Closing) = <<>>
BY DEF ServerCourse, Opening, Configuring, Assembling, Listening, Serving, Closing

\* No two parts of it are the same.
LEMMA Distinct ==
  /\ Serving \notin BeforeServing /\ Closing \notin BeforeServing \cup {Serving}
  /\ <<>> \notin BeforeServing \cup {Serving, Closing}
BY DEF BeforeServing, ServerCourse, Opening, Configuring, Assembling, Listening,
       Serving, Closing

\* Where the process is tells what is left of its course.
LEMMA Heads ==
  /\ Head(Serving) = "serve" /\ Head(Closing) = "close"
  /\ \A s \in BeforeServing : Head(s) \notin {"serve", "close"}
BY DEF BeforeServing, ServerCourse, Opening, Configuring, Assembling, Listening,
       Serving, Closing

\* The server goes through its stages in order; one that has no request yet
\* may go on, or end.
LEMMA EarlyStep ==
  ASSUME how.program = "server", ServerInv, how' = how, UNCHANGED request,
         stage \in BeforeServing,
         \/ stage' = Tail(stage) /\ pool' # "closed"
         \/ stage' = <<>>
  PROVE  ServerInv' /\ PoolOutlivesHandlers'
<1>1. Idle'
  BY DEF ServerInv, Idle
<1>2. CASE stage' = Tail(stage) /\ pool' # "closed"
  <2>1. stage' \in BeforeServing \cup {Serving}
    BY <1>2, Course DEF BeforeServing
  <2> QED
    BY <1>1, <1>2, <2>1, Distinct DEF ServerInv, PoolOutlivesHandlers, Idle
<1>3. CASE stage' = <<>>
  BY <1>1, <1>3, Distinct DEF ServerInv, PoolOutlivesHandlers, Idle
<1> QED
  BY <1>2, <1>3

\* A step of a command, then one of the server by what is left of its course.
LEMMA ProcessStep == PInv /\ [ProcessNext]_<<process, vars>> => PInv'
<1> SUFFICES ASSUME PInv, [ProcessNext]_<<process, vars>> PROVE PInv'
  OBVIOUS
<1>1. IInv'
  BY ProcessIInv DEF PInv
<1>2. UNCHANGED how
  BY DEF ProcessNext, Works, Passes, Fails, Load, Open, Close, Return, Served,
         Ask, Given, ServerWorks, ServerMeets, DeadlineComes, Runs, Interrupt,
         Ended, process
<1>3. ASSUME how.program # "server"
      PROVE  CommandInv' /\ PoolOutlivesHandlers' /\ ServerInv'
  <2>1. ~At("serve")
    BY <1>3 DEF PInv, CommandInv, CommandStages, At
  <2>2. UNCHANGED request
    BY <2>1 DEF ProcessNext, Works, Passes, Fails, Load, Open, Close, Return,
         Served, Ask, Given, ServerWorks, ServerMeets, DeadlineComes, Runs,
         Interrupt, Ended, process, vars
  <2>3. \/ stage # <<>> /\ stage' = Tail(stage)
        \/ stage' \in {stage, <<>>, <<"close">>}
    BY DEF ProcessNext, Works, Passes, Fails, Load, Open, Close, Return, Served,
           Ask, Given, ServerWorks, ServerMeets, DeadlineComes, Runs, Interrupt,
           Ended, process, At, Proceed, Exit, Abort
  <2>4. CommandInv'
    BY <1>2, <2>2, <2>3, CommandStep DEF PInv
  <2> QED
    BY <1>2, <1>3, <2>2, <2>4 DEF PInv, CommandInv, Idle, PoolOutlivesHandlers, ServerInv
<1>4. ASSUME how.program = "server"
      PROVE  ServerInv' /\ PoolOutlivesHandlers' /\ CommandInv'
  <2> USE <1>2, <1>4
  <2>1. CASE stage \in BeforeServing
    <3>1. ~At("serve") /\ ~At("close") /\ stage # <<>>
      BY <2>1, Heads, Distinct DEF At
    <3>2. UNCHANGED request
      BY <3>1 DEF ProcessNext, Works, Passes, Fails, Load, Open, Close, Return,
           Served, Ask, Given, ServerWorks, ServerMeets, DeadlineComes, Runs,
           Interrupt, Ended, process, vars
    <3>3. \/ stage' = Tail(stage) /\ pool' # "closed"
          \/ stage' = <<>>
          \/ UNCHANGED <<stage, pool>>
      BY <2>1, <3>1 DEF ProcessNext, Works, Passes, Fails, Load, Open, Close,
             Return, Served, Ask, Given, ServerWorks, ServerMeets, DeadlineComes,
             Runs, Interrupt, Ended, process, Proceed, Exit, Abort, PInv, ServerInv
    <3>4. CASE UNCHANGED <<stage, pool>>
      BY <2>1, <3>2, <3>4, Distinct
         DEF PInv, ServerInv, CommandInv, PoolOutlivesHandlers, Idle
    <3>5. CASE \/ stage' = Tail(stage) /\ pool' # "closed"
               \/ stage' = <<>>
      <4>1. ServerInv' /\ PoolOutlivesHandlers'
        BY <2>1, <3>2, <3>5, EarlyStep DEF PInv
      <4> QED
        BY <4>1 DEF CommandInv
    <3> QED
      BY <3>3, <3>4, <3>5
  <2>2. CASE stage = Serving
    <3>1. At("serve") \/ status # "running"
      BY <2>2, Heads, Distinct DEF At
    <3>2. Served \/ UNCHANGED <<stage, pool>> \/ (stage' = <<>> /\ UNCHANGED pool)
      BY <2>2, <3>1, Heads DEF ProcessNext, Works, Passes, Fails, Load, Open, Close,
             Return, Ask, Given, ServerWorks, ServerMeets, DeadlineComes,
             Runs, Interrupt, Ended, process, At, Plain, Exit
    <3>3. CASE Served
      <4>1. pool' # "closed"
        BY <2>2, <3>3 DEF Served, PInv, ServerInv
      <4>2. stage' = <<>> \/ (stage' = Closing /\ main' = "returned" /\ errors' = {})
        BY <2>2, <3>3, Course DEF Served, Proceed, Abort, Exit, vars
      <4> QED
        BY <4>1, <4>2, Distinct DEF ServerInv, PoolOutlivesHandlers, CommandInv
    <3>4. CASE UNCHANGED <<stage, pool>> \/ (stage' = <<>> /\ UNCHANGED pool)
      BY <2>2, <3>4, Distinct DEF PInv, ServerInv, PoolOutlivesHandlers, CommandInv
    <3> QED
      BY <3>2, <3>3, <3>4
  <2>3. CASE stage = Closing
    <3>1. ~At("serve") /\ stage # <<>>
      BY <2>3, Heads, Distinct DEF At
    <3>2. UNCHANGED <<request, main, errors>>
      BY <3>1 DEF ProcessNext, Works, Passes, Fails, Load, Open, Close, Return,
           Served, Ask, Given, ServerWorks, ServerMeets, DeadlineComes, Runs,
           Interrupt, Ended, process, vars
    <3>3. stage' \in {stage, <<>>}
      BY <2>3, <3>1, Heads DEF ProcessNext, Works, Passes, Fails, Load, Open, Close,
             Return, Served, Ask, Given, ServerWorks, ServerMeets, DeadlineComes,
             Runs, Interrupt, Ended, process, At, Plain, Exit
    <3>4. \A r \in Requests : request[r] \in {"none", "finished"}
      BY <2>3 DEF PInv, IInv, TypeOK, ServerInv, AtReturned, Settled, GoroutineInv,
                  ListenError, DeadlineError
    <3> QED
      BY <2>3, <3>2, <3>3, <3>4, Distinct
         DEF PInv, ServerInv, PoolOutlivesHandlers, CommandInv
  <2>4. CASE stage = <<>>
    <3>1. UNCHANGED <<request, pool, stage>>
      BY <2>4 DEF ProcessNext, Works, Passes, Fails, Load, Open, Close, Return,
           Served, Ask, Given, ServerWorks, ServerMeets, DeadlineComes, Runs, At,
           Interrupt, Ended, process, vars, Exit
    <3> QED
      BY <2>4, <3>1, Distinct DEF PInv, ServerInv, PoolOutlivesHandlers, CommandInv
  <2> QED
    BY <2>1, <2>2, <2>3, <2>4 DEF PInv, ServerInv
<1> QED
  BY <1>1, <1>3, <1>4 DEF PInv

\* Every reachable state of a process satisfies PInv.
THEOREM ProcessInvariant == ProcessSpec => []PInv
BY ProcessInitPInv, ProcessStep, PTL DEF ProcessSpec

\* The server's pool is closed only when no handler is left that could use it.
THEOREM PoolLast == ProcessSpec => []PoolOutlivesHandlers
<1>1. PInv => PoolOutlivesHandlers
  BY DEF PInv
<1> QED
  BY <1>1, ProcessInvariant, PTL

\* In every process Serve joins its goroutine, returns nil only if every
\* request was answered, and returns the errors that happened.
THEOREM ServerPromises ==
  ProcessSpec => [](GoroutineJoined /\ NilMeansComplete /\ ErrorsReported)
<1>1. PInv => GoroutineJoined /\ NilMeansComplete /\ ErrorsReported
  BY DEF PInv, IInv, TypeOK, GoroutineJoined, NilMeansComplete, ErrorsReported,
         AtReturned, Settled, GoroutineInv, ListenError, DeadlineError
<1> QED
  BY <1>1, ProcessInvariant, PTL
-----------------------------------------------------------------------------
(* How a process ends                                                        *)

\* What a command has left, from some stage on.
Asking == <<"username", "email", "password", "load", "open", "run", "close">>
AskingEmail == <<"email", "password", "load", "open", "run", "close">>
AskingPassword == <<"password", "load", "open", "run", "close">>
Loading == <<"load", "open", "run", "close">>
OpeningCommand == <<"open", "run", "close">>
LoadingMigrations == <<"load", "open", "configure", "collect", "run", "close">>
OpeningMigrations == <<"open", "configure", "collect", "run", "close">>
ConfiguringMigrations == <<"configure", "collect", "run", "close">>
Collecting == <<"collect", "run", "close">>
Running == <<"run", "close">>
Checking == <<"check">>

\* The stages each command can be at, before its pool is open and after.
Early ==
  [migrate |-> {MigrateCourse, LoadingMigrations, OpeningMigrations},
   superuser |-> {SuperuserCourse, Asking, AskingEmail, AskingPassword, Loading,
                  OpeningCommand},
   password |-> {PasswordCourse, AskingPassword, Loading, OpeningCommand},
   check |-> {CheckCourse, Checking, <<>>}]
Late ==
  [migrate |-> {ConfiguringMigrations, Collecting, Running, Closing},
   superuser |-> {Running, Closing}, password |-> {Running, Closing}, check |-> {}]

Prompts == {"username", "email", "password"}

\* What the caller gave the process.
CallerInv ==
  /\ how.program \in DOMAIN Courses /\ how.asked \subseteq Askable(how.program)
  /\ read.lines \in Nat /\ read.kept \in [Prompts -> Nat]

\* A command that runs has the pool open exactly after its open stage, and
\* goes on to close it if it has failed; one that failed without ends.
CommandCourse ==
  how.program # "server" =>
    /\ status = "running" =>
         \/ ~failed /\ stage \in Early[how.program] /\ pool = "none"
         \/ ~failed /\ stage \in Late[how.program] /\ pool = "open"
         \/ failed /\ stage = Closing /\ pool = "open"
    /\ status \in {"ok", "usage", "failure"} => pool # "open"

FailureInv ==
  /\ how.program = "server" /\ status = "running" => ~failed
  /\ status \in {"running", "killed", "ok", "usage", "failure"}
  /\ status = "ok" => ~failed

\* Load assigns from .env only what the environment does not have.
StrongestSource ==
  /\ DOMAIN settings = {"url", "port"}
  /\ \A v \in {"url", "port"} :
       settings[v] \notin {"unset", "environment"} =>
         how.values["environment"][v] = "absent"

\* The line a field is on, if every field is asked for one line at a time.
Asks(f) == IF f \in how.asked THEN 1 ELSE 0
Rank(f) ==
  CASE f = "username" -> 1
    [] f = "email" -> 1 + Asks("username")
    [] f = "password" -> 1 + Asks("username") + Asks("email")

\* The fields that a command has still to ask for, by what it has left.
AsksLater ==
  [username |-> {SuperuserCourse, Asking},
   email |-> {SuperuserCourse, Asking, AskingEmail},
   password |-> {SuperuserCourse, Asking, AskingEmail, AskingPassword, PasswordCourse}]
PendingAt(left) == {f \in Prompts : left \in AsksLater[f]}
Pending == IF status = "running" THEN PendingAt(stage) ELSE {}

LineByLine == how.stdin = "terminal" \/ Cardinality(how.asked) <= 1

\* Each field that was asked for has its line, and the next one is unread.
LinesKept ==
  LineByLine /\ ~failed /\ status # "killed" =>
    \A f \in how.asked :
      IF f \notin Pending THEN read.kept[f] = Rank(f)
      ELSE (\A g \in how.asked \cap Pending : Rank(f) <= Rank(g)) =>
             read.lines = Rank(f) - 1

ExitInv ==
  CallerInv /\ CommandCourse /\ FailureInv /\ StrongestSource /\ LinesKept
-----------------------------------------------------------------------------
\* The courses of the commands, stage by stage.
LEMMA CommandTails ==
  /\ Tail(MigrateCourse) = LoadingMigrations
  /\ Tail(LoadingMigrations) = OpeningMigrations
  /\ Tail(OpeningMigrations) = ConfiguringMigrations
  /\ Tail(ConfiguringMigrations) = Collecting /\ Tail(Collecting) = Running
  /\ Tail(Running) = Closing
  /\ Tail(SuperuserCourse) = Asking /\ Tail(Asking) = AskingEmail
  /\ Tail(AskingEmail) = AskingPassword /\ Tail(PasswordCourse) = AskingPassword
  /\ Tail(AskingPassword) = Loading /\ Tail(Loading) = OpeningCommand
  /\ Tail(OpeningCommand) = Running
  /\ Tail(CheckCourse) = Checking /\ Tail(Checking) = <<>>
BY DEF MigrateCourse, SuperuserCourse, PasswordCourse, CheckCourse, Asking,
       AskingEmail, AskingPassword, Loading, OpeningCommand, LoadingMigrations,
       OpeningMigrations, ConfiguringMigrations, Collecting, Running, Checking,
       Closing

LEMMA CommandHeads ==
  /\ Head(MigrateCourse) = "configure" /\ Head(LoadingMigrations) = "load"
  /\ Head(OpeningMigrations) = "open" /\ Head(ConfiguringMigrations) = "configure"
  /\ Head(Collecting) = "collect" /\ Head(Running) = "run"
  /\ Head(SuperuserCourse) = "configure" /\ Head(PasswordCourse) = "configure"
  /\ Head(Asking) = "username" /\ Head(AskingEmail) = "email"
  /\ Head(AskingPassword) = "password" /\ Head(Loading) = "load"
  /\ Head(OpeningCommand) = "open" /\ Head(CheckCourse) = "configure"
  /\ Head(Checking) = "check" /\ Head(Closing) = "close"
BY DEF MigrateCourse, SuperuserCourse, PasswordCourse, CheckCourse, Asking,
       AskingEmail, AskingPassword, Loading, OpeningCommand, LoadingMigrations,
       OpeningMigrations, ConfiguringMigrations, Collecting, Running, Checking,
       Closing

LEMMA NotOver ==
  <<>> \notin {SuperuserCourse, Asking, AskingEmail, AskingPassword, PasswordCourse,
              Loading, OpeningCommand, Running, Closing}
BY DEF SuperuserCourse, PasswordCourse, Asking, AskingEmail, AskingPassword, Loading,
       OpeningCommand, Running, Closing

\* Only what remains of them can tell some of them apart.
LEMMA CommandLengths ==
  /\ Len(MigrateCourse) = 7 /\ Len(LoadingMigrations) = 6
  /\ Len(OpeningMigrations) = 5 /\ Len(ConfiguringMigrations) = 4
  /\ Len(Collecting) = 3 /\ Len(Running) = 2 /\ Len(Closing) = 1
  /\ Len(SuperuserCourse) = 8 /\ Len(Asking) = 7 /\ Len(AskingEmail) = 6
  /\ Len(AskingPassword) = 5 /\ Len(Loading) = 4 /\ Len(OpeningCommand) = 3
  /\ Len(PasswordCourse) = 6 /\ Len(CheckCourse) = 2 /\ Len(Checking) = 1
  /\ Len(<<>>) = 0
BY DEF MigrateCourse, SuperuserCourse, PasswordCourse, CheckCourse, Asking,
       AskingEmail, AskingPassword, Loading, OpeningCommand, LoadingMigrations,
       OpeningMigrations, ConfiguringMigrations, Collecting, Running, Checking,
       Closing

\* A process starts without a pool, with nothing read and nothing assigned.
LEMMA ExitInit == ProcessInit => ExitInv
<1> SUFFICES ASSUME ProcessInit PROVE ExitInv
  OBVIOUS
<1>1. PICK p \in DOMAIN Courses : \E asked \in SUBSET Askable(p) :
        how \in [program : {p}, sqlite : BOOLEAN, file : {"missing", "broken", "read"},
               values : [Sources -> Values], stdin : {"terminal", "pipe"},
               asked : {asked}]
  BY DEF ProcessInit
<1>2. CallerInv
  BY <1>1 DEF ProcessInit, CallerInv, Prompts
<1>3. how.program \in {"server", "migrate", "superuser", "password", "check"}
  BY <1>1 DEF Courses
<1>4. CommandCourse
  BY <1>3 DEF ProcessInit, CommandCourse, Courses, Early
<1>5. FailureInv /\ StrongestSource
  BY DEF ProcessInit, FailureInv, StrongestSource, NoSettings
<1>6. LinesKept
  <2> SUFFICES ASSUME NEW f \in how.asked
               PROVE  /\ f \in Pending
                      /\ (\A g \in how.asked \cap Pending : Rank(f) <= Rank(g)) =>
                            read.lines = Rank(f) - 1
    BY DEF LinesKept
  <2>1. CASE how.program = "superuser"
    <3>1. status = "running" /\ stage = SuperuserCourse
      BY <2>1 DEF ProcessInit, Courses
    <3>a. Pending = Prompts
      BY <3>1 DEF Pending, PendingAt, AsksLater, Prompts
    <3>b. how.asked \subseteq Prompts
      BY <1>2, <2>1 DEF CallerInv, Askable, Prompts
    <3>2. ASSUME \A g \in how.asked \cap Pending : Rank(f) <= Rank(g)
          PROVE  Rank(f) = 1
      BY <3>a, <3>b, <3>2 DEF Rank, Asks, Prompts
    <3> QED
      BY <3>a, <3>b, <3>2 DEF ProcessInit
  <2>2. CASE how.program = "password"
    <3>1. stage = PasswordCourse /\ f = "password" /\ how.asked = {"password"}
      BY <1>2, <2>2 DEF ProcessInit, Courses, CallerInv, Askable
    <3>2. f \in Pending
      BY <3>1 DEF ProcessInit, Pending, PendingAt, AsksLater, Prompts
    <3> QED
      BY <3>1, <3>2 DEF ProcessInit, Rank, Asks
  <2>3. CASE how.program \notin {"superuser", "password"}
    BY <1>2, <2>3 DEF CallerInv, Askable
  <2> QED
    BY <2>1, <2>2, <2>3
<1> QED
  BY <1>2, <1>4, <1>5, <1>6 DEF ExitInv

\* The sizes of the sets of fields that are counted.
LEMMA SmallSets ==
  ASSUME NEW a \in Prompts, NEW b \in Prompts, NEW c \in Prompts
  PROVE  /\ IsFiniteSet({a}) /\ Cardinality({a}) = 1
         /\ a # b => IsFiniteSet({a, b}) /\ Cardinality({a, b}) = 2
         /\ a # b /\ a # c /\ b # c =>
              IsFiniteSet({a, b, c}) /\ Cardinality({a, b, c}) = 3
<1>1. IsFiniteSet({a}) /\ Cardinality({a}) = 1
  BY FS_Singleton
<1>2. ASSUME a # b PROVE IsFiniteSet({a, b}) /\ Cardinality({a, b}) = 2
  <2>1. {a, b} = {a} \cup {b} /\ b \notin {a}
    BY <1>2
  <2>2. IsFiniteSet({a} \cup {b}) /\ Cardinality({a} \cup {b}) = 1 + 1
    BY <1>1, <2>1, FS_AddElement
  <2> QED
    BY <2>1, <2>2
<1>3. ASSUME a # b, a # c, b # c
      PROVE  IsFiniteSet({a, b, c}) /\ Cardinality({a, b, c}) = 3
  <2>1. {a, b, c} = {a, b} \cup {c} /\ c \notin {a, b}
    BY <1>3
  <2>2. IsFiniteSet({a, b} \cup {c}) /\ Cardinality({a, b} \cup {c}) = 2 + 1
    BY <1>2, <1>3, <2>1, FS_AddElement
  <2> QED
    BY <2>1, <2>2
<1> QED
  BY <1>1, <1>2, <1>3

\* The fields a command asks for can be counted.
LEMMA AskedFinite ==
  ASSUME CallerInv
  PROVE  /\ how.asked \subseteq Prompts /\ IsFiniteSet(how.asked)
         /\ Cardinality(how.asked) \in Nat
         /\ Cardinality(how.asked) <= 1 =>
              \A f, g \in how.asked : f = g
<1>1. how.asked \subseteq Prompts
  BY DEF CallerInv, Askable, Prompts
<1>2. IsFiniteSet(Prompts)
  <2>1. "username" \in Prompts /\ "email" \in Prompts /\ "password" \in Prompts
    BY DEF Prompts
  <2> QED
    BY <2>1, SmallSets DEF Prompts
<1>3. IsFiniteSet(how.asked) /\ Cardinality(how.asked) \in Nat
  BY <1>1, <1>2, FS_Subset, FS_CardinalityType
<1>4. ASSUME NEW f \in how.asked, NEW g \in how.asked, f # g
      PROVE  Cardinality(how.asked) > 1
  <2>1. {f, g} \subseteq how.asked
    OBVIOUS
  <2>2. Cardinality({f, g}) = 2
    BY <1>1, <1>4, SmallSets
  <2> QED
    BY <1>3, <2>1, <2>2, FS_Subset
<1> QED
  BY <1>1, <1>3, <1>4

\* What of a process no step changes.
LEMMA CallerStep ==
  ASSUME CallerInv, [ProcessNext]_<<process, vars>>
  PROVE  CallerInv' /\ how' = how
<1>1. how' = how
  BY DEF ProcessNext, Works, Passes, Fails, Load, Open, Close, Return, Served,
         Ask, Given, ServerWorks, ServerMeets, DeadlineComes, Runs, Interrupt,
         Ended, process
<1>2. read' = read \/ \E f \in Prompts : Ask(f)
  BY DEF ProcessNext, Works, Passes, Fails, Load, Open, Close, Return, Served,
         Given, ServerWorks, ServerMeets, DeadlineComes, Runs, Interrupt,
         Ended, process, Prompts
<1>3. ASSUME NEW f \in Prompts, Ask(f) PROVE CallerInv'
  <2>1. Cardinality(how.asked) \in Nat
    BY AskedFinite
  <2>2. Taken \subseteq Nat
    BY <2>1 DEF Taken, CallerInv
  <2> QED
    BY <1>1, <1>3, <2>2 DEF Ask, CallerInv
<1> QED
  BY <1>1, <1>2, <1>3 DEF CallerInv

\* Load reads .env only for what the environment does not have.
LEMMA SourceStep ==
  ASSUME StrongestSource, [ProcessNext]_<<process, vars>>, how' = how
  PROVE  StrongestSource'
<1>1. CASE settings' = settings
  BY <1>1 DEF StrongestSource
<1>2. CASE Load /\ settings' # settings
  BY <1>2 DEF Load, StrongestSource, Found
<1> QED
  BY <1>1, <1>2 DEF ProcessNext, Works, Passes, Fails, Load, Open, Close, Return,
         Served, Ask, Given, ServerWorks, ServerMeets, DeadlineComes, Runs,
         Interrupt, Ended, process

\* The server leaves at its first failure.
LEMMA FailureStep ==
  ASSUME CallerInv, CommandCourse, FailureInv, [ProcessNext]_<<process, vars>>,
         how' = how
  PROVE  FailureInv'
<1> USE DEF FailureInv, Exit, Proceed, Abort, Code
<1>1. CASE Passes \/ Fails \/ Load \/ Open \/ Served
  BY <1>1 DEF Passes, Fails, Load, Open, Served, At
<1>2. CASE Close
  BY <1>2 DEF Close, At
<1>3. CASE Return
  <2>1. stage # Closing
    BY <1>3 DEF Return, Closing
  <2>2. ~failed
    BY <1>3, <2>1 DEF Return, CommandCourse
  <2> QED
    BY <1>3, <2>2 DEF Return
<1>4. ASSUME NEW f \in Prompts, Ask(f) \/ Given(f) PROVE FailureInv'
  BY <1>4 DEF Ask, Given, At
<1>5. CASE UNCHANGED process \/ Interrupt
  BY <1>5 DEF Interrupt, At, process
<1> QED
  BY <1>1, <1>2, <1>3, <1>4, <1>5 DEF ProcessNext, Works, ServerWorks, ServerMeets,
     DeadlineComes, Runs, Ended, Prompts

\* Where the head of what is left says a command is.
LEMMA CommandPosition ==
  ASSUME how.program \in {"migrate", "superuser", "password", "check"},
         stage \in Early[how.program] \cup Late[how.program], stage # <<>>
  PROVE  /\ stage \in Early[how.program] /\ Head(stage) # "open" =>
              Tail(stage) \in Early[how.program]
         /\ stage \in Early[how.program] /\ Head(stage) = "open" =>
              Tail(stage) \in Late[how.program]
         /\ stage \in Late[how.program] /\ Head(stage) # "close" =>
              Tail(stage) \in Late[how.program]
         /\ stage \in Early[how.program] => Head(stage) # "close"
         /\ stage \in Late[how.program] =>
              Head(stage) \in {"configure", "collect", "run", "close"}
<1>1. CASE how.program = "migrate"
  <2>1. /\ Early[how.program] =
             {MigrateCourse, LoadingMigrations, OpeningMigrations}
        /\ Late[how.program] = {ConfiguringMigrations, Collecting, Running, Closing}
    BY <1>1 DEF Early, Late
  <2> HIDE DEF Early, Late
  <2> QED
    BY <2>1, CommandTails, CommandHeads
<1>2. CASE how.program = "superuser"
  <2>1. /\ Early[how.program] =
             {SuperuserCourse, Asking, AskingEmail, AskingPassword, Loading,
              OpeningCommand}
        /\ Late[how.program] = {Running, Closing}
    BY <1>2 DEF Early, Late
  <2> HIDE DEF Early, Late
  <2> QED
    BY <2>1, CommandTails, CommandHeads
<1>3. CASE how.program = "password"
  <2>1. /\ Early[how.program] =
             {PasswordCourse, AskingPassword, Loading, OpeningCommand}
        /\ Late[how.program] = {Running, Closing}
    BY <1>3 DEF Early, Late
  <2> HIDE DEF Early, Late
  <2> QED
    BY <2>1, CommandTails, CommandHeads
<1>4. CASE how.program = "check"
  <2>1. /\ Early[how.program] =
             {CheckCourse, Checking, <<>>}
        /\ Late[how.program] = {}
    BY <1>4 DEF Early, Late
  <2> HIDE DEF Early, Late
  <2> QED
    BY <2>1, CommandTails, CommandHeads
<1> QED
  BY <1>1, <1>2, <1>3, <1>4

\* A command goes on to the next of its stages, or to its end.
LEMMA CommandCourseStep ==
  ASSUME CallerInv, CommandCourse, [ProcessNext]_<<process, vars>>, how' = how
  PROVE  CommandCourse'
<1> SUFFICES ASSUME how.program # "server" PROVE CommandCourse'
  BY DEF CommandCourse
<1> USE DEF Exit, Proceed, Abort, Code
<1>1. how.program \in {"migrate", "superuser", "password", "check"}
  BY DEF CallerInv, Courses
<1>2. CASE Passes
  <2>1. \/ stage \in Early[how.program] /\ Tail(stage) \in Early[how.program] /\ ~failed /\ pool = "none"
        \/ stage \in Late[how.program] /\ Tail(stage) \in Late[how.program] /\ ~failed /\ pool = "open"
    BY <1>1, <1>2, CommandPosition, CommandHeads DEF Passes, Plain, At, CommandCourse
  <2> QED
    BY <1>2, <2>1 DEF Passes, At, CommandCourse
<1>3. CASE Fails
  BY <1>3 DEF Fails, At, CommandCourse, Closing
<1>4. CASE Load
  <2>1. /\ stage \in Early[how.program] /\ ~failed /\ pool = "none"
        /\ Tail(stage) \in Early[how.program]
    BY <1>1, <1>4, CommandPosition, CommandHeads DEF Load, At, CommandCourse
  <2> QED
    BY <1>4, <2>1 DEF Load, At, CommandCourse
<1>5. CASE Open
  <2>1. /\ stage \in Early[how.program] /\ ~failed /\ pool = "none"
        /\ Tail(stage) \in Late[how.program]
    BY <1>1, <1>5, CommandPosition, CommandHeads DEF Open, At, CommandCourse
  <2> QED
    BY <1>5, <2>1 DEF Open, At, CommandCourse
<1>6. CASE Close
  BY <1>6 DEF Close, At, CommandCourse
<1>7. CASE Return
  <2>1. stage \notin {ConfiguringMigrations, Collecting, Running, Closing}
    BY <1>7 DEF Return, ConfiguringMigrations, Collecting, Running, Closing
  <2>2. stage \notin Late[how.program]
    BY <1>1, <2>1 DEF Late
  <2> QED
    BY <1>7, <2>1, <2>2 DEF Return, CommandCourse
<1>8. CASE Served
  BY <1>1, <1>8, CommandPosition, CommandHeads DEF Served, At, CommandCourse
<1>9. ASSUME NEW f \in Prompts, Ask(f) \/ Given(f) PROVE CommandCourse'
  <2>1. /\ stage \in Early[how.program] /\ ~failed /\ pool = "none"
        /\ Tail(stage) \in Early[how.program]
    BY <1>1, <1>9, CommandPosition, CommandHeads
       DEF Ask, Given, At, CommandCourse, Prompts
  <2> QED
    BY <1>9, <2>1 DEF Ask, Given, At, CommandCourse
<1>10. CASE UNCHANGED process \/ Interrupt
  BY <1>10 DEF Interrupt, At, process, CommandCourse
<1> QED
  BY <1>2, <1>3, <1>4, <1>5, <1>6, <1>7, <1>8, <1>9, <1>10 DEF ProcessNext, Works,
     ServerWorks, ServerMeets, DeadlineComes, Runs, Ended, Prompts

\* What is still to be asked at each stage of the commands that ask.
LEMMA PendingAtStage ==
  /\ PendingAt(SuperuserCourse) = Prompts /\ PendingAt(Asking) = Prompts
  /\ PendingAt(AskingEmail) = {"email", "password"}
  /\ PendingAt(AskingPassword) = {"password"}
  /\ PendingAt(PasswordCourse) = {"password"}
  /\ PendingAt(Loading) = {} /\ PendingAt(OpeningCommand) = {}
  /\ PendingAt(Running) = {} /\ PendingAt(Closing) = {}
BY CommandLengths, CommandHeads DEF PendingAt, AsksLater, Prompts

LEMMA PendingTail ==
  \A s \in {Asking, AskingEmail, AskingPassword} :
    /\ PendingAt(Tail(s)) = PendingAt(s) \ {Head(s)} /\ Head(s) \in PendingAt(s)
<1>1. PendingAt(Tail(Asking)) = Prompts \ {"username"}
  BY CommandTails, PendingAtStage DEF Prompts
<1>2. PendingAt(Tail(AskingEmail)) = {"email", "password"} \ {"email"}
  BY CommandTails, PendingAtStage
<1>3. PendingAt(Tail(AskingPassword)) = {"password"} \ {"password"}
  BY CommandTails, PendingAtStage
<1> QED
  BY <1>1, <1>2, <1>3, CommandHeads, PendingAtStage DEF Prompts

\* The stages of a command that asks.
LEMMA PromptingStage ==
  ASSUME how.program \in {"superuser", "password"}, CommandCourse,
         status = "running", ~failed
  PROVE  stage \in {SuperuserCourse, Asking, AskingEmail, AskingPassword,
                    PasswordCourse, Loading, OpeningCommand, Running, Closing}
<1>1. stage \in Early[how.program] \cup Late[how.program]
  BY DEF CommandCourse
<1>2. CASE how.program = "superuser"
  BY <1>1, <1>2 DEF Early, Late
<1>3. CASE how.program = "password"
  BY <1>1, <1>3 DEF Early, Late
<1> QED
  BY <1>2, <1>3

\* A field is asked for while no later one has been, and then is done with.
LEMMA PendingStep ==
  ASSUME CallerInv, CommandCourse, FailureInv, how' = how,
         [ProcessNext]_<<process, vars>>, how.asked # {}, ~failed',
         status' # "killed"
  PROVE  /\ ~failed /\ status # "killed"
         /\ \/ read' = read /\ how.asked \cap Pending' = how.asked \cap Pending
            \/ \E f \in how.asked :
                 /\ Ask(f) /\ f \in Pending /\ Pending' = Pending \ {f}
                 /\ Pending \in {Prompts, {"email", "password"}, {"password"}}
                 /\ f = "username" => Pending = Prompts
                 /\ f = "email" => Pending = {"email", "password"}
                 /\ f = "password" => Pending = {"password"}
<1>1. how.program \in {"superuser", "password"}
  BY DEF CallerInv, Askable
<1>2. ~failed /\ status # "killed"
  <2>1. CASE Passes \/ Fails \/ Load \/ Open \/ Served
    BY <2>1 DEF Passes, Fails, Load, Open, Served, Abort, At
  <2>2. CASE Return
    BY <2>2 DEF Return
  <2>5. CASE Close
    <3>1. status = "running"
      BY <2>5 DEF Close, At
    <3>2. PICK error \in BOOLEAN : failed' = (failed \/ (error /\ how.program # "server"))
      BY <2>5 DEF Close
    <3>3. ~failed
      BY <3>2, Zenon
    <3> QED
      BY <3>1, <3>3
  <2>3. ASSUME NEW f \in Prompts, Ask(f) \/ Given(f)
        PROVE  ~failed /\ status # "killed"
    BY <2>3 DEF Ask, Given, Abort, At
  <2>4. CASE UNCHANGED process \/ Interrupt
    BY <2>4 DEF Interrupt, process
  <2> QED
    BY <2>1, <2>2, <2>3, <2>4, <2>5 DEF ProcessNext, Works, ServerWorks, ServerMeets,
       DeadlineComes, Runs, Ended, Prompts
<1>3. CASE UNCHANGED process
  BY <1>2, <1>3 DEF process, Pending
<1>4. ASSUME status = "running", Works
      PROVE  \/ read' = read /\ how.asked \cap Pending' = how.asked \cap Pending
             \/ \E f \in how.asked :
                  /\ Ask(f) /\ f \in Pending /\ Pending' = Pending \ {f}
                  /\ Pending \in {Prompts, {"email", "password"}, {"password"}}
                  /\ f = "username" => Pending = Prompts
                  /\ f = "email" => Pending = {"email", "password"}
                  /\ f = "password" => Pending = {"password"}
  <2>1. stage \in {SuperuserCourse, Asking, AskingEmail, AskingPassword,
                   PasswordCourse, Loading, OpeningCommand, Running, Closing}
    BY <1>1, <1>2, <1>4, PromptingStage
  <2> USE <1>2, <1>4, <2>1, CommandTails, CommandHeads, PendingAtStage
  <2>2. CASE Passes
    <3>1. Head(stage) \in Plain /\ stage' = Tail(stage) /\ status' = "running"
      BY <2>2 DEF Passes, At, Proceed
    <3>2. stage \in {SuperuserCourse, PasswordCourse, Running}
      BY <3>1 DEF Plain
    <3>3. PendingAt(Tail(stage)) = PendingAt(stage)
      <4>1. CASE stage = SuperuserCourse
        BY <4>1
      <4>2. CASE stage = PasswordCourse
        BY <4>2
      <4>3. CASE stage = Running
        BY <4>3
      <4> QED
        BY <3>2, <4>1, <4>2, <4>3
    <3>4. Pending' = Pending
      BY <3>1, <3>3 DEF Pending
    <3> QED
      BY <2>2, <3>4 DEF Passes
  <2>3. CASE Load \/ Open
    <3>1. /\ Head(stage) \in {"load", "open"} /\ stage' = Tail(stage)
          /\ status' = "running"
      BY <2>3 DEF Load, Open, At, Proceed, Abort
    <3>2. stage \in {Loading, OpeningCommand}
      BY <3>1
    <3>3. PendingAt(Tail(stage)) = PendingAt(stage)
      BY <3>2
    <3>4. Pending' = Pending
      BY <3>1, <3>3 DEF Pending
    <3> QED
      BY <2>3, <3>4 DEF Load, Open
  <2>4. CASE Close
    <3>1. Head(stage) = "close" /\ status' # "running"
      BY <2>4 DEF Close, At, Exit
    <3>2. stage = Closing
      BY <3>1
    <3>3. Pending' = {} /\ Pending = {}
      BY <3>1, <3>2 DEF Pending
    <3> QED
      BY <2>4, <3>3 DEF Close
  <2>5. stage # <<>> /\ ~Fails /\ ~Served
    <3>1. stage # <<>>
      BY NotOver
    <3>2. ~Served
      BY DEF Served, At
    <3>3. ~Fails
      BY DEF Fails, Abort
    <3> QED
      BY <3>1, <3>2, <3>3
  <2>6. ASSUME NEW f \in Prompts, Given(f)
        PROVE  read' = read /\ how.asked \cap Pending' = how.asked \cap Pending
    <3>1. /\ f \notin how.asked /\ Head(stage) = f /\ stage' = Tail(stage)
          /\ status' = "running"
      BY <2>6 DEF Given, At, Proceed, Abort
    <3>2. stage \in {Asking, AskingEmail, AskingPassword}
      BY <3>1 DEF Prompts
    <3>3. PendingAt(Tail(stage)) = PendingAt(stage) \ {f}
      BY <3>1, <3>2, PendingTail
    <3>4. Pending' = Pending \ {f}
      BY <3>1, <3>3 DEF Pending
    <3> QED
      BY <2>6, <3>1, <3>4 DEF Given
  <2>7. ASSUME NEW f \in Prompts, Ask(f)
        PROVE  /\ f \in how.asked /\ f \in Pending /\ Pending' = Pending \ {f}
               /\ Pending \in {Prompts, {"email", "password"}, {"password"}}
               /\ f = "username" => Pending = Prompts
               /\ f = "email" => Pending = {"email", "password"}
               /\ f = "password" => Pending = {"password"}
    <3>1. /\ f \in how.asked /\ Head(stage) = f /\ stage' = Tail(stage)
          /\ status' = "running"
      BY <2>7 DEF Ask, At, Proceed, Abort
    <3>2. stage \in {Asking, AskingEmail, AskingPassword}
      BY <3>1 DEF Prompts
    <3>3. PendingAt(Tail(stage)) = PendingAt(stage) \ {f} /\ f \in PendingAt(stage)
      BY <3>1, <3>2, PendingTail
    <3>4. Pending' = Pending \ {f} /\ Pending = PendingAt(stage)
      BY <3>1, <3>3 DEF Pending
    <3> QED
      BY <3>1, <3>2, <3>3, <3>4
  <2> QED
    BY <2>2, <2>3, <2>4, <2>5, <2>6, <2>7 DEF Works, Return, Prompts
<1>5. CASE Interrupt
  <2>1. ~At("serve")
    BY <1>1, <1>2, <1>5, PromptingStage, CommandHeads DEF At, Interrupt
  <2> QED
    BY <1>5, <2>1 DEF Interrupt, Exit
<1>6. Works => status = "running"
  BY DEF Works, Passes, Fails, Load, Open, Close, Return, Served, Ask, Given, At
<1> QED
  BY <1>2, <1>3, <1>4, <1>5, <1>6 DEF ProcessNext, ServerWorks, ServerMeets,
     DeadlineComes, Runs, Ended

\* Each prompt takes the line that is next.
LEMMA LinesStep ==
  ASSUME CallerInv, CommandCourse, FailureInv, LinesKept, how' = how,
         [ProcessNext]_<<process, vars>>
  PROVE  LinesKept'
<1>0. (LineByLine <=> LineByLine') /\ \A f : Rank(f)' = Rank(f)
  BY DEF LineByLine, Rank, Asks
<1> SUFFICES ASSUME LineByLine, ~failed', status' # "killed",
                    NEW g \in how.asked
             PROVE  IF g \notin Pending' THEN read'.kept[g] = Rank(g)
                    ELSE (\A h \in how.asked \cap Pending' : Rank(g) <= Rank(h)) =>
                           read'.lines = Rank(g) - 1
  BY <1>0 DEF LinesKept
<1>1. how.asked \subseteq Prompts
  BY AskedFinite
<1>2. \A f \in how.asked :
        IF f \notin Pending THEN read.kept[f] = Rank(f)
        ELSE (\A h \in how.asked \cap Pending : Rank(f) <= Rank(h)) =>
               read.lines = Rank(f) - 1
  BY PendingStep DEF LinesKept
<1>3. CASE read' = read /\ how.asked \cap Pending' = how.asked \cap Pending
  BY <1>2, <1>3
<1>4. ASSUME NEW f \in how.asked, Ask(f), f \in Pending, Pending' = Pending \ {f},
             Pending \in {Prompts, {"email", "password"}, {"password"}},
             f = "username" => Pending = Prompts,
             f = "email" => Pending = {"email", "password"},
             f = "password" => Pending = {"password"}
      PROVE  IF g \notin Pending' THEN read'.kept[g] = Rank(g)
             ELSE (\A h \in how.asked \cap Pending' : Rank(g) <= Rank(h)) =>
                    read'.lines = Rank(g) - 1
  <2>1. \A h \in how.asked \cap Pending : Rank(f) <= Rank(h)
    BY <1>1, <1>4 DEF Rank, Asks, Prompts
  <2>2. read.lines = Rank(f) - 1
    BY <1>2, <1>4, <2>1
  <2>3. PICK n \in Taken :
          read' = [lines |-> read.lines + n,
                   kept |-> [read.kept EXCEPT ![f] = read.lines + 1]]
    BY <1>4 DEF Ask, Abort
  <2>4. Rank(f) \in Nat /\ f \in Prompts
    BY <1>1 DEF Rank, Asks, Prompts
  <2>5. CASE g \notin Pending'
    BY <1>2, <1>4, <2>2, <2>3, <2>4, <2>5 DEF CallerInv
  <2>6. CASE g \in Pending'
    <3>1. g # f
      BY <1>4, <2>6
    <3>2. how.stdin = "terminal"
      BY <3>1, AskedFinite DEF LineByLine
    <3>3. read'.lines = Rank(f)
      BY <2>2, <2>3, <2>4, <3>2 DEF Taken
    <3>4. ASSUME \A h \in how.asked \cap Pending' : Rank(g) <= Rank(h)
          PROVE  Rank(f) = Rank(g) - 1
      BY <1>1, <1>4, <2>6, <3>1, <3>4 DEF Rank, Asks, Prompts
    <3> QED
      BY <2>6, <3>3, <3>4
  <2> QED
    BY <2>5, <2>6
<1>5. \/ read' = read /\ how.asked \cap Pending' = how.asked \cap Pending
      \/ \E f \in how.asked :
           /\ Ask(f) /\ f \in Pending /\ Pending' = Pending \ {f}
           /\ Pending \in {Prompts, {"email", "password"}, {"password"}}
           /\ f = "username" => Pending = Prompts
           /\ f = "email" => Pending = {"email", "password"}
           /\ f = "password" => Pending = {"password"}
  BY PendingStep
<1> QED
  BY <1>3, <1>4, <1>5

\* The first field has line 1, the next the line after, and so to the last.
LEMMA RankCounts ==
  ASSUME CallerInv, \A g \in how.asked : read.kept[g] = Rank(g), NEW f \in how.asked
  PROVE  read.kept[f] =
           Cardinality({g \in how.asked : read.kept[g] \in 1 .. read.kept[f]})
<1> DEFINE counted == {g \in how.asked : read.kept[g] \in 1 .. read.kept[f]}
<1>1. how.asked \subseteq Prompts
  BY AskedFinite
<1>2. counted = {g \in how.asked : Rank(g) \in 1 .. Rank(f)}
  OBVIOUS
<1>3. /\ "username" \in Prompts /\ "email" \in Prompts /\ "password" \in Prompts
  BY DEF Prompts
<1>7. /\ Cardinality({"username", "email"}) = 2
      /\ Cardinality({"username", "password"}) = 2
      /\ Cardinality({"email", "password"}) = 2
      /\ Cardinality({"username", "email", "password"}) = 3
  <2>1. \A a, b \in Prompts : a # b => Cardinality({a, b}) = 2
    BY SmallSets
  <2>2. \A a, b, c \in Prompts :
          a # b /\ a # c /\ b # c => Cardinality({a, b, c}) = 3
    BY SmallSets
  <2> QED
    BY <1>3, <2>1, <2>2
<1>4. CASE f = "username"
  <2>1. Rank(f) = 1 /\ counted = {"username"}
    BY <1>1, <1>2, <1>4 DEF Rank, Asks, Prompts
  <2> QED
    BY <2>1, <1>3, SmallSets
<1>5. CASE f = "email"
  <2>1. CASE "username" \in how.asked
    <3>1. Rank(f) = 2 /\ counted = {"username", "email"}
      BY <1>1, <1>2, <1>5, <2>1 DEF Rank, Asks, Prompts
    <3> QED
      BY <3>1, <1>7
  <2>2. CASE "username" \notin how.asked
    <3>1. Rank(f) = 1 /\ counted = {"email"}
      BY <1>1, <1>2, <1>5, <2>2 DEF Rank, Asks, Prompts
    <3> QED
      BY <3>1, <1>3, SmallSets
  <2> QED
    BY <2>1, <2>2
<1>6. CASE f = "password"
  <2>1. counted = how.asked
    BY <1>1, <1>2, <1>6 DEF Rank, Asks, Prompts
  <2>2. CASE "username" \in how.asked /\ "email" \in how.asked
    <3>1. Rank(f) = 3 /\ how.asked = {"username", "email", "password"}
      BY <1>1, <1>6, <2>2 DEF Rank, Asks, Prompts
    <3> QED
      BY <2>1, <3>1, <1>7
  <2>3. CASE "username" \in how.asked /\ "email" \notin how.asked
    <3>1. Rank(f) = 2 /\ how.asked = {"username", "password"}
      BY <1>1, <1>6, <2>3 DEF Rank, Asks, Prompts
    <3> QED
      BY <2>1, <3>1, <1>7
  <2>4. CASE "username" \notin how.asked /\ "email" \in how.asked
    <3>1. Rank(f) = 2 /\ how.asked = {"email", "password"}
      BY <1>1, <1>6, <2>4 DEF Rank, Asks, Prompts
    <3> QED
      BY <2>1, <3>1, <1>7
  <2>5. CASE "username" \notin how.asked /\ "email" \notin how.asked
    <3>1. Rank(f) = 1 /\ how.asked = {"password"}
      BY <1>1, <1>6, <2>5 DEF Rank, Asks, Prompts
    <3> QED
      BY <2>1, <3>1, <1>3, SmallSets
  <2> QED
    BY <2>2, <2>3, <2>4, <2>5
<1> QED
  BY <1>1, <1>4, <1>5, <1>6 DEF Prompts

\* How a process can end, in every reachable state.
THEOREM ExitInvariant == ProcessSpec => []ExitInv
<1>1. ExitInv /\ [ProcessNext]_<<process, vars>> => ExitInv'
  BY CallerStep, SourceStep, FailureStep, CommandCourseStep, LinesStep DEF ExitInv
<1> QED
  BY <1>1, ExitInit, PTL DEF ProcessSpec

\* A command returns with its pool closed, and reports success only if all of
\* it succeeded with the settings of the strongest source and each field from
\* its line of stdin, where that is a terminal or is read once.
THEOREM CleanExits == ProcessSpec => []ExitsClean
<1>1. ExitInv => ExitsClean
  <2> SUFFICES ASSUME ExitInv PROVE ExitsClean
    OBVIOUS
  <2>1. how.program # "server" /\ status \notin {"running", "killed"} => pool # "open"
    BY DEF ExitInv, FailureInv, CommandCourse
  <2>2. status = "ok" =>
          ~failed /\ \A v \in {v \in DOMAIN settings : settings[v] # "unset"} :
            settings[v] # "environment" => how.values["environment"][v] = "absent"
    BY DEF ExitInv, FailureInv, StrongestSource
  <2>3. ASSUME status = "ok", LineByLine
        PROVE  \A f \in how.asked : read.kept[f] =
                 Cardinality({g \in how.asked : read.kept[g] \in 1 .. read.kept[f]})
    <3>1. Pending = {} /\ ~failed
      BY <2>2, <2>3 DEF Pending
    <3>2. \A g \in how.asked : read.kept[g] = Rank(g)
      BY <2>3, <3>1 DEF ExitInv, LinesKept
    <3> QED
      BY <3>2, RankCounts DEF ExitInv
  <2> QED
    BY <2>1, <2>2, <2>3 DEF ExitsClean, LineByLine
<1> QED
  BY <1>1, ExitInvariant, PTL
=============================================================================
