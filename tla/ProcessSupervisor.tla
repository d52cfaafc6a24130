------------------------- MODULE ProcessSupervisor -------------------------
(* The chain of processes behind a management command: godjango compiles and *)
(* runs the project's cmd/manage, which for runserver compiles and runs      *)
(* cmd/server (RunProjectProgram). Each of them waits for one child at a     *)
(* time in runAttached (management/process_unix.go), in a process group of   *)
(* the child's own, and forwards what signals it gets. Only the context of   *)
(* the first can be cancelled: the others' is context.Background().          *)
EXTENDS Integers, Sequences

CONSTANTS
  N,             \* the processes that supervise: 1 runs 2, ..., N the program
  MaxSignals,    \* bound on the signals sent to process 1
  MayCancel,     \* whether the context of process 1 may be cancelled
  Interactive    \* whether the program reads the terminal (dbshell, a prompt)

ASSUME ConstantsAssumption ==
  /\ N \in Nat \ {0} /\ MaxSignals \in Nat
  /\ MayCancel \in BOOLEAN /\ Interactive \in BOOLEAN

Supervisors == 1 .. N
Program     == N + 1
Compiler(i) == N + 1 + i             \* the go build that i runs first
Leaves      == N + 1 .. 2 * N + 1
Processes   == Supervisors \cup Leaves

Number   == [HUP |-> 1, INT |-> 2, KILL |-> 9, TERM |-> 15]
Notified == {"HUP", "INT", "TERM"}   \* what signal.Notify asks for
None     == "none"
Canceled == 130                      \* ExitCanceled
Failure  == 1                        \* ExitFailure

VARIABLES
  status,     \* of each process: absent, running, stopped or exited
  exit,       \* how it exited: <<"code", c>> or <<"signal", s>>
  pending,    \* signals that have reached a leaf
  pc,         \* a supervisor's place in runAttached
  command,    \* 1 while it compiles, 2 when it runs what it compiled
  queue,      \* the one signal its channel holds
  forwarded,  \* forwardedCode, 0 if it has forwarded nothing
  result,     \* the code it is about to exit with
  cancelled,  \* the context of process 1 is done
  signals,    \* how many signals were sent
  heard       \* history: the signals whose handler in a supervisor ran

vars == <<status, exit, pending, pc, command, queue, forwarded, result,
          cancelled, signals, heard>>

Init ==
  /\ status = [p \in Processes |-> IF p = 1 THEN "running" ELSE "absent"]
  /\ exit = [p \in Processes |-> <<"code", 0>>]
  /\ pending = [p \in Leaves |-> {}]
  /\ pc = [i \in Supervisors |-> "prepare"]
  /\ command = [i \in Supervisors |-> 1]
  /\ queue = [i \in Supervisors |-> None]
  /\ forwarded = [i \in Supervisors |-> 0]
  /\ result = [i \in Supervisors |-> 0]
  /\ cancelled = FALSE /\ signals = 0
  /\ heard = [i \in Supervisors |-> {}]
-----------------------------------------------------------------------------
Child(i)   == IF command[i] = 1 THEN Compiler(i) ELSE i + 1
Running(p) == status[p] = "running"
Alive(p)   == status[p] \in {"running", "stopped"}
At(i, label) == Running(i) /\ pc[i] = label
Exited(i)  == status[Child(i)] = "exited"

Die(p, e) ==
  /\ status' = [status EXCEPT ![p] = "exited"]
  /\ exit' = [exit EXCEPT ![p] = e]

\* A leaf chooses for itself what a signal does to it.
Notifies(p) == p \in Supervisors => pc[p] \notin {"prepare", "exiting"}

\* Setpgid: every child leads a group of its own, while the terminal stays
\* with the group of process 1.
Group(p)   == p
Foreground == Group(1)

\* Signal s is sent to process p, q being the channels at that moment. Where
\* nothing is notified, and for SIGKILL, the default action ends the process;
\* a notified signal is dropped when the channel is full.
Deliver(p, s, q) ==
  \/ /\ ~Alive(p)
     /\ queue' = q /\ UNCHANGED <<status, exit, pending, heard>>
  \/ /\ Alive(p)
     /\ s = "KILL" \/ ~Notifies(p)
     /\ Die(p, <<"signal", s>>)
     /\ queue' = q /\ UNCHANGED <<pending, heard>>
  \/ /\ Alive(p) /\ s # "KILL" /\ p \in Leaves
     /\ pending' = [pending EXCEPT ![p] = @ \cup {s}]
     /\ queue' = q /\ UNCHANGED <<status, exit, heard>>
  \/ /\ Alive(p) /\ s # "KILL" /\ p \in Supervisors
     /\ Notifies(p)
     /\ queue' = [q EXCEPT ![p] = IF @ = None THEN s ELSE @]
     /\ heard' = [heard EXCEPT ![p] = @ \cup {s}]
     /\ UNCHANGED <<status, exit, pending>>

Leave(i, c) ==
  /\ pc' = [pc EXCEPT ![i] = "exiting"]
  /\ result' = [result EXCEPT ![i] = c]
-----------------------------------------------------------------------------
IsCancelled(i) == i = 1 /\ cancelled

\* runAttached up to its loop: nothing is started once the context is done.
Start(i) ==
  /\ At(i, "prepare") /\ ~IsCancelled(i)
  /\ status' = [status EXCEPT ![Child(i)] = "running"]
  /\ pc' = [pc EXCEPT ![i] = "attached"]
  /\ queue' = [queue EXCEPT ![i] = None]
  /\ forwarded' = [forwarded EXCEPT ![i] = 0]
  /\ UNCHANGED <<exit, pending, command, result, cancelled, signals, heard>>

StartRefused(i) ==
  /\ At(i, "prepare")
  /\ \/ IsCancelled(i) /\ Leave(i, Canceled)
     \/ ~IsCancelled(i) /\ Leave(i, Failure)         \* Start itself failed
  /\ UNCHANGED <<status, exit, pending, command, queue, forwarded, cancelled,
                 signals, heard>>

\* Mutant: a child that died of a signal has no exit code of its own.
PlainExitCode(e) == IF e[1] = "signal" THEN -1 ELSE e[2]

\* processExitCode.
ExitCode(e) == IF e[1] = "signal" THEN 128 + Number[e[2]] ELSE e[2]

\* What runAttached returns of a child that was waited for, as an exit code:
\* attachedCommandError asks first whether the context is done.
Status(i) ==
  LET c == IF forwarded[i] # 0 THEN forwarded[i] ELSE ExitCode(exit[Child(i)])
  IN IF c # 0 /\ IsCancelled(i) THEN Canceled ELSE c

\* Mutant: a build that ended well is followed by the run whatever happened.
WaitedPlain(i) ==
  /\ At(i, "attached") /\ Exited(i)
  /\ LET c == ExitCode(exit[Child(i)]) IN
     IF c = 0 /\ command[i] = 1
     THEN /\ command' = [command EXCEPT ![i] = 2]
          /\ pc' = [pc EXCEPT ![i] = "prepare"]
          /\ UNCHANGED result
     ELSE Leave(i, c) /\ UNCHANGED command
  /\ UNCHANGED <<status, exit, pending, queue, forwarded, cancelled, signals,
                 heard>>

\* The loop's first case, and RunProjectProgram after it: a command that went
\* well is followed by the next; signal.Stop leaves no handler behind.
Waited(i) ==
  /\ At(i, "attached") /\ Exited(i)
  /\ IF Status(i) = 0 /\ command[i] = 1
     THEN /\ command' = [command EXCEPT ![i] = 2]
          /\ pc' = [pc EXCEPT ![i] = "prepare"]
          /\ UNCHANGED result
     ELSE Leave(i, Status(i)) /\ UNCHANGED command
  /\ UNCHANGED <<status, exit, pending, queue, forwarded, cancelled, signals,
                 heard>>

\* Mutant: the signal is noted but not sent on.
ForwardNothing(i) ==
  /\ At(i, "attached") /\ queue[i] # None
  /\ forwarded' = [forwarded EXCEPT ![i] = 128 + Number[queue[i]]]
  /\ queue' = [queue EXCEPT ![i] = None]
  /\ UNCHANGED <<status, exit, pending, heard, pc, command, result, cancelled,
                 signals>>

\* The second case: to a child that has just exited the signal does nothing.
Forward(i) ==
  /\ At(i, "attached") /\ queue[i] # None
  /\ forwarded' = [forwarded EXCEPT ![i] = 128 + Number[queue[i]]]
  /\ Deliver(Child(i), queue[i], [queue EXCEPT ![i] = None])
  /\ UNCHANGED <<pc, command, result, cancelled, signals>>

\* The third case.
Terminate(i) ==
  /\ At(i, "attached") /\ IsCancelled(i)
  /\ pc' = [pc EXCEPT ![i] = "terminating"]
  /\ Deliver(Child(i), "TERM", queue)
  /\ UNCHANGED <<command, forwarded, result, cancelled, signals>>

\* Mutant: SIGTERM once more.
TerminateAgain(i) ==
  /\ At(i, "terminating")
  /\ pc' = [pc EXCEPT ![i] = "killing"]
  /\ Deliver(Child(i), "TERM", queue)
  /\ UNCHANGED <<command, forwarded, result, cancelled, signals>>

\* The two seconds are over, though the child may have exited as well.
Kill(i) ==
  /\ At(i, "terminating")
  /\ pc' = [pc EXCEPT ![i] = "killing"]
  /\ Deliver(Child(i), "KILL", queue)
  /\ UNCHANGED <<command, forwarded, result, cancelled, signals>>

\* Mutant: a child that was told to end is not waited for.
LeavesUnwaited(i) ==
  /\ Running(i) /\ pc[i] \in {"terminating", "killing"}
  /\ Leave(i, Canceled)
  /\ UNCHANGED <<status, exit, pending, command, queue, forwarded, cancelled,
                 signals, heard>>

WaitedCancelled(i) ==
  /\ Running(i) /\ pc[i] \in {"terminating", "killing"}
  /\ Exited(i)
  /\ Leave(i, Canceled)
  /\ UNCHANGED <<status, exit, pending, command, queue, forwarded, cancelled,
                 signals, heard>>

Exit(i) ==
  /\ At(i, "exiting")
  /\ Die(i, <<"code", result[i]>>)
  /\ UNCHANGED <<pending, pc, command, queue, forwarded, result, cancelled,
                 signals, heard>>
-----------------------------------------------------------------------------
(* The other processes.                                                      *)

\* A leaf ends by itself, well or badly, or the kernel ends it.
Finish(p) ==
  /\ Running(p)
  /\ \E e \in {<<"code", 0>>, <<"code", 1>>, <<"signal", "KILL">>} : Die(p, e)
  /\ UNCHANGED <<pending, pc, command, queue, forwarded, result, cancelled,
                 signals, heard>>

\* A leaf ends because of a signal: it dies of it or, as web.Server does after
\* a graceful shutdown, exits with a code. It may also never do so.
Heed(p) ==
  /\ Running(p)
  /\ \E s \in pending[p] : \/ Die(p, <<"signal", s>>)
                           \/ Die(p, <<"code", 0>>)
  /\ UNCHANGED <<pending, pc, command, queue, forwarded, result, cancelled,
                 signals, heard>>

\* The program reads the terminal, for a password say: the terminal stops a
\* process of a background group that does (SIGTTIN, SIGTTOU), and nothing but
\* SIGKILL has an effect on it from then on.
ReadTerminal ==
  /\ Interactive /\ Running(Program)
  /\ Group(Program) # Foreground
  /\ status' = [status EXCEPT ![Program] = "stopped"]
  /\ UNCHANGED <<exit, pending, pc, command, queue, forwarded, result,
                 cancelled, signals, heard>>

\* The terminal signals process 1, an operator any process.
Signal ==
  /\ signals < MaxSignals
  /\ signals' = signals + 1
  /\ \E p \in Processes, s \in Notified : Alive(p) /\ Deliver(p, s, queue)
  /\ UNCHANGED <<pc, command, forwarded, result, cancelled>>

Cancel ==
  /\ MayCancel /\ ~cancelled
  /\ cancelled' = TRUE
  /\ UNCHANGED <<status, exit, pending, pc, command, queue, forwarded, result,
                 signals, heard>>

Supervise(i) ==
  \/ Start(i) \/ StartRefused(i) \/ Waited(i) \/ Forward(i) \/ Terminate(i)
  \/ Kill(i) \/ WaitedCancelled(i) \/ Exit(i)

Next ==
  \/ \E i \in Supervisors : Supervise(i)
  \/ \E p \in Leaves : Finish(p) \/ Heed(p)
  \/ ReadTerminal \/ Signal \/ Cancel

\* The steps of runAttached are taken once they are possible, the timer's
\* among them; nothing is asked of the children.
Fairness == \A i \in Supervisors : WF_vars(Supervise(i))

Spec == Init /\ [][Next]_vars /\ Fairness

\* Children that end when they are signalled, and compilers that end.
Heeding ==
  /\ \A p \in Leaves : WF_vars(Heed(p))
  /\ \A i \in Supervisors : WF_vars(Finish(Compiler(i)))

HeedingSpec == Spec /\ Heeding
-----------------------------------------------------------------------------
(* Properties.                                                               *)

Children(i) == {Compiler(i), i + 1}

\* No process of the chain is left running without the one that waits for it,
\* unless that one was killed with SIGKILL by the one above (runAttached
\* returns only what it has waited for, on every path).
NoneLeftBehind ==
  \A i \in Supervisors : \A p \in Children(i) :
    Alive(p) /\ status[i] = "exited" => exit[i] = <<"signal", "KILL">>

\* A command reports success only if what it ran did, and any other status is
\* the child's, a signal it forwarded, a cancellation or a failure to start
\* ("errors, interrupts, and exit status pass through the manager").
StatusPassesThrough ==
  \A i \in Supervisors : status[i] = "exited" /\ exit[i][1] = "code" =>
    LET c == exit[i][2] IN
    IF c = 0 THEN status[i + 1] = "exited" /\ exit[i + 1] = <<"code", 0>>
    ELSE \/ c = Failure
         \/ c = Canceled /\ IsCancelled(i)
         \/ \E s \in heard[i] : c = 128 + Number[s]
         \/ \E p \in Children(i) : /\ status[p] = "exited"
                                   /\ IF exit[p][1] = "code"
                                      THEN c = exit[p][2]
                                      ELSE c = 128 + Number[exit[p][2]]

\* A signal that was forwarded is never answered with success, whatever the
\* child then exits with (forwardedSignalError).
InterruptNotSuccess ==
  \A i \in Supervisors :
    status[i] = "exited" /\ forwarded[i] # 0 => exit[i] # <<"code", 0>>

\* Once its context is done a command ends, with children that ignore SIGTERM
\* as well (the timer and SIGKILL of runAttached).
CancelEnds == cancelled ~> ~Running(1)

\* A command that has forwarded a signal to a compiler or to the program ends,
\* if those heed signals and the terminal has not stopped them.
ForwardedEnds ==
  Heeding /\ [](\A p \in Leaves : status[p] # "stopped") =>
    \A i \in Supervisors :
      (forwarded[i] # 0 /\ Child(i) \in Leaves) ~> ~Running(i)

\* "Generated runserver forwards interrupts through the compiled project
\* process": a command that has been interrupted ends, if its children do.
InterruptEnds == (heard[1] # {}) ~> ~Running(1)
=============================================================================
