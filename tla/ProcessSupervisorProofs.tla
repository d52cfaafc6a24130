----------------------- MODULE ProcessSupervisorProofs -----------------------
(* Proofs about ProcessSupervisor, for chains of any length and any number   *)
(* of signals. The invariant says which child a supervisor can have at each  *)
(* place in runAttached, what the code that it is about to exit with rests   *)
(* on, and how it can have ended where it is.                                *)
EXTENDS ProcessSupervisor, TLAPS

Signals == {"HUP", "INT", "KILL", "TERM"}
Exits == ({"code"} \X Nat) \cup ({"signal"} \X Signals)
Labels == {"prepare", "attached", "terminating", "killing", "exiting"}
States == {"absent", "running", "stopped", "exited"}

Shape ==
  /\ status \in [Processes -> States] /\ exit \in [Processes -> Exits]
  /\ pending \in [Leaves -> SUBSET Notified]
  /\ pc \in [Supervisors -> Labels] /\ command \in [Supervisors -> {1, 2}]
  /\ queue \in [Supervisors -> Notified \cup {None}]
  /\ forwarded \in [Supervisors -> Nat] /\ result \in [Supervisors -> Nat]
  /\ cancelled \in BOOLEAN
  /\ heard \in [Supervisors -> SUBSET Notified]

\* What waits in a channel and what was forwarded has been heard.
Heard(i) ==
  /\ queue[i] # None => queue[i] \in heard[i]
  /\ forwarded[i] # 0 => \E s \in heard[i] : forwarded[i] = 128 + Number[s]

\* What a code stands for, as in StatusPassesThrough.
Warrant(i, c) ==
  IF c = 0 THEN status[i + 1] = "exited" /\ exit[i + 1] = <<"code", 0>>
  ELSE \/ c = Failure
       \/ c = Canceled /\ IsCancelled(i)
       \/ \E s \in heard[i] : c = 128 + Number[s]
       \/ \E p \in Children(i) : /\ status[p] = "exited"
                                 /\ IF exit[p][1] = "code"
                                    THEN c = exit[p][2]
                                    ELSE c = 128 + Number[exit[p][2]]

\* A supervisor has no child but the one of its command, and that only within
\* runAttached's loop.
Place(i) ==
  /\ \A p \in Children(i) :
       Alive(p) => p = Child(i) /\ pc[i] \notin {"prepare", "exiting"}
  /\ pc[i] \in {"terminating", "killing"} => IsCancelled(i)
  /\ pc[i] = "exiting" =>
       Warrant(i, result[i]) /\ (forwarded[i] # 0 => result[i] # 0)

\* It ends of SIGKILL, of a signal while it has no handler, or with its result.
Ended(i) ==
  status[i] = "exited" =>
    \/ exit[i] = <<"signal", "KILL">>
    \/ exit[i][1] = "signal" /\ pc[i] \in {"prepare", "exiting"}
    \/ exit[i] = <<"code", result[i]>> /\ pc[i] = "exiting"

IInv == Shape /\ \A i \in Supervisors : Heard(i) /\ Place(i) /\ Ended(i)
-----------------------------------------------------------------------------
\* Every signal has a number.
LEMMA Numbered ==
  /\ \A s \in Signals : Number[s] \in Nat \ {0}
  /\ Notified \subseteq Signals /\ "KILL" \in Signals /\ "TERM" \in Notified
  /\ None \notin Notified
BY DEF Number, Signals, Notified, None

\* Each process has one parent, and is not its own.
LEMMA Family ==
  ASSUME NEW i \in Supervisors, command[i] \in {1, 2}
  PROVE  /\ Child(i) \in Children(i) /\ Children(i) \subseteq Processes
         /\ i \in Processes /\ i \notin Children(i)
         /\ i + 1 \in Children(i) /\ Compiler(i) \in Children(i)
         /\ \A j \in Supervisors : j # i => Children(i) \cap Children(j) = {}
BY ConstantsAssumption
   DEF Supervisors, Children, Child, Compiler, Processes, Leaves

\* What every step but a start does: nobody comes to life, nobody who has
\* ended changes, and nothing heard is forgotten.
Calm ==
  /\ \A x \in Processes :
       /\ Alive(x)' => Alive(x)
       /\ status[x] = "exited" => status'[x] = "exited" /\ exit'[x] = exit[x]
  /\ cancelled => cancelled'
  /\ \A i \in Supervisors : heard[i] \subseteq heard'[i]

\* A supervisor that stays where it is keeps its place.
LEMMA PlaceKept ==
  ASSUME Shape, NEW i \in Supervisors, Place(i),
         pc'[i] = pc[i], command'[i] = command[i],
         pc[i] = "exiting" => result'[i] = result[i] /\ forwarded'[i] = forwarded[i],
         cancelled => cancelled', heard[i] \subseteq heard'[i],
         \A p \in Children(i) :
           /\ Alive(p)' => Alive(p)
           /\ status[p] = "exited" => status'[p] = "exited" /\ exit'[p] = exit[p]
  PROVE  Place(i)'
<1>1. Child(i)' = Child(i) /\ (IsCancelled(i) => IsCancelled(i)')
  BY DEF Child, IsCancelled
<1>2. i + 1 \in Children(i)
  BY Family DEF Shape
<1>3. ASSUME pc[i] = "exiting"
      PROVE  Warrant(i, result[i])' /\ (forwarded'[i] # 0 => result'[i] # 0)
  <2>1. Warrant(i, result[i]) /\ result'[i] = result[i] /\ forwarded'[i] = forwarded[i]
        /\ (forwarded[i] # 0 => result[i] # 0)
    BY <1>3 DEF Place
  <2>2. CASE result[i] = 0
    BY <1>2, <2>1, <2>2 DEF Warrant
  <2>3. CASE result[i] = Failure
    BY <2>1, <2>3 DEF Warrant, Failure
  <2>4. CASE result[i] # 0 /\ result[i] = Canceled /\ IsCancelled(i)
    BY <1>1, <2>1, <2>4 DEF Warrant
  <2>5. CASE result[i] # 0 /\ \E s \in heard[i] : result[i] = 128 + Number[s]
    BY <2>1, <2>5 DEF Warrant
  <2>6. CASE result[i] # 0 /\ \E p \in Children(i) :
               /\ status[p] = "exited"
               /\ IF exit[p][1] = "code" THEN result[i] = exit[p][2]
                  ELSE result[i] = 128 + Number[exit[p][2]]
    BY <2>1, <2>6 DEF Warrant
  <2> QED
    BY <2>1, <2>2, <2>3, <2>4, <2>5, <2>6 DEF Warrant
<1>4. \A p \in Children(i) :
        Alive(p)' => p = Child(i)' /\ pc'[i] \notin {"prepare", "exiting"}
  BY <1>1 DEF Place
<1>5. pc'[i] \in {"terminating", "killing"} => IsCancelled(i)'
  BY <1>1 DEF Place
<1> QED
  BY <1>3, <1>4, <1>5 DEF Place, Children, Compiler

\* A calm step that leaves the places of the others.
LEMMA OthersKept ==
  ASSUME IInv, Calm, NEW i \in Supervisors,
         pc'[i] = pc[i], command'[i] = command[i], result'[i] = result[i],
         pc[i] = "exiting" => forwarded'[i] = forwarded[i]
  PROVE  Place(i)'
<1>1. Children(i) \subseteq Processes /\ Shape /\ Place(i)
  BY Family DEF IInv, Shape
<1> QED
  BY <1>1, PlaceKept DEF Calm

\* What the delivery of a signal may do.
LEMMA Delivered ==
  ASSUME Shape, NEW p \in Processes, NEW s \in Signals, s # "KILL" => s \in Notified,
         NEW q \in [Supervisors -> Notified \cup {None}],
         Deliver(p, s, q)
  PROVE  /\ status' \in [Processes -> States] /\ exit' \in [Processes -> Exits]
         /\ pending' \in [Leaves -> SUBSET Notified]
         /\ queue' \in [Supervisors -> Notified \cup {None}]
         /\ heard' \in [Supervisors -> SUBSET Notified]
         /\ \A x \in Processes :
              /\ Alive(x)' => Alive(x)
              /\ status[x] = "exited" => status'[x] = "exited" /\ exit'[x] = exit[x]
         /\ \A i \in Supervisors :
              /\ heard[i] \subseteq heard'[i]
              /\ queue'[i] = q[i] \/ queue'[i] \in heard'[i]
              /\ \/ status'[i] = status[i] /\ exit'[i] = exit[i]
                 \/ /\ status'[i] = "exited" /\ exit'[i] = <<"signal", s>>
                    /\ s = "KILL" \/ pc[i] \in {"prepare", "exiting"}
<1>0. Supervisors \subseteq Processes
  BY DEF Processes
<1>1. CASE ~Alive(p) /\ queue' = q /\ UNCHANGED <<status, exit, pending, heard>>
  BY <1>1 DEF Shape, Alive
<1>2. CASE /\ Alive(p)
           /\ s = "KILL" \/ ~Notifies(p)
           /\ Die(p, <<"signal", s>>) /\ queue' = q /\ UNCHANGED <<pending, heard>>
  <2>1. <<"signal", s>> \in Exits
    BY DEF Exits
  <2>2. status' = [status EXCEPT ![p] = "exited"] /\ exit' = [exit EXCEPT ![p] = <<"signal", s>>]
    BY <1>2 DEF Die
  <2>3. p \in Supervisors => s = "KILL" \/ pc[p] \in {"prepare", "exiting"}
    BY <1>2 DEF Notifies
  <2>4. status' \in [Processes -> States] /\ exit' \in [Processes -> Exits]
    BY <2>1, <2>2 DEF Shape, States
  <2>5. \A x \in Processes :
          IF x = p THEN status'[x] = "exited" /\ exit'[x] = <<"signal", s>> /\ Alive(x)
          ELSE status'[x] = status[x] /\ exit'[x] = exit[x]
    <3>1. status \in [Processes -> States] /\ exit \in [Processes -> Exits]
      BY DEF Shape
    <3>2. status'[p] = "exited" /\ exit'[p] = <<"signal", s>>
      BY <2>2, <3>1
    <3>3. \A x \in Processes : x # p => status'[x] = status[x] /\ exit'[x] = exit[x]
      BY <2>2, <3>1
    <3> TAKE x \in Processes
    <3>4. CASE x = p
      BY <1>2, <3>2, <3>4
    <3>5. CASE x # p
      BY <3>3, <3>5
    <3> QED
      BY <3>4, <3>5
  <2>6. \A x \in Processes :
          /\ Alive(x)' => Alive(x)
          /\ status[x] = "exited" => status'[x] = "exited" /\ exit'[x] = exit[x]
    BY <2>5 DEF Alive
  <2>7. \A i \in Supervisors :
          \/ status'[i] = status[i] /\ exit'[i] = exit[i]
          \/ /\ status'[i] = "exited" /\ exit'[i] = <<"signal", s>>
             /\ s = "KILL" \/ pc[i] \in {"prepare", "exiting"}
    BY <1>0, <2>3, <2>5
  <2> QED
    BY <1>2, <2>4, <2>6, <2>7 DEF Shape
<1>3. CASE /\ p \in Leaves /\ s # "KILL" /\ pending' = [pending EXCEPT ![p] = @ \cup {s}]
           /\ queue' = q /\ UNCHANGED <<status, exit, heard>>
  BY <1>3 DEF Shape, Alive
<1>4. CASE /\ s # "KILL" /\ p \in Supervisors
           /\ queue' = [q EXCEPT ![p] = IF @ = None THEN s ELSE @]
           /\ heard' = [heard EXCEPT ![p] = @ \cup {s}]
           /\ UNCHANGED <<status, exit, pending>>
  BY <1>4 DEF Shape, Alive
<1> QED
  BY <1>1, <1>2, <1>3, <1>4 DEF Deliver

\* So nobody who ends badly ends in the wrong place.
LEMMA EndedKept ==
  ASSUME IInv, NEW i \in Supervisors, pc'[i] = pc[i], result'[i] = result[i],
         \/ status'[i] = status[i] /\ exit'[i] = exit[i]
         \/ status'[i] # "exited"
         \/ exit'[i] = <<"signal", "KILL">>
         \/ exit'[i][1] = "signal" /\ pc[i] \in {"prepare", "exiting"}
  PROVE  Ended(i)'
BY DEF IInv, Ended
-----------------------------------------------------------------------------
\* The chain starts with its first process and nothing run.
LEMMA InitIInv == Init => IInv
<1> SUFFICES ASSUME Init PROVE IInv
  OBVIOUS
<1>1. Shape
  <2>1. 0 \in Nat /\ <<"code", 0>> \in Exits /\ None \notin Notified
    BY Numbered DEF Exits
  <2> QED
    BY <2>1 DEF Init, Shape, States, Labels
<1>2. ASSUME NEW i \in Supervisors PROVE Heard(i) /\ Place(i) /\ Ended(i)
  <2>1. 1 \notin Children(i) /\ Children(i) \subseteq Processes /\ i \in Processes
    BY <1>1, ConstantsAssumption DEF Children, Compiler, Processes, Supervisors, Leaves
  <2>2. pc[i] = "prepare" /\ forwarded[i] = 0 /\ queue[i] = None /\ status[i] # "exited"
    BY <2>1 DEF Init
  <2>3. \A p \in Children(i) : ~Alive(p)
    BY <2>1 DEF Init, Alive
  <2> QED
    BY <2>2, <2>3 DEF Heard, Place, Ended
<1> QED
  BY <1>1, <1>2 DEF IInv

\* A supervisor leaves with a code that something warrants.
LEMMA LeaveStep ==
  ASSUME IInv, NEW i \in Supervisors, NEW c \in Nat, Leave(i, c), Running(i),
         \A p \in Children(i) : ~Alive(p),
         Warrant(i, c), forwarded[i] # 0 => c # 0,
         UNCHANGED <<status, exit, pending, command, queue, forwarded, cancelled,
                     heard>>
  PROVE  IInv'
<1>1. /\ pc' = [pc EXCEPT ![i] = "exiting"] /\ result' = [result EXCEPT ![i] = c]
      /\ Shape
  BY DEF Leave, IInv
<1>2. Shape'
  BY <1>1 DEF Shape, Labels
<1>3. ASSUME NEW j \in Supervisors PROVE Heard(j)'
  BY DEF IInv, Heard
<1>4. ASSUME NEW j \in Supervisors PROVE Place(j)'
  <2>1. CASE j = i
    <3>1. pc'[i] = "exiting" /\ result'[i] = c
      BY <1>1 DEF Shape
    <3>2. Warrant(i, result[i])'
      BY <3>1 DEF Warrant, IsCancelled, Children, Compiler
    <3> QED
      BY <2>1, <3>1, <3>2 DEF Place, Children, Compiler, Alive
  <2>2. CASE j # i
    BY <1>1, <2>2, OthersKept DEF Shape, Calm, Alive
  <2> QED
    BY <2>1, <2>2
<1>5. ASSUME NEW j \in Supervisors PROVE Ended(j)'
  <2>1. CASE j = i
    BY <2>1 DEF Ended, Running
  <2>2. CASE j # i
    BY <1>1, <2>2, EndedKept DEF Shape
  <2> QED
    BY <2>1, <2>2
<1> QED
  BY <1>2, <1>3, <1>4, <1>5 DEF IInv

\* runAttached starts a child, which nobody else waits for.
LEMMA StartStep ==
  ASSUME IInv, NEW i \in Supervisors, Start(i)
  PROVE  IInv'
<1> DEFINE k == Child(i)
<1>1. /\ Shape /\ k \in Children(i) /\ k \in Processes /\ k # i
      /\ \A j \in Supervisors : j # i => k \notin Children(j)
      /\ \A j \in Supervisors : j \in Processes /\ Children(j) \subseteq Processes
  BY Family DEF IInv, Shape
<1>2. /\ pc[i] = "prepare" /\ status' = [status EXCEPT ![k] = "running"]
      /\ pc' = [pc EXCEPT ![i] = "attached"]
      /\ queue' = [queue EXCEPT ![i] = None] /\ forwarded' = [forwarded EXCEPT ![i] = 0]
      /\ UNCHANGED <<exit, pending, command, result, cancelled, heard>>
  BY DEF Start, At
<1> HIDE DEF k
<1>3. Shape'
  BY <1>1, <1>2 DEF Shape, States, Labels
<1>4. ASSUME NEW j \in Supervisors PROVE Heard(j)'
  BY <1>1, <1>2 DEF IInv, Heard, Shape
<1>5. ASSUME NEW j \in Supervisors PROVE Place(j)'
  <2>1. CASE j = i
    <3>1. pc'[i] = "attached" /\ Child(i)' = k /\ Children(i)' = Children(i)
      BY <1>1, <1>2 DEF Shape, Child, Children, Compiler, k
    <3>2. \A p \in Children(i) : ~Alive(p)
      BY <1>2 DEF IInv, Place
    <3>3. \A p \in Children(i) : p # k => ~Alive(p)'
      BY <1>1, <1>2, <3>2 DEF Alive, Shape
    <3> QED
      BY <2>1, <3>1, <3>3 DEF Place
  <2>2. CASE j # i
    <3>1. \A p \in Children(j) : status'[p] = status[p] /\ exit'[p] = exit[p]
      BY <1>1, <1>2, <2>2 DEF Shape
    <3>2. /\ pc'[j] = pc[j] /\ command'[j] = command[j] /\ result'[j] = result[j]
          /\ forwarded'[j] = forwarded[j] /\ heard'[j] = heard[j] /\ cancelled' = cancelled
          /\ Place(j)
      BY <1>1, <1>2, <2>2 DEF Shape, IInv
    <3> QED
      BY <1>1, <3>1, <3>2, PlaceKept DEF Alive
  <2> QED
    BY <2>1, <2>2
<1>6. ASSUME NEW j \in Supervisors PROVE Ended(j)'
  <2>1. CASE j = i
    <3>1. status'[i] = "running"
      BY <1>1, <1>2 DEF Shape, Start, At, Running
    <3> QED
      BY <2>1, <3>1 DEF Ended
  <2>2. CASE j # i
    <3>1. /\ pc'[j] = pc[j] /\ result'[j] = result[j]
          /\ (status'[j] = status[j] /\ exit'[j] = exit[j]) \/ status'[j] # "exited"
      BY <1>1, <1>2, <2>2 DEF Shape
    <3> QED
      BY <3>1, EndedKept
  <2> QED
    BY <2>1, <2>2
<1> QED
  BY <1>3, <1>4, <1>5, <1>6 DEF IInv

\* Nothing is started once the context is done, or Start fails.
LEMMA StartRefusedStep ==
  ASSUME IInv, NEW i \in Supervisors, StartRefused(i)
  PROVE  IInv'
<1>1. pc[i] = "prepare" /\ Running(i)
  BY DEF StartRefused, At
<1>2. \A p \in Children(i) : ~Alive(p)
  BY <1>1 DEF IInv, Place
<1>3. CASE IsCancelled(i) /\ Leave(i, Canceled)
  <2>1. Warrant(i, Canceled) /\ Canceled \in Nat /\ Canceled # 0
    BY <1>3 DEF Warrant, Canceled
  <2> QED
    BY <1>1, <1>2, <1>3, <2>1, LeaveStep DEF StartRefused
<1>4. CASE Leave(i, Failure)
  <2>1. Warrant(i, Failure) /\ Failure \in Nat /\ Failure # 0
    BY DEF Warrant, Failure
  <2> QED
    BY <1>1, <1>2, <1>4, <2>1, LeaveStep DEF StartRefused
<1> QED
  BY <1>3, <1>4 DEF StartRefused

\* A child that has ended leaves its supervisor without one.
LEMMA Childless ==
  ASSUME IInv, NEW i \in Supervisors, Exited(i)
  PROVE  \A p \in Children(i) : ~Alive(p)
BY DEF IInv, Place, Exited, Alive

\* The code of what was waited for.
LEMMA StatusWarranted ==
  ASSUME IInv, NEW i \in Supervisors, Exited(i), Status(i) # 0 \/ command[i] = 2
  PROVE  /\ Status(i) \in Nat /\ Warrant(i, Status(i))
         /\ forwarded[i] # 0 => Status(i) # 0
<1> DEFINE e == exit[Child(i)]
<1>1. /\ Shape /\ Heard(i) /\ Child(i) \in Children(i) /\ e \in Exits
      /\ status[Child(i)] = "exited" /\ forwarded[i] \in Nat
      /\ command[i] = 2 => Child(i) = i + 1
  BY Family DEF IInv, Shape, Exited, Child
<1>2. /\ ExitCode(e) \in Nat
      /\ IF e[1] = "code" THEN ExitCode(e) = e[2] ELSE ExitCode(e) = 128 + Number[e[2]]
      /\ ExitCode(e) = 0 => e = <<"code", 0>>
  <2>1. CASE e \in {"code"} \X Nat
    BY <2>1 DEF ExitCode
  <2>2. CASE e \in {"signal"} \X Signals
    BY <2>2, Numbered DEF ExitCode
  <2> QED
    BY <1>1, <2>1, <2>2 DEF Exits
<1>3. CASE forwarded[i] # 0
  <2>1. PICK s \in heard[i] : forwarded[i] = 128 + Number[s]
    BY <1>1, <1>3 DEF Heard
  <2>2. Status(i) = IF IsCancelled(i) THEN Canceled ELSE forwarded[i]
    BY <1>3 DEF Status
  <2> QED
    BY <1>1, <1>3, <2>1, <2>2 DEF Warrant, Canceled
<1>4. CASE forwarded[i] = 0 /\ ExitCode(e) # 0
  <2>1. Status(i) = IF IsCancelled(i) THEN Canceled ELSE ExitCode(e)
    BY <1>4 DEF Status
  <2> QED
    BY <1>1, <1>2, <1>4, <2>1 DEF Warrant, Canceled
<1>5. CASE forwarded[i] = 0 /\ ExitCode(e) = 0
  <2>1. Status(i) = 0
    BY <1>5 DEF Status
  <2> QED
    BY <1>1, <1>2, <1>5, <2>1 DEF Warrant
<1> QED
  BY <1>1, <1>3, <1>4, <1>5

\* The child has ended, and the next is started or its status passed on.
LEMMA WaitedStep ==
  ASSUME IInv, NEW i \in Supervisors, Waited(i)
  PROVE  IInv'
<1>1. /\ Running(i) /\ pc[i] = "attached" /\ Exited(i) /\ Shape
      /\ command[i] \in {1, 2} /\ \A p \in Children(i) : ~Alive(p)
  BY Childless DEF Waited, At, IInv, Shape
<1>2. CASE Status(i) = 0 /\ command[i] = 1
  <2>1. /\ command' = [command EXCEPT ![i] = 2] /\ pc' = [pc EXCEPT ![i] = "prepare"]
        /\ UNCHANGED <<status, exit, pending, queue, forwarded, result, cancelled, heard>>
    BY <1>2 DEF Waited
  <2>2. Shape'
    BY <1>1, <2>1 DEF Shape, Labels
  <2>3. ASSUME NEW j \in Supervisors PROVE Heard(j)'
    BY <2>1 DEF IInv, Heard
  <2>4. ASSUME NEW j \in Supervisors PROVE Place(j)'
    <3>1. CASE j = i
      <4>1. pc'[i] = "prepare"
        BY <1>1, <2>1 DEF Shape
      <4>2. \A p \in Children(i)' : ~Alive(p)'
        BY <1>1, <2>1 DEF Alive, Children, Compiler
      <4> QED
        BY <3>1, <4>1, <4>2 DEF Place
    <3>2. CASE j # i
      <4>1. Calm
        BY <2>1 DEF Calm, Alive
      <4>2. pc'[j] = pc[j] /\ command'[j] = command[j] /\ result'[j] = result[j]
            /\ forwarded'[j] = forwarded[j]
        BY <1>1, <2>1, <3>2 DEF Shape
      <4> QED
        BY <4>1, <4>2, OthersKept
    <3> QED
      BY <3>1, <3>2
  <2>5. ASSUME NEW j \in Supervisors PROVE Ended(j)'
    <3>1. CASE j = i
      BY <1>1, <2>1, <3>1 DEF Ended, Running
    <3>2. CASE j # i
      BY <1>1, <2>1, <3>2, EndedKept DEF Shape
    <3> QED
      BY <3>1, <3>2
  <2> QED
    BY <2>2, <2>3, <2>4, <2>5 DEF IInv
<1>3. CASE ~(Status(i) = 0 /\ command[i] = 1)
  <2>1. Leave(i, Status(i)) /\ UNCHANGED command
    BY <1>3 DEF Waited
  <2>2. /\ Status(i) \in Nat /\ Warrant(i, Status(i))
        /\ forwarded[i] # 0 => Status(i) # 0
    BY <1>1, <1>3, StatusWarranted
  <2> QED
    BY <1>1, <2>1, <2>2, LeaveStep DEF Waited
<1> QED
  BY <1>2, <1>3

\* What a signal that a supervisor sends, or somebody else, does to the chain,
\* whatever place in the loop the supervisor i goes to with it.
LEMMA DeliveryStep ==
  ASSUME IInv, NEW p \in Processes, NEW s \in Signals, s # "KILL" => s \in Notified,
         NEW q \in [Supervisors -> Notified \cup {None}], Deliver(p, s, q),
         NEW i \in Supervisors,
         \A j \in Supervisors : q[j] \in {queue[j], None},
         forwarded' \in [Supervisors -> Nat],
         \A j \in Supervisors :
           forwarded'[j] # forwarded[j] =>
             pc[j] # "exiting" /\ \E x \in heard[j] : forwarded'[j] = 128 + Number[x],
         \/ pc' = pc
         \/ /\ pc[i] \in {"attached", "terminating"} /\ Running(i) /\ p # i
            /\ IsCancelled(i)
            /\ \E to \in {"terminating", "killing"} : pc' = [pc EXCEPT ![i] = to],
         UNCHANGED <<command, result, cancelled>>
  PROVE  IInv'
<1>1. /\ Shape
      /\ status' \in [Processes -> States] /\ exit' \in [Processes -> Exits]
      /\ pending' \in [Leaves -> SUBSET Notified]
      /\ queue' \in [Supervisors -> Notified \cup {None}]
      /\ heard' \in [Supervisors -> SUBSET Notified]
      /\ \A x \in Processes :
           /\ Alive(x)' => Alive(x)
           /\ status[x] = "exited" => status'[x] = "exited" /\ exit'[x] = exit[x]
      /\ \A j \in Supervisors :
           /\ heard[j] \subseteq heard'[j]
           /\ queue'[j] = q[j] \/ queue'[j] \in heard'[j]
           /\ \/ status'[j] = status[j] /\ exit'[j] = exit[j]
              \/ /\ status'[j] = "exited" /\ exit'[j] = <<"signal", s>>
                 /\ s = "KILL" \/ pc[j] \in {"prepare", "exiting"}
  BY Delivered DEF IInv
<1>2. /\ pc' \in [Supervisors -> Labels]
      /\ \A j \in Supervisors : pc'[j] = pc[j] \/
           /\ pc[j] \notin {"prepare", "exiting"} /\ pc'[j] \in {"terminating", "killing"}
           /\ IsCancelled(j)
  BY <1>1 DEF Shape, Labels
<1>3. Shape'
  BY <1>1, <1>2 DEF Shape
<1>4. ASSUME NEW j \in Supervisors PROVE Heard(j)'
  <2>1. Heard(j) /\ q[j] \in {queue[j], None} /\ heard[j] \subseteq heard'[j]
    BY <1>1 DEF IInv
  <2>2. queue'[j] # None => queue'[j] \in heard'[j]
    BY <1>1, <2>1 DEF Heard
  <2>3. forwarded'[j] # 0 => \E x \in heard'[j] : forwarded'[j] = 128 + Number[x]
    BY <2>1 DEF Heard
  <2> QED
    BY <2>2, <2>3 DEF Heard
<1>5. Calm
  BY <1>1 DEF Calm
<1>6. ASSUME NEW j \in Supervisors PROVE Place(j)'
  <2>1. CASE pc'[j] = pc[j]
    BY <1>5, <2>1, OthersKept
  <2>2. CASE /\ pc[j] \notin {"prepare", "exiting"} /\ pc'[j] \in {"terminating", "killing"}
             /\ IsCancelled(j)
    <3>1. Child(j)' = Child(j) /\ Children(j)' = Children(j) /\ IsCancelled(j)'
      BY <2>2 DEF Child, Children, Compiler, IsCancelled
    <3>2. Children(j) \subseteq Processes /\ Place(j)
      BY <1>1, Family DEF IInv, Shape
    <3>3. \A x \in Children(j) : Alive(x)' => x = Child(j)
      BY <1>1, <3>2 DEF Place
    <3> QED
      BY <2>2, <3>1, <3>3 DEF Place
  <2> QED
    BY <1>2, <2>1, <2>2
<1>7. ASSUME NEW j \in Supervisors PROVE Ended(j)'
  <2>1. CASE pc'[j] = pc[j]
    BY <1>1, <2>1, EndedKept
  <2>2. CASE pc'[j] # pc[j]
    <3>1. Running(j) /\ pc[j] \notin {"prepare", "exiting"}
      BY <1>1, <1>2, <2>2 DEF Shape
    <3>2. \/ status'[j] = "running"
          \/ exit'[j] = <<"signal", "KILL">>
      BY <1>1, <3>1 DEF Running
    <3> QED
      BY <3>2 DEF Ended
  <2> QED
    BY <2>1, <2>2
<1> QED
  BY <1>3, <1>4, <1>6, <1>7 DEF IInv

\* The second case of the select.
LEMMA ForwardStep ==
  ASSUME IInv, NEW i \in Supervisors, Forward(i)
  PROVE  IInv'
<1> DEFINE s == queue[i]
           q == [queue EXCEPT ![i] = None]
<1>1. /\ Shape /\ Heard(i) /\ s \in Notified /\ s \in Signals /\ s \in heard[i] /\ pc[i] = "attached"
      /\ s # "KILL" => s \in Notified
      /\ Child(i) \in Processes
  BY Numbered, Family DEF IInv, Shape, Heard, Forward, At
<1>2. /\ q \in [Supervisors -> Notified \cup {None}]
      /\ \A j \in Supervisors : q[j] \in {queue[j], None}
  BY <1>1 DEF Shape
<1>3. /\ forwarded' = [forwarded EXCEPT ![i] = 128 + Number[s]]
      /\ Deliver(Child(i), s, q) /\ UNCHANGED <<pc, command, result, cancelled>>
  BY DEF Forward
<1>4. 128 + Number[s] \in Nat
  BY <1>1, Numbered
<1> HIDE DEF q, s
<1>5. /\ forwarded' \in [Supervisors -> Nat]
      /\ \A j \in Supervisors :
           forwarded'[j] # forwarded[j] =>
             pc[j] # "exiting" /\ \E x \in heard[j] : forwarded'[j] = 128 + Number[x]
  BY <1>1, <1>3, <1>4 DEF Shape
<1> QED
  BY <1>1, <1>2, <1>3, <1>5, DeliveryStep

\* The third, and the timer.
LEMMA TerminateStep ==
  ASSUME IInv, NEW i \in Supervisors, Terminate(i) \/ Kill(i)
  PROVE  IInv'
<1>1. /\ Shape /\ Running(i) /\ Child(i) \in Processes /\ Child(i) # i
      /\ pc[i] \in {"attached", "terminating"} /\ IsCancelled(i)
  BY Family DEF IInv, Shape, Place, Terminate, Kill, At
<1>2. /\ queue \in [Supervisors -> Notified \cup {None}]
      /\ forwarded' = forwarded /\ forwarded \in [Supervisors -> Nat]
      /\ UNCHANGED <<command, result, cancelled>>
  BY <1>1 DEF Shape, Terminate, Kill
<1>3. CASE Terminate(i)
  <2>1. Deliver(Child(i), "TERM", queue) /\ pc' = [pc EXCEPT ![i] = "terminating"]
    BY <1>3 DEF Terminate
  <2> QED
    BY <1>1, <1>2, <2>1, Numbered, DeliveryStep
<1>4. CASE Kill(i)
  <2>1. Deliver(Child(i), "KILL", queue) /\ pc' = [pc EXCEPT ![i] = "killing"]
    BY <1>4 DEF Kill
  <2> QED
    BY <1>1, <1>2, <2>1, Numbered, DeliveryStep
<1> QED
  BY <1>3, <1>4

\* A signal from outside.
LEMMA SignalStep ==
  ASSUME IInv, Signal
  PROVE  IInv'
<1>1. PICK p \in Processes, s \in Notified : Deliver(p, s, queue)
  BY DEF Signal
<1>2. /\ Shape /\ queue \in [Supervisors -> Notified \cup {None}]
      /\ forwarded' = forwarded /\ forwarded \in [Supervisors -> Nat] /\ pc' = pc
      /\ UNCHANGED <<command, result, cancelled>>
  BY DEF IInv, Shape, Signal
<1>3. 1 \in Supervisors /\ s \in Signals
  BY ConstantsAssumption, Numbered DEF Supervisors
<1> QED
  BY <1>1, <1>2, <1>3, DeliveryStep

\* The child of a cancelled command has ended.
LEMMA WaitedCancelledStep ==
  ASSUME IInv, NEW i \in Supervisors, WaitedCancelled(i)
  PROVE  IInv'
<1>1. Running(i) /\ IsCancelled(i) /\ Exited(i) /\ Leave(i, Canceled)
  BY DEF WaitedCancelled, IInv, Place
<1>2. Warrant(i, Canceled) /\ Canceled \in Nat /\ Canceled # 0
  BY <1>1 DEF Warrant, Canceled
<1>3. \A p \in Children(i) : ~Alive(p)
  BY <1>1, Childless
<1> QED
  BY <1>1, <1>2, <1>3, LeaveStep DEF WaitedCancelled

\* A process dies of its own accord: a supervisor with its result, or a leaf.
LEMMA DieStep ==
  ASSUME IInv, NEW p \in Processes, NEW e \in Exits, Running(p), Die(p, e),
         p \in Supervisors => pc[p] = "exiting" /\ e = <<"code", result[p]>>,
         UNCHANGED <<pending, pc, command, queue, forwarded, result, cancelled, heard>>
  PROVE  IInv'
<1>1. /\ Shape /\ status' = [status EXCEPT ![p] = "exited"]
      /\ exit' = [exit EXCEPT ![p] = e] /\ Supervisors \subseteq Processes
  BY DEF IInv, Die, Processes
<1>2. Shape'
  BY <1>1 DEF Shape, States
<1>3. ASSUME NEW j \in Supervisors PROVE Heard(j)'
  BY DEF IInv, Heard
<1>4. Calm
  <2>1. \A x \in Processes : x # p => status'[x] = status[x] /\ exit'[x] = exit[x]
    BY <1>1 DEF Shape
  <2>2. status[p] = "running" /\ status'[p] = "exited"
    BY <1>1 DEF Running, Shape
  <2> QED
    BY <2>1, <2>2 DEF Calm, Alive
<1>5. ASSUME NEW j \in Supervisors PROVE Place(j)'
  BY <1>4, OthersKept
<1>6. ASSUME NEW j \in Supervisors PROVE Ended(j)'
  <2>1. CASE j = p
    <3>1. exit'[j] = <<"code", result'[j]>> /\ pc'[j] = "exiting"
      BY <1>1, <2>1 DEF Shape
    <3> QED
      BY <3>1 DEF Ended
  <2>2. CASE j # p
    BY <1>1, <2>2, EndedKept DEF Shape
  <2> QED
    BY <2>1, <2>2
<1> QED
  BY <1>2, <1>3, <1>5, <1>6 DEF IInv

\* A leaf that ends, by itself or because of a signal.
LEMMA LeafStep ==
  ASSUME IInv, NEW p \in Leaves, Finish(p) \/ Heed(p)
  PROVE  IInv'
<1>1. Running(p) /\ p \in Processes /\ p \notin Supervisors
  BY ConstantsAssumption DEF Finish, Heed, Processes, Supervisors, Leaves
<1>2. PICK e \in Exits : Die(p, e)
  <2>1. /\ <<"code", 0>> \in Exits /\ <<"code", 1>> \in Exits /\ <<"signal", "KILL">> \in Exits
        /\ \A s \in pending[p] : <<"signal", s>> \in Exits
    BY Numbered DEF Exits, IInv, Shape
  <2>2. CASE Finish(p)
    BY <2>1, <2>2 DEF Finish
  <2>3. CASE Heed(p)
    BY <2>1, <2>3 DEF Heed
  <2> QED
    BY <2>2, <2>3
<1> QED
  BY <1>1, <1>2, DieStep DEF Finish, Heed

\* A supervisor exits with its result.
LEMMA ExitStep ==
  ASSUME IInv, NEW i \in Supervisors, Exit(i)
  PROVE  IInv'
<1>1. Running(i) /\ pc[i] = "exiting" /\ i \in Processes /\ <<"code", result[i]>> \in Exits
  BY DEF Exit, At, Processes, Exits, IInv, Shape
<1> QED
  BY <1>1, DieStep DEF Exit

\* The terminal stops the program; the context is cancelled.
LEMMA OutsideStep ==
  ASSUME IInv, ReadTerminal \/ Cancel \/ UNCHANGED vars
  PROVE  IInv'
<1>1. /\ UNCHANGED <<exit, pending, pc, command, queue, forwarded, result, heard>>
      /\ \/ status' = status
         \/ Running(Program) /\ status' = [status EXCEPT ![Program] = "stopped"]
      /\ cancelled' \in {cancelled, TRUE}
  BY DEF ReadTerminal, Cancel, vars
<1>2. /\ Shape /\ Supervisors \subseteq Processes /\ Program \in Processes
      /\ Program \notin Supervisors
  BY ConstantsAssumption DEF IInv, Processes, Supervisors, Program, Leaves
<1>3. Shape'
  BY <1>1, <1>2 DEF Shape, States
<1>4. \A x \in Processes :
        \/ status'[x] = status[x]
        \/ status[x] = "running" /\ status'[x] = "stopped" /\ x \notin Supervisors
  BY <1>1, <1>2 DEF Shape, Running
<1>5. Calm
  <2>1. cancelled => cancelled'
    BY DEF ReadTerminal, Cancel, vars
  <2>2. \A x \in Processes :
          /\ Alive(x)' => Alive(x)
          /\ status[x] = "exited" => status'[x] = "exited" /\ exit'[x] = exit[x]
    BY <1>1, <1>4 DEF Alive
  <2> QED
    BY <1>1, <2>1, <2>2 DEF Calm
<1>6. ASSUME NEW j \in Supervisors PROVE Heard(j)' /\ Place(j)' /\ Ended(j)'
  <2>1. Heard(j)'
    BY <1>1 DEF IInv, Heard
  <2>2. Place(j)'
    BY <1>1, <1>5, OthersKept
  <2>3. Ended(j)'
    BY <1>1, <1>2, <1>4, EndedKept
  <2> QED
    BY <2>1, <2>2, <2>3
<1> QED
  BY <1>3, <1>6 DEF IInv
-----------------------------------------------------------------------------
\* The invariant holds in every state of a chain (process_unix.go).
THEOREM InductiveInvariant == Spec => []IInv
<1>1. IInv /\ [Next]_vars => IInv'
  <2> SUFFICES ASSUME IInv, [Next]_vars PROVE IInv'
    OBVIOUS
  <2>1. ASSUME NEW i \in Supervisors, Supervise(i) PROVE IInv'
    BY <2>1, StartStep, StartRefusedStep, WaitedStep, ForwardStep, TerminateStep,
       WaitedCancelledStep, ExitStep DEF Supervise
  <2>2. ASSUME NEW p \in Leaves, Finish(p) \/ Heed(p) PROVE IInv'
    BY <2>2, LeafStep
  <2>3. CASE Signal
    BY <2>3, SignalStep
  <2>4. CASE ReadTerminal \/ Cancel \/ UNCHANGED vars
    BY <2>4, OutsideStep
  <2> QED
    BY <2>1, <2>2, <2>3, <2>4 DEF Next
<1> QED
  BY InitIInv, <1>1, PTL DEF Spec

\* However long the chain, nobody in it runs on without the process that waits
\* for it, unless that one was killed (runAttached waits on every path).
THEOREM NoOrphans == Spec => []NoneLeftBehind
<1>1. IInv => NoneLeftBehind
  BY DEF IInv, Place, Ended, NoneLeftBehind
<1> QED
  BY <1>1, InductiveInvariant, PTL

\* Success is passed up only where there was success, and every other status
\* has a cause in the chain (attachedCommandError, processExitCode).
THEOREM StatusHonest == Spec => []StatusPassesThrough
<1>1. IInv => StatusPassesThrough
  <2> SUFFICES ASSUME IInv, NEW i \in Supervisors, status[i] = "exited", exit[i][1] = "code"
               PROVE  Warrant(i, exit[i][2])
    BY DEF StatusPassesThrough, Warrant
  <2>1. exit[i] = <<"code", result[i]>> /\ Warrant(i, result[i])
    BY DEF IInv, Place, Ended
  <2> QED
    BY <2>1
<1> QED
  BY <1>1, InductiveInvariant, PTL

\* A command that forwarded a signal does not report success
\* (forwardedSignalError).
THEOREM InterruptsReported == Spec => []InterruptNotSuccess
<1>1. IInv => InterruptNotSuccess
  BY DEF IInv, Place, Ended, InterruptNotSuccess
<1> QED
  BY <1>1, InductiveInvariant, PTL
=============================================================================
