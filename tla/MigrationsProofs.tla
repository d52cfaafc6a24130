-------------------------- MODULE MigrationsProofs --------------------------
(* Proofs about Migrations, for any catalog, any number of processes, and    *)
(* any number of failures and deaths. The invariant IInv says that whoever   *)
(* is at work has the lock, so that what was planned stays what is to be     *)
(* done, and the records grow and shrink at the top only.                    *)
EXTENDS Migrations, Sequences, FiniteSetTheorems, TLAPS

\* Every step keeps the types.
LEMMA TypeStep == TypeOK /\ [Next]_vars => TypeOK'
<1> SUFFICES ASSUME TypeOK, [Next]_vars PROVE TypeOK'
  OBVIOUS
<1> USE ConstantsAssumption DEF TypeOK, Phases, Goto, Fault, store
<1>1. CASE UNCHANGED vars
  BY <1>1 DEF vars
<1>2. CASE RemoveStaleLock
  BY <1>2 DEF RemoveStaleLock
<1>3. ASSUME NEW r \in Runners, Begin(r) PROVE TypeOK'
  BY <1>3 DEF Begin
<1>4. ASSUME NEW r \in Runners, Unconfirmed(r) PROVE TypeOK'
  BY <1>4 DEF Unconfirmed
<1>5. ASSUME NEW r \in Runners, Crash(r) PROVE TypeOK'
  BY <1>5 DEF Crash
<1>6. ASSUME NEW r \in Runners, Step(r) PROVE TypeOK'
  <2>1. CASE Lock(r) \/ LockRefused(r) \/ LockFails(r)
    BY <2>1 DEF Lock, LockRefused, LockFails
  <2>2. CASE Plan(r)
    <3> DEFINE Work(g) == IF command[r] = "apply" THEN Catalog \ Recorded
                          ELSE {m \in Recorded : group[m] = g}
               Target(g) == IF Work(g) = {} THEN "unlock" ELSE "run"
    <3>1. PICK g \in Groups :
            /\ pc' = [pc EXCEPT ![r] = Target(g)]
            /\ todo' = [todo EXCEPT ![r] = Work(g)]
            /\ number' = [number EXCEPT ![r] = g + 1]
            /\ UNCHANGED <<store, lock, command, faults, crashes, torn,
                           cutOff>>
      BY <2>2 DEF Plan, NextGroup
    <3>2. g \in Nat /\ Work(g) \in SUBSET Catalog /\ Target(g) \in Phases
      BY DEF Groups, Recorded
    <3> HIDE DEF Work, Target
    <3> QED
      BY <3>1, <3>2
  <2>3. CASE PlanFails(r)
    BY <2>3 DEF PlanFails
  <2>4. CASE Run(r) \/ RunRejected(r)
    BY <2>4 DEF Run, RunRejected, Executed
  <2>5. CASE RunFails(r)
    BY <2>5 DEF RunFails, Executed
  <2>6. CASE Record(r)
    BY <2>6 DEF Record, Booked
  <2>7. CASE RecordFails(r)
    BY <2>7 DEF RecordFails, Booked
  <2>8. CASE Unlock(r) \/ UnlockFails(r)
    BY <2>8 DEF Unlock, UnlockFails
  <2> QED
    BY <1>6, <2>1, <2>2, <2>3, <2>4, <2>5, <2>6, <2>7, <2>8 DEF Step
<1> QED
  BY <1>1, <1>2, <1>3, <1>4, <1>5, <1>6 DEF Next, Quiet

\* Where a step leaves its process, and what it does to the lock.
LEMMA OwnersStep ==
  TypeOK /\ OwnersOnly /\ LeftLockedOnlyWhenCutOff /\ [Next]_vars
    => OwnersOnly' /\ LeftLockedOnlyWhenCutOff'
<1> SUFFICES ASSUME TypeOK, OwnersOnly, LeftLockedOnlyWhenCutOff, [Next]_vars
             PROVE  OwnersOnly' /\ LeftLockedOnlyWhenCutOff'
  OBVIOUS
<1> USE ConstantsAssumption
    DEF TypeOK, OwnersOnly, LeftLockedOnlyWhenCutOff, Critical, Goto
<1>1. CASE UNCHANGED vars
  BY <1>1 DEF vars
<1>2. CASE RemoveStaleLock
  BY <1>2 DEF RemoveStaleLock
<1>3. ASSUME NEW r \in Runners, Begin(r) \/ Unconfirmed(r)
      PROVE  OwnersOnly' /\ LeftLockedOnlyWhenCutOff'
  BY <1>3 DEF Begin, Unconfirmed
<1>4. ASSUME NEW r \in Runners, Crash(r)
      PROVE  OwnersOnly' /\ LeftLockedOnlyWhenCutOff'
  BY <1>4 DEF Crash
<1>5. ASSUME NEW r \in Runners, Step(r)
      PROVE  OwnersOnly' /\ LeftLockedOnlyWhenCutOff'
  <2>1. CASE Lock(r)
    BY <2>1 DEF Lock
  <2>2. CASE LockRefused(r)
    BY <2>2 DEF LockRefused
  <2>3. CASE LockFails(r)
    BY <2>3 DEF LockFails
  <2>4. CASE \E p, q \in {"plan", "run", "record", "unlock"} :
               Goto(r, p, q) /\ UNCHANGED <<lock, cutOff>>
    BY <2>4
  <2>5. Plan(r) \/ PlanFails(r) \/ Run(r) \/ RunRejected(r) \/ RunFails(r)
          \/ Record(r) \/ RecordFails(r)
        => \E p, q \in {"plan", "run", "record", "unlock"} :
             Goto(r, p, q) /\ UNCHANGED <<lock, cutOff>>
    BY DEF Plan, PlanFails, Run, RunRejected, RunFails, Record, RecordFails
  <2>6. CASE Unlock(r) \/ UnlockFails(r)
    BY <2>6 DEF Unlock, UnlockFails
  <2> QED
    BY <1>5, <2>1, <2>2, <2>3, <2>4, <2>5, <2>6 DEF Step
<1> QED
  BY <1>1, <1>2, <1>3, <1>4, <1>5 DEF Next, Quiet

\* Whoever is at work is alone.
LEMMA Alone ==
  ASSUME OwnersOnly, NEW r \in Runners, pc[r] \in Critical
  PROVE  \A q \in Runners : pc[q] \in Critical => q = r
BY DEF OwnersOnly

\* The migration a process is at, if there is one, is the only one.
LEMMA CurrentUnique ==
  ASSUME TypeOK, NEW r \in Runners, NEW m \in Catalog, NEW n \in Catalog,
         Current(r, m), Current(r, n)
  PROVE  m = n
BY ConstantsAssumption DEF Current, Follows, Catalog, TypeOK

\* Bookkeeping and schema: only Run, Record and their failures touch either.
LEMMA AgreeStep ==
  IInv /\ [Next]_vars => BookkeepingAgrees'
<1> SUFFICES ASSUME IInv, [Next]_vars PROVE BookkeepingAgrees'
  OBVIOUS
<1> USE ConstantsAssumption DEF IInv, TypeOK, BookkeepingAgrees
<1>1. CASE UNCHANGED vars
  BY <1>1 DEF vars, store, Recorded, Current
<1>2. ASSUME UNCHANGED <<store, torn, command, todo>>,
             \A q \in Runners : pc[q] = "record" => pc'[q] = "record"
      PROVE  BookkeepingAgrees'
  BY <1>2 DEF store, Recorded, Current
<1>3. CASE RemoveStaleLock
  BY <1>2, <1>3 DEF RemoveStaleLock
<1>4. ASSUME NEW r \in Runners, Begin(r) \/ Unconfirmed(r)
      PROVE  BookkeepingAgrees'
  BY <1>4 DEF Begin, Unconfirmed, Goto, store, Recorded, Current
<1>5. ASSUME NEW r \in Runners, Crash(r) PROVE BookkeepingAgrees'
  BY <1>5 DEF Crash, store, Recorded, Current
<1>6. ASSUME NEW r \in Runners, Step(r) PROVE BookkeepingAgrees'
  <2>1. CASE Lock(r) \/ LockRefused(r) \/ LockFails(r)
    BY <1>2, <2>1 DEF Lock, LockRefused, LockFails, Goto
  <2>2. CASE Plan(r)
    BY <2>2 DEF Plan, Goto, store, Recorded, Current
  <2>3. CASE PlanFails(r) \/ RunRejected(r)
    BY <1>2, <2>3 DEF PlanFails, RunRejected, Goto
  <2>4. CASE Unlock(r) \/ UnlockFails(r)
    BY <1>2, <2>4 DEF Unlock, UnlockFails, Goto
  <2>5. CASE Run(r)
    <3>1. PICK m \in Catalog : /\ Current(r, m)
                               /\ schema' = Executed(r, m)
      BY <2>5 DEF Run
    <3>2. pc[r] = "run" /\ pc' = [pc EXCEPT ![r] = "record"]
          /\ UNCHANGED <<group, command, todo, torn>>
      BY <2>5 DEF Run, Goto
    <3>3. \A q \in Runners : pc[q] # "record"
      BY <3>2, Alone DEF Critical
    <3>4. pc'[r] = "record" /\ Current(r, m)'
      BY <3>1, <3>2 DEF Current
    <3>5. \A n \in Catalog : n # m => (n \in schema' <=> n \in schema)
      BY <3>1 DEF Executed
    <3> QED
      BY <3>2, <3>3, <3>4, <3>5 DEF Recorded
  <2>6. CASE RunFails(r)
    <3>1. PICK m \in Catalog :
            \/ UNCHANGED <<schema, torn>>
            \/ schema' = Executed(r, m) /\ torn' = torn \cup {m}
      BY <2>6 DEF RunFails
    <3>2. pc[r] = "run" /\ pc' = [pc EXCEPT ![r] = "unlock"]
          /\ UNCHANGED <<group, command, todo>>
      BY <2>6 DEF RunFails, Goto
    <3>3. \A n \in Catalog : n # m => (n \in schema' <=> n \in schema)
      BY <3>1 DEF Executed
    <3> QED
      BY <3>1, <3>2, <3>3 DEF Recorded, Current
  <2>7. CASE Record(r) \/ RecordFails(r)
    <3>1. PICK m \in Catalog :
            /\ Current(r, m)
            /\ \/ group' = Booked(r, m) /\ torn' = torn \ {m}
               \/ group' = group /\ torn' = torn \cup {m}
      BY <2>7 DEF Record, RecordFails
    <3>2. /\ pc[r] = "record" /\ UNCHANGED <<schema, command>>
          /\ \A q \in Runners \ {r} : pc'[q] = pc[q] /\ todo'[q] = todo[q]
      BY <2>7 DEF Record, RecordFails, Goto
    <3>3. \A q \in Runners \ {r} : pc[q] # "record"
      BY <3>2, Alone DEF Critical
    <3>4. \A n \in Catalog : n # m => (n \in Recorded' <=> n \in Recorded)
                                    /\ (n \in torn' <=> n \in torn)
      BY <3>1 DEF Recorded, Booked
    <3>5. \A n \in Catalog : n # m => (n \in schema <=> n \in Recorded)
                                    \/ n \in torn
      BY <3>1, <3>3, CurrentUnique
    <3>6. (m \in schema' <=> m \in Recorded') \/ m \in torn'
      <4>1. Executed(r, m) = schema /\ number[r] # 0
        BY <3>1, <3>2 DEF PlanHolds
      <4> QED
        BY <3>1, <3>2, <4>1 DEF Executed, Booked, Recorded
    <3> QED
      BY <3>2, <3>4, <3>5, <3>6
  <2> QED
    BY <1>6, <2>1, <2>2, <2>3, <2>4, <2>5, <2>6, <2>7 DEF Step
<1> QED
  BY <1>1, <1>3, <1>4, <1>5, <1>6 DEF Next, Quiet

\* The migration a process is at is the one on top of the records, or the
\* one above it.
LEMMA Frontier ==
  ASSUME IInv, NEW r \in Runners, pc[r] \in {"run", "record"},
         NEW m \in Catalog, Current(r, m),
         NEW k \in 0..Last, Recorded = 1..k,
         \A i, j \in 1..k : i <= j => group[i] <= group[j]
  PROVE  m = IF command[r] = "apply" THEN k + 1 ELSE k
<1> USE ConstantsAssumption DEF IInv, TypeOK, Catalog
<1>1. PlanHolds(r) /\ m \in todo[r]
  BY DEF Current
<1>2. CASE command[r] = "apply"
  <2>1. k + 1 \in Catalog /\ k + 1 \notin Recorded /\ m >= k + 1
    BY <1>1, <1>2 DEF PlanHolds
  <2>2. k + 1 \in todo[r]
    BY <1>1, <1>2, <2>1 DEF PlanHolds
  <2>3. m <= k + 1
    BY <1>2, <2>2 DEF Current, Follows
  <2> QED
    BY <1>2, <2>1, <2>3
<1>3. CASE command[r] # "apply"
  <2>1. m \in 1..k /\ group[m] + 1 = number[r] /\ k \in Catalog
    BY <1>1, <1>3 DEF PlanHolds
  <2>2. group[m] <= group[k] /\ group[k] < number[r]
    BY <1>1, <1>3, <2>1 DEF PlanHolds
  <2>3. k \in todo[r]
    BY <1>1, <1>3, <2>1, <2>2 DEF PlanHolds
  <2>4. k <= m
    BY <1>3, <2>3 DEF Current, Follows
  <2> QED
    BY <1>3, <2>1, <2>4
<1> QED
  BY <1>2, <1>3

\* The bookkeeping table changes when a migration is recorded, and only then.
LEMMA OnlyRecordingChangesRecords ==
  ASSUME [Next]_vars
  PROVE  \/ UNCHANGED group
         \/ \E r \in Runners, m \in Catalog :
              pc[r] = "record" /\ Current(r, m) /\ group' = Booked(r, m)
<1> USE DEF store
<1>1. ASSUME NEW r \in Runners, Step(r)
      PROVE  \/ UNCHANGED group
             \/ \E m \in Catalog :
                  pc[r] = "record" /\ Current(r, m) /\ group' = Booked(r, m)
  <2>1. CASE Lock(r) \/ LockRefused(r) \/ LockFails(r) \/ Plan(r)
               \/ PlanFails(r)
    BY <2>1 DEF Lock, LockRefused, LockFails, Plan, PlanFails
  <2>2. CASE Run(r) \/ RunRejected(r) \/ RunFails(r)
    BY <2>2 DEF Run, RunRejected, RunFails
  <2>3. CASE Record(r) \/ RecordFails(r)
    BY <2>3 DEF Record, RecordFails, Goto
  <2>4. CASE Unlock(r) \/ UnlockFails(r)
    BY <2>4 DEF Unlock, UnlockFails
  <2> QED
    BY <1>1, <2>1, <2>2, <2>3, <2>4 DEF Step
<1>2. ASSUME NEW r \in Runners, Begin(r) \/ Unconfirmed(r) \/ Crash(r)
      PROVE  UNCHANGED group
  BY <1>2 DEF Begin, Unconfirmed, Crash
<1>3. RemoveStaleLock \/ UNCHANGED vars => UNCHANGED group
  BY DEF RemoveStaleLock, vars
<1> QED
  BY <1>1, <1>2, <1>3 DEF Next, Quiet

\* Recording grows or shrinks the stack of records at its top.
LEMMA StackGrowsAtTheTop ==
  ASSUME IInv, NEW r \in Runners, NEW m \in Catalog,
         pc[r] = "record", Current(r, m), group' = Booked(r, m),
         NEW k \in 0..Last, Recorded = 1..k,
         \A i, j \in 1..k : i <= j => group[i] <= group[j]
  PROVE  \/ /\ command[r] = "apply" /\ k + 1 <= Last
            /\ Recorded' = 1..(k + 1)
            /\ group' = [group EXCEPT ![k + 1] = number[r]]
            /\ number[r] \in Nat \ {0}
            /\ \A i \in 1..k : group[i] <= number[r]
            /\ IF k = 0 THEN number[r] = 1 ELSE group[k] + 1 >= number[r]
         \/ /\ command[r] # "apply" /\ k > 0
            /\ Recorded' = 1..(k - 1)
            /\ group' = [group EXCEPT ![k] = 0]
<1> USE ConstantsAssumption DEF IInv, TypeOK, Catalog, Booked
<1>1. m = IF command[r] = "apply" THEN k + 1 ELSE k
  BY Frontier
<1>2. PlanHolds(r)
  OBVIOUS
<1>3. CASE command[r] = "apply"
  <2>1. number[r] \in Nat \ {0} /\ \A i \in 1..k : group[i] <= number[r]
    BY <1>2, <1>3 DEF PlanHolds
  <2>2. IF k = 0 THEN number[r] = 1 ELSE group[k] + 1 >= number[r]
    <3>1. \A i \in Catalog : group[i] = 0 \/ i \in 1..k
      BY DEF Recorded
    <3>2. number[r] = 1 \/ \E i \in Catalog : group[i] + 1 >= number[r]
      BY <1>2 DEF PlanHolds
    <3>3. CASE number[r] = 1
      BY <3>3
    <3>4. ASSUME number[r] # 1, NEW i \in Catalog, group[i] + 1 >= number[r]
          PROVE  k # 0 /\ group[k] + 1 >= number[r]
      <4>1. i \in 1..k
        BY <2>1, <3>1, <3>4
      <4>2. k # 0 /\ k \in 1..k /\ group[i] <= group[k]
        BY <4>1
      <4>3. group[i] \in Nat /\ group[k] \in Nat /\ number[r] \in Nat
        BY <2>1, <4>1, <4>2
      <4> QED
        BY <3>4, <4>2, <4>3
    <3> QED
      BY <3>2, <3>3, <3>4
  <2>3. group' = [group EXCEPT ![k + 1] = number[r]] /\ k + 1 <= Last
    BY <1>1, <1>3
  <2>4. Recorded' = 1..(k + 1)
    BY <2>1, <2>3 DEF Recorded
  <2> QED
    BY <1>3, <2>1, <2>2, <2>3, <2>4
<1>4. CASE command[r] # "apply"
  <2>1. group' = [group EXCEPT ![k] = 0] /\ k > 0
    BY <1>1, <1>4
  <2>2. Recorded' = 1..(k - 1)
    BY <2>1 DEF Recorded
  <2> QED
    BY <1>4, <2>1, <2>2
<1> QED
  BY <1>3, <1>4

\* The records stay a stack of groups.
LEMMA StackStep == IInv /\ [Next]_vars => RecordsAreAStack'
<1> SUFFICES ASSUME IInv, [Next]_vars PROVE RecordsAreAStack'
  OBVIOUS
<1> USE ConstantsAssumption DEF RecordsAreAStack
<1>1. PICK k \in 0..Last :
        /\ Recorded = 1..k
        /\ \A i, j \in 1..k : i <= j => group[i] <= group[j]
  BY DEF IInv
<1>2. CASE UNCHANGED group
  BY <1>1, <1>2 DEF Recorded
<1>3. ASSUME NEW r \in Runners, NEW m \in Catalog,
             pc[r] = "record", Current(r, m), group' = Booked(r, m)
      PROVE  RecordsAreAStack'
  <2> USE DEF IInv, TypeOK, Catalog
  <2>1. CASE /\ command[r] = "apply" /\ k + 1 <= Last
             /\ Recorded' = 1..(k + 1)
             /\ group' = [group EXCEPT ![k + 1] = number[r]]
             /\ \A i \in 1..k : group[i] <= number[r]
    <3>1. \A i, j \in 1..(k + 1) : i <= j => group'[i] <= group'[j]
      BY <1>1, <2>1
    <3> QED
      BY <2>1, <3>1
  <2>2. CASE /\ k > 0 /\ Recorded' = 1..(k - 1)
             /\ group' = [group EXCEPT ![k] = 0]
    <3>1. \A i, j \in 1..(k - 1) : i <= j => group'[i] <= group'[j]
      BY <1>1, <2>2
    <3>2. k - 1 \in 0..Last
      BY <2>2
    <3> QED
      BY <2>2, <3>1, <3>2
  <2> QED
    BY <1>1, <1>3, <2>1, <2>2, StackGrowsAtTheTop
<1> QED
  BY <1>2, <1>3, OnlyRecordingChangesRecords

\* What is left of a plan is what it would be if it were made again.
LEMMA PlanStep ==
  ASSUME IInv, [Next]_vars, NEW r \in Runners, pc'[r] \in {"run", "record"}
  PROVE  PlanHolds(r)'
<1> USE ConstantsAssumption DEF IInv, TypeOK, store, Goto
<1>1. ASSUME UNCHANGED <<schema, group>>, pc'[r] = pc[r],
             command'[r] = command[r], todo'[r] = todo[r],
             number'[r] = number[r]
      PROVE  PlanHolds(r)'
  BY <1>1 DEF PlanHolds, Recorded, Current, Executed
<1>2. CASE UNCHANGED vars
  BY <1>1, <1>2 DEF vars
<1>3. CASE RemoveStaleLock
  BY <1>1, <1>3 DEF RemoveStaleLock
<1>4. ASSUME NEW q \in Runners, Begin(q) \/ Unconfirmed(q) \/ Crash(q)
      PROVE  PlanHolds(r)'
  BY <1>1, <1>4 DEF Begin, Unconfirmed, Crash
<1>5. ASSUME NEW q \in Runners, q # r, Step(q) PROVE PlanHolds(r)'
  <2>1. pc'[r] = pc[r] /\ pc[q] \notin Critical
    <3>1. pc'[r] = pc[r]
      BY <1>5 DEF Step, Lock, LockRefused, LockFails, Plan, PlanFails, Run,
                  RunRejected, RunFails, Record, RecordFails, Unlock,
                  UnlockFails
    <3> QED
      BY <1>5, <3>1, Alone DEF Critical
  <2>2. Lock(q) \/ LockRefused(q) \/ LockFails(q)
    BY <1>5, <2>1 DEF Critical, Step, Plan, PlanFails, Run, RunRejected,
                      RunFails, Record, RecordFails, Unlock, UnlockFails
  <2> QED
    BY <1>1, <2>1, <2>2 DEF Lock, LockRefused, LockFails
<1>6. CASE Step(r)
  <2>1. Plan(r) \/ Run(r) \/ Record(r)
    BY <1>6 DEF Step, Lock, LockRefused, LockFails, PlanFails, RunRejected,
                RunFails, RecordFails, Unlock, UnlockFails
  <2>2. CASE Plan(r)
    <3> DEFINE Work(g) == IF command[r] = "apply" THEN Catalog \ Recorded
                          ELSE {m \in Recorded : group[m] = g}
    <3>1. PICK g \in Groups :
            /\ LastGroup(g)
            /\ pc' = [pc EXCEPT ![r] =
                        IF Work(g) = {} THEN "unlock" ELSE "run"]
            /\ todo' = [todo EXCEPT ![r] = Work(g)]
            /\ number' = [number EXCEPT ![r] = g + 1]
            /\ UNCHANGED <<store, command>>
      BY <2>2 DEF Plan, NextGroup
    <3>2. /\ pc'[r] = "run" /\ todo'[r] = Work(g) /\ Work(g) # {}
          /\ number'[r] = g + 1 /\ g \in Nat
      BY <3>1 DEF Groups
    <3>3. Recorded' = Recorded
      BY <3>1 DEF Recorded
    <3>4. \A m \in Catalog : group[m] <= g
      BY <3>1 DEF LastGroup
    <3>5. g + 1 = 1 \/ \E m \in Catalog : group[m] + 1 >= g + 1
      BY <3>1, <3>2 DEF LastGroup
    <3>6. ASSUME NEW m \in Catalog
          PROVE  IF command[r] = "apply"
                 THEN m \in Work(g) <=> m \notin Recorded
                 ELSE m \in Work(g) <=> m \in Recorded
                                        /\ group[m] + 1 = g + 1
      BY <3>2
    <3> HIDE DEF Work
    <3> QED
      BY <3>1, <3>2, <3>3, <3>4, <3>5, <3>6 DEF PlanHolds
  <2>3. CASE Run(r)
    <3>1. PICK m \in Catalog : Current(r, m) /\ schema' = Executed(r, m)
      BY <2>3 DEF Run
    <3>2. pc[r] = "run" /\ UNCHANGED <<group, command, todo, number>>
      BY <2>3 DEF Run
    <3>3. \A n \in Catalog : Current(r, n)' => n = m
      BY <3>1, <3>2, CurrentUnique DEF Current
    <3>4. Executed(r, m)' = schema'
      BY <3>1, <3>2 DEF Executed
    <3> QED
      BY <3>2, <3>3, <3>4 DEF PlanHolds, Recorded
  <2>4. CASE Record(r)
    <3>1. PICK m \in Catalog :
            /\ Current(r, m) /\ pc[r] = "record"
            /\ pc' = [pc EXCEPT ![r] =
                        IF todo[r] = {m} THEN "unlock" ELSE "run"]
            /\ group' = Booked(r, m)
            /\ todo' = [todo EXCEPT ![r] = @ \ {m}]
            /\ UNCHANGED <<schema, command, number>>
      BY <2>4 DEF Record
    <3>2. todo'[r] = todo[r] \ {m} /\ todo'[r] # {} /\ pc'[r] = "run"
      BY <3>1 DEF Current
    <3>3. PlanHolds(r)
      BY <3>1
    <3>4. number[r] \in Nat \ {0}
      BY <3>3 DEF PlanHolds
    <3>5. CASE command[r] = "apply"
      <4>1. group' = [group EXCEPT ![m] = number[r]]
        BY <3>1, <3>5 DEF Booked
      <4>2. Recorded' = Recorded \cup {m}
        BY <3>4, <4>1 DEF Recorded
      <4>3. group'[m] + 1 >= number'[r]
        BY <3>1, <3>4, <4>1
      <4>4. \A n \in Catalog : group'[n] <= number'[r]
        BY <3>1, <3>3, <3>5, <4>1 DEF PlanHolds
      <4> QED
        BY <3>1, <3>2, <3>3, <3>4, <3>5, <4>2, <4>3, <4>4 DEF PlanHolds
    <3>6. CASE command[r] # "apply"
      <4>1. group' = [group EXCEPT ![m] = 0]
        BY <3>1, <3>6 DEF Booked
      <4>2. Recorded' = Recorded \ {m}
        BY <4>1 DEF Recorded
      <4>3. \A n \in Catalog : n \in todo'[r] <=>
              n \in Recorded' /\ group'[n] + 1 = number'[r]
        BY <3>1, <3>2, <3>3, <3>6, <4>1, <4>2 DEF PlanHolds
      <4>4. \A n \in Catalog : group'[n] < number'[r]
        BY <3>1, <3>3, <3>4, <3>6, <4>1 DEF PlanHolds
      <4>5. PICK n \in Catalog : n \in todo'[r]
        BY <3>2
      <4>6. group'[n] + 1 >= number'[r]
        BY <3>1, <3>4, <4>3, <4>5
      <4> QED
        BY <3>1, <3>2, <3>4, <3>6, <4>3, <4>4, <4>6 DEF PlanHolds
    <3> QED
      BY <3>5, <3>6
  <2> QED
    BY <2>1, <2>2, <2>3, <2>4
<1> QED
  BY <1>2, <1>3, <1>4, <1>5, <1>6 DEF Next, Quiet
-----------------------------------------------------------------------------
\* An empty database satisfies the invariant.
LEMMA InitIInv == Init => IInv
<1> SUFFICES ASSUME Init PROVE IInv
  OBVIOUS
<1> USE ConstantsAssumption DEF Init
<1>1. TypeOK /\ OwnersOnly /\ LeftLockedOnlyWhenCutOff
  BY DEF TypeOK, OwnersOnly, LeftLockedOnlyWhenCutOff, Critical, Phases
<1>2. Recorded = {}
  BY DEF Recorded
<1>3. RecordsAreAStack
  <2>1. 0 \in 0..Last /\ 1..0 = {}
    OBVIOUS
  <2> QED
    BY <1>2, <2>1 DEF RecordsAreAStack
<1>4. BookkeepingAgrees
  BY <1>2 DEF BookkeepingAgrees
<1> QED
  BY <1>1, <1>3, <1>4 DEF IInv

\* The inductive invariant, for every catalog and any number of processes.
THEOREM InductiveInvariant == Spec => []IInv
<1>1. IInv /\ [Next]_vars => IInv'
  <2> SUFFICES ASSUME IInv, [Next]_vars PROVE IInv'
    OBVIOUS
  <2>1. TypeOK' /\ OwnersOnly' /\ LeftLockedOnlyWhenCutOff'
    BY TypeStep, OwnersStep DEF IInv
  <2>2. RecordsAreAStack' /\ BookkeepingAgrees'
    BY StackStep, AgreeStep
  <2>3. \A r \in Runners : pc'[r] \in {"run", "record"} => PlanHolds(r)'
    BY PlanStep
  <2> QED
    BY <2>1, <2>2, <2>3 DEF IInv
<1> QED
  BY <1>1, InitIInv, PTL DEF Spec

\* Type correctness.
THEOREM TypeCorrectness == Spec => []TypeOK
BY InductiveInvariant, PTL DEF IInv

\* No two processes are between taking the lock and releasing it: a process
\* that is refused releases nobody's lock, a dead one's is removed by hand.
THEOREM MutualExclusion == Spec => []LockExclusive
<1>1. IInv => LockExclusive
  BY DEF IInv, OwnersOnly, LockExclusive
<1> QED
  BY <1>1, InductiveInvariant, PTL

\* Bookkeeping and schema disagree on what is being recorded, and on what a
\* failure or a death tore apart.
THEOREM BookkeepingSound == Spec => []BookkeepingAgrees
BY InductiveInvariant, PTL DEF IInv

\* The deferred unlock runs on every path of Apply and Rollback.
THEOREM UnlockedOnEveryPath == Spec => []LeftLockedOnlyWhenCutOff
BY InductiveInvariant, PTL DEF IInv

\* No migration is applied over its own effect or rolled back without it,
\* unless it was torn.
THEOREM NoMigrationTwice == Spec => []RunsOnce
<1>1. IInv => RunsOnce
  <2> SUFFICES ASSUME IInv, NEW r \in Runners, NEW m \in Catalog,
                      pc[r] = "run", Current(r, m), m \notin torn
               PROVE  Executed(r, m) # schema
    BY DEF RunsOnce
  <2> USE DEF IInv, TypeOK
  <2>1. \A q \in Runners : pc[q] # "record"
    BY Alone DEF Critical
  <2>2. m \in schema <=> m \in Recorded
    BY <2>1 DEF BookkeepingAgrees
  <2>3. IF command[r] = "apply" THEN m \notin Recorded ELSE m \in Recorded
    BY DEF PlanHolds, Current
  <2> QED
    BY <2>2, <2>3 DEF Executed
<1> QED
  BY <1>1, InductiveInvariant, PTL
-----------------------------------------------------------------------------
(* The bookkeeping implements MigrationHistory.                              *)

\* The history that a stack of k records stands for.
HistoryOf(k) == [m \in 1..k |-> group[m]]

\* The first k migrations are k in number.
LEMMA HistoryLength ==
  ASSUME NEW k \in Nat, Recorded = 1..k
  PROVE  Cardinality(Recorded) = k
<1>1. Cardinality(1..k) = IF 1 > k THEN 0 ELSE k - 1 + 1
  BY FS_Interval
<1> QED
  BY <1>1

\* Sequences of the groups g[1], ..., g[k].
LEMMA PushedOnTop ==
  ASSUME NEW k \in Nat, NEW g \in [1..k -> Nat], NEW f \in [1..k + 1 -> Nat],
         \A i \in 1..k : f[i] = g[i]
  PROVE  f = Append(g, f[k + 1])
<1> g \in Seq(Nat) /\ Len(g) = k
  OBVIOUS
<1> QED
  OBVIOUS

\* The same for a record that is removed.
LEMMA PoppedFromTop ==
  ASSUME NEW k \in Nat \ {0}, NEW g \in [1..k -> Nat],
         NEW f \in [1..k - 1 -> Nat], \A i \in 1..k - 1 : f[i] = g[i]
  PROVE  f = SubSeq(g, 1, Len(g) - 1)
<1> g \in Seq(Nat) /\ Len(g) = k
  OBVIOUS
<1> QED
  OBVIOUS

\* A step of the runner adds one record on top, removes the top one, or
\* leaves the records alone.
THEOREM RefinesHistory == Spec => HistoryIsAStack
<1> DEFINE h == [m \in 1..Cardinality(Recorded) |-> group[m]]
<1>1. Init => History!Init
  <2> SUFFICES ASSUME Init PROVE h = <<>>
    BY DEF History!Init
  <2>1. Recorded = 1..0
    BY ConstantsAssumption DEF Init, Recorded
  <2>2. Cardinality(Recorded) = 0
    BY <2>1, HistoryLength
  <2> QED
    BY <2>2
<1>2. IInv /\ [Next]_vars => [History!Record \/ History!Undo]_h
  <2> SUFFICES ASSUME IInv, [Next]_vars
               PROVE  [History!Record \/ History!Undo]_h
    OBVIOUS
  <2> USE ConstantsAssumption DEF IInv, TypeOK, Catalog
  <2>1. PICK k \in 0..Last :
          /\ Recorded = 1..k
          /\ \A i, j \in 1..k : i <= j => group[i] <= group[j]
    BY DEF RecordsAreAStack
  <2>2. h = HistoryOf(k) /\ h \in Seq(Nat) /\ Len(h) = k
    BY <2>1, HistoryLength DEF HistoryOf
  <2>3. CASE UNCHANGED group
    BY <2>3 DEF Recorded
  <2>4. ASSUME NEW r \in Runners, NEW m \in Catalog,
               pc[r] = "record", Current(r, m), group' = Booked(r, m)
        PROVE  History!Record \/ History!Undo
    <3>1. CASE /\ k + 1 <= Last
               /\ Recorded' = 1..(k + 1)
               /\ group' = [group EXCEPT ![k + 1] = number[r]]
               /\ number[r] \in Nat \ {0}
               /\ \A i \in 1..k : group[i] <= number[r]
               /\ IF k = 0 THEN number[r] = 1 ELSE group[k] + 1 >= number[r]
      <4>1. Cardinality(Recorded)' = k + 1
        BY <3>1, FS_Interval
      <4>2. h' = [i \in 1..(k + 1) |-> group'[i]]
        BY <4>1
      <4>3. h' = Append(h, number[r])
        <5> HIDE DEF h
        <5>1. h \in [1..k -> Nat] /\ h' \in [1..(k + 1) -> Nat]
          BY <2>2, <3>1, <4>2 DEF HistoryOf
        <5>2. \A i \in 1..k : h'[i] = h[i]
          BY <2>2, <3>1, <4>2 DEF HistoryOf
        <5>3. h'[k + 1] = number[r]
          BY <3>1, <4>2
        <5> QED
          BY <5>1, <5>2, <5>3, PushedOnTop
      <4>4. History!Top = IF k = 0 THEN 0 ELSE group[k]
        <5>1. History!Top = IF h = <<>> THEN 0 ELSE h[Len(h)]
          BY DEF History!Top
        <5> HIDE DEF h
        <5>2. k # 0 => h[k] = group[k]
          BY <2>2 DEF HistoryOf
        <5> QED
          BY <2>2, <5>1, <5>2
      <4>5. number[r] \in {History!Top, History!Top + 1} \ {0}
        BY <3>1, <4>4
      <4>6. /\ Len(h) < Last
            /\ \E g \in {History!Top, History!Top + 1} \ {0} :
                 h' = Append(h, g)
        <5> HIDE DEF h
        <5> QED
          BY <2>2, <3>1, <4>3, <4>5
      <4> QED
        BY <4>6 DEF History!Record
    <3>2. CASE /\ k > 0 /\ Recorded' = 1..(k - 1)
               /\ group' = [group EXCEPT ![k] = 0]
      <4>1. Cardinality(Recorded)' = k - 1
        BY <3>2, FS_Interval
      <4>2. h' = [i \in 1..(k - 1) |-> group'[i]]
        BY <4>1
      <4>3. h' = SubSeq(h, 1, Len(h) - 1)
        <5> HIDE DEF h
        <5>1. h \in [1..k -> Nat] /\ h' \in [1..(k - 1) -> Nat]
          BY <2>2, <3>2, <4>2 DEF HistoryOf
        <5>2. \A i \in 1..(k - 1) : h'[i] = h[i]
          BY <2>2, <3>2, <4>2 DEF HistoryOf
        <5> QED
          BY <3>2, <5>1, <5>2, PoppedFromTop
      <4>4. h # <<>>
        <5> HIDE DEF h
        <5> QED
          BY <2>2, <3>2
      <4> QED
        BY <4>3, <4>4 DEF History!Undo
    <3> QED
      BY <2>1, <2>4, <3>1, <3>2, StackGrowsAtTheTop
  <2> QED
    BY <2>3, <2>4, OnlyRecordingChangesRecords
<1> QED
  BY <1>1, <1>2, InductiveInvariant, PTL DEF Spec, HistoryIsAStack, History!Spec
=============================================================================
