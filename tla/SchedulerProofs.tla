--------------------------- MODULE SchedulerProofs ---------------------------
(***************************************************************************)
(* Proofs about Scheduler, for every number of workers, clients and tasks  *)
(* and every capacity of the queue.                                        *)
(***************************************************************************)
EXTENDS Scheduler, FiniteSetTheorems, TLAPS

\* A worker holds a task that exists; a goroutine in the middle of a Spawn or
\* an Await has a handle; a parent goes on with its child's error.
HandInv ==
  /\ \A w \in Workers : pc[w] \in Holding => running[w] \in Tasks
  /\ \A p \in Procs :
       pc[p] \in {"spawn", "await", "awaitTimeout"} => handle[p] \in Tasks
  /\ \A w \in Workers : pc[w] = "resumed" => got[w] \in Outcomes
  /\ \A t \in completed : err[t] # "unset"
  /\ \A w \in Workers : pc[w] \in {"worked", "counted"} => err[running[w]] # "unset"

TypeInv == TypeOK /\ HandInv /\ ActiveCount

\* The workers activeTask counts.
CountedSet == {w \in Workers : pc[w] \in Counted}

\* A task is in one place: on its way into the queue, in the queue, with a
\* worker, or completed.
Placed ==
  /\ \A t \in completed : t <= nextID
  /\ \A i \in 1..Len(queue) : queue[i] <= nextID
  /\ \A w \in Workers : pc[w] \in Holding => running[w] <= nextID
  /\ \A p \in Procs : pc[p] = "spawn" =>
       /\ handle[p] <= nextID
       /\ handle[p] \notin completed
       /\ \A i \in 1..Len(queue) : queue[i] # handle[p]
       /\ \A w \in Workers : pc[w] \in Holding => running[w] # handle[p]
       /\ \A q \in Procs : pc[q] = "spawn" /\ handle[q] = handle[p] => p = q

------------------------------------------------------------------------------
(* Type correctness and the activity counter                               *)

LEMMA CountedFacts ==
  ASSUME TypeInv
  PROVE  /\ IsFiniteSet(CountedSet)
         /\ activeTask = Cardinality(CountedSet)
<1>1. CountedSet \subseteq Workers /\ IsFiniteSet(Workers)
  BY SchedulerAssumption DEF SchedulerAssumption, CountedSet
<1>2. QED
  BY <1>1, FS_Subset DEF TypeInv, ActiveCount, CountedSet

\* A worker that enters its task's work is one more to count.
LEMMA CountedUp ==
  ASSUME TypeInv, NEW w \in Workers, CountUp(w)
  PROVE  activeTask' \in Nat /\ ActiveCount'
<1>1. w \notin CountedSet /\ CountedSet' = CountedSet \cup {w}
  BY DEF TypeInv, TypeOK, CountUp, Goto, CountedSet, Counted, Procs
<1>2. Cardinality(CountedSet \cup {w}) = Cardinality(CountedSet) + 1
  BY <1>1, CountedFacts, FS_AddElement
<1>3. activeTask \in Nat
  BY DEF TypeInv, TypeOK
<1>4. activeTask = Cardinality(CountedSet)
  BY CountedFacts
<1>5. activeTask' = Cardinality(CountedSet')
  BY <1>1, <1>2, <1>4 DEF CountUp
<1>6. QED
  BY <1>3, <1>5 DEF CountUp, ActiveCount, CountedSet

\* A worker that leaves it was counted, so the counter was not zero.
LEMMA CountedDown ==
  ASSUME TypeInv, NEW w \in Workers, CountDown(w)
  PROVE  activeTask' \in Nat /\ ActiveCount'
<1>1. w \in CountedSet /\ CountedSet' = CountedSet \ {w}
  BY DEF TypeInv, TypeOK, CountDown, Goto, CountedSet, Counted, Procs
<1>2. /\ Cardinality(CountedSet \ {w}) = Cardinality(CountedSet) - 1
      /\ Cardinality(CountedSet \ {w}) \in Nat
  BY <1>1, CountedFacts, FS_RemoveElement, FS_CardinalityType
<1>3. QED
  BY <1>1, <1>2, CountedFacts DEF CountDown, ActiveCount, CountedSet

\* Every other step leaves the counted workers as they are.
LEMMA CountedSame ==
  ASSUME TypeInv, UNCHANGED activeTask, CountedSet' = CountedSet
  PROVE  activeTask' \in Nat /\ ActiveCount'
BY DEF TypeInv, TypeOK, ActiveCount, CountedSet

LEMMA TypeInvInit == Init => TypeInv
<1> SUFFICES ASSUME Init PROVE TypeInv
  OBVIOUS
<1>1. Cardinality({w \in Workers : pc[w] \in Counted}) = 0
  <2>1. {w \in Workers : pc[w] \in Counted} = {}
    BY SchedulerAssumption DEF Init, Counted, Procs, SchedulerAssumption
  <2> QED
    BY <2>1, FS_EmptySet
<1>2. /\ QueueCap \in Nat /\ MaxTasks \in Nat
      /\ Clients \cap Workers = {}
  BY SchedulerAssumption DEF SchedulerAssumption
<1>3. queue \in Seq(Tasks) /\ Len(queue) <= QueueCap
  BY <1>2 DEF Init
<1>4. TypeOK
  <2>1. pc \in [Procs -> Holding \cup {"idle", "awaitTimeout", "select", "exited"}]
    BY DEF Init
  <2>2. /\ running \in [Workers -> 0..MaxTasks]
        /\ handle \in [Procs -> 0..MaxTasks]
        /\ nextID \in 0..MaxTasks
    BY <1>2 DEF Init, NoTask
  <2> QED
    BY <1>2, <1>3, <2>1, <2>2 DEF Init, TypeOK, Procs
<1>5. HandInv
  BY <1>2 DEF Init, HandInv, Holding, Procs
<1> QED
  BY <1>1, <1>4, <1>5 DEF Init, TypeInv, ActiveCount

LEMMA TypeInvStep == TypeInv /\ [Next]_vars => TypeInv'
<1> SUFFICES ASSUME TypeInv, [Next]_vars PROVE TypeInv'
  OBVIOUS
<1>a. /\ QueueCap \in Nat /\ MaxTasks \in Nat
      /\ Clients \cap Workers = {}
  BY SchedulerAssumption DEF SchedulerAssumption
<1>b. TypeOK /\ HandInv
  BY DEF TypeInv
<1> USE <1>a, <1>b DEF TypeOK, HandInv, Holding, Procs, Tasks, NoTask, Outcomes
<1>1. ASSUME NEW c \in Clients, NEW k \in {"leaf", "parent"}, SpawnNew(c, k) PROVE TypeInv'
  <2>1. activeTask' \in Nat /\ ActiveCount'
    <3>1. CountedSet' = CountedSet
      BY <1>1 DEF SpawnNew, NewTask, Goto, CountedSet, Counted
    <3> QED
      BY <1>1, <3>1, CountedSame DEF SpawnNew, NewTask, Goto
  <2> QED
    BY <1>1, <2>1 DEF TypeInv, SpawnNew, NewTask, Goto
<1>2. ASSUME NEW c \in Clients, SpawnReturn(c) PROVE TypeInv'
  <2>1. activeTask' \in Nat /\ ActiveCount'
    <3>1. CountedSet' = CountedSet
      BY <1>2 DEF SpawnReturn, Enqueue, Goto, CountedSet, Counted
    <3> QED
      BY <1>2, <3>1, CountedSame DEF SpawnReturn, Enqueue, Goto
  <2>2. queue' \in Seq(Tasks) /\ Len(queue') <= QueueCap
    BY <1>2 DEF SpawnReturn, Enqueue, Goto
  <2> QED
    BY <1>2, <2>1, <2>2 DEF TypeInv, SpawnReturn, Enqueue, Goto
<1>3. ASSUME NEW c \in Clients, NEW t \in Tasks, NEW label \in {"await", "awaitTimeout"}, AwaitCall(c, t, label) PROVE TypeInv'
  <2>1. activeTask' \in Nat /\ ActiveCount'
    <3>1. CountedSet' = CountedSet
      BY <1>3 DEF AwaitCall, Shared, Goto, CountedSet, Counted
    <3> QED
      BY <1>3, <3>1, CountedSame DEF AwaitCall, Shared, Goto
  <2> QED
    BY <1>3, <2>1 DEF TypeInv, AwaitCall, Shared, Goto
<1>4. ASSUME NEW c \in Clients, AwaitReturn(c) PROVE TypeInv'
  <2>1. activeTask' \in Nat /\ ActiveCount'
    <3>1. CountedSet' = CountedSet
      BY <1>4 DEF AwaitReturn, Awaited, CountedSet, Counted
    <3> QED
      BY <1>4, <3>1, CountedSame DEF AwaitReturn, Awaited
  <2> QED
    BY <1>4, <2>1 DEF TypeInv, AwaitReturn, Awaited
<1>5. ASSUME NEW c \in Clients, AwaitExpires(c) PROVE TypeInv'
  <2>1. activeTask' \in Nat /\ ActiveCount'
    <3>1. CountedSet' = CountedSet
      BY <1>5 DEF AwaitExpires, Goto, CountedSet, Counted
    <3> QED
      BY <1>5, <3>1, CountedSame DEF AwaitExpires, Goto
  <2> QED
    BY <1>5, <2>1 DEF TypeInv, AwaitExpires, Goto
<1>6. ASSUME NEW c \in Clients, Stop(c) PROVE TypeInv'
  <2>1. activeTask' \in Nat /\ ActiveCount'
    <3>1. CountedSet' = CountedSet
      BY <1>6 DEF Stop, CountedSet, Counted
    <3> QED
      BY <1>6, <3>1, CountedSame DEF Stop
  <2> QED
    BY <1>6, <2>1 DEF TypeInv, Stop
<1>7. ASSUME NEW w \in Workers, WorkerExit(w) PROVE TypeInv'
  <2>1. activeTask' \in Nat /\ ActiveCount'
    <3>1. CountedSet' = CountedSet
      BY <1>7 DEF WorkerExit, Goto, CountedSet, Counted
    <3> QED
      BY <1>7, <3>1, CountedSame DEF WorkerExit, Goto
  <2> QED
    BY <1>7, <2>1 DEF TypeInv, WorkerExit, Goto
<1>8. ASSUME NEW w \in Workers, WorkerTake(w) PROVE TypeInv'
  <2>1. activeTask' \in Nat /\ ActiveCount'
    <3>1. CountedSet' = CountedSet
      BY <1>8 DEF WorkerTake, Goto, CountedSet, Counted
    <3> QED
      BY <1>8, <3>1, CountedSame DEF WorkerTake, Goto
  <2>2. /\ Head(queue) \in Tasks
        /\ queue' \in Seq(Tasks) /\ Len(queue') <= QueueCap
    BY <1>8 DEF WorkerTake
  <2> QED
    BY <1>8, <2>1, <2>2 DEF TypeInv, WorkerTake, Goto
<1>9. ASSUME NEW w \in Workers, CountUp(w) PROVE TypeInv'
  <2>1. activeTask' \in Nat /\ ActiveCount'
    BY <1>9, CountedUp
  <2> QED
    BY <1>9, <2>1 DEF TypeInv, CountUp, Goto
<1>10. ASSUME NEW w \in Workers, WorkSpawns(w) PROVE TypeInv'
  <2>1. activeTask' \in Nat /\ ActiveCount'
    <3>1. CountedSet' = CountedSet
      BY <1>10 DEF WorkSpawns, NewTask, Goto, CountedSet, Counted
    <3> QED
      BY <1>10, <3>1, CountedSame DEF WorkSpawns, NewTask, Goto
  <2> QED
    BY <1>10, <2>1 DEF TypeInv, WorkSpawns, NewTask, Goto
<1>11. ASSUME NEW w \in Workers, WorkSpawned(w) PROVE TypeInv'
  <2>1. activeTask' \in Nat /\ ActiveCount'
    <3>1. CountedSet' = CountedSet
      BY <1>11 DEF WorkSpawned, Enqueue, Goto, CountedSet, Counted
    <3> QED
      BY <1>11, <3>1, CountedSame DEF WorkSpawned, Enqueue, Goto
  <2>2. queue' \in Seq(Tasks) /\ Len(queue') <= QueueCap
    BY <1>11 DEF WorkSpawned, Enqueue, Goto
  <2> QED
    BY <1>11, <2>1, <2>2 DEF TypeInv, WorkSpawned, Enqueue, Goto
<1>12. ASSUME NEW w \in Workers, WorkAwaited(w) PROVE TypeInv'
  <2>1. activeTask' \in Nat /\ ActiveCount'
    <3>1. CountedSet' = CountedSet
      BY <1>12 DEF WorkAwaited, Awaited, CountedSet, Counted
    <3> QED
      BY <1>12, <3>1, CountedSame DEF WorkAwaited, Awaited
  <2> QED
    BY <1>12, <2>1 DEF TypeInv, WorkAwaited, Awaited
<1>13. ASSUME NEW w \in Workers, WorkReturns(w) PROVE TypeInv'
  <2>1. activeTask' \in Nat /\ ActiveCount'
    <3>1. CountedSet' = CountedSet
      BY <1>13 DEF WorkReturns, Goto, CountedSet, Counted
    <3> QED
      BY <1>13, <3>1, CountedSame DEF WorkReturns, Goto
  <2>2. running[w] \in Tasks
    BY <1>13 DEF WorkReturns, Goto
  <2>3. PICK e \in Outcomes : err' = [err EXCEPT ![running[w]] = e]
    BY <1>13 DEF WorkReturns, Goto
  <2>4. err' \in [Tasks -> Outcomes \cup {"unset"}]
    BY <2>2, <2>3
  <2>5. \A t \in Tasks : err'[t] = err[t] \/ err'[t] \in Outcomes
    BY <2>2, <2>3
  <2>6. \A t \in completed' : err'[t] # "unset"
    BY <1>13, <2>5 DEF WorkReturns
  <2>7. \A v \in Workers : pc'[v] \in {"worked", "counted"} => err'[running'[v]] # "unset"
    BY <1>13, <2>2, <2>3, <2>5 DEF WorkReturns, Goto
  <2>a. /\ handle' \in [Procs -> 0..MaxTasks]
        /\ got' \in [Procs -> Outcomes \cup {"none", "deadline"}]
        /\ \A p \in Procs : p # w => handle'[p] = handle[p] /\ got'[p] = got[p]
    <3>1. CASE UNCHANGED <<handle, got>>
      BY <3>1
    <3>2. CASE /\ handle' = [handle EXCEPT ![w] = NoTask]
               /\ got' = [got EXCEPT ![w] = "none"]
      BY <3>2, <1>a
    <3> QED
      BY <1>13, <3>1, <3>2 DEF WorkReturns
  <2>b. pc' = [pc EXCEPT ![w] = "worked"] /\ UNCHANGED running
    BY <1>13 DEF WorkReturns, Goto
  <2>c. UNCHANGED <<queue, nextID, cancelled, activeTask, running, kind, completed>>
    BY <1>13 DEF WorkReturns
  <2>8. TypeOK'
    BY <2>1, <2>4, <2>a, <2>b, <2>c
  <2>9. HandInv'
    <3>1. \A p \in Procs : p # w => pc'[p] = pc[p]
      BY <2>b
    <3>2. pc'[w] = "worked"
      BY <2>b
    <3>3. \A v \in Workers : pc'[v] \in Holding => running'[v] \in Tasks
      BY <2>2, <2>b
    <3>4. \A p \in Procs :
            pc'[p] \in {"spawn", "await", "awaitTimeout"} => handle'[p] \in Tasks
      BY <3>1, <3>2, <2>a
    <3>5. \A v \in Workers : pc'[v] = "resumed" => got'[v] \in Outcomes
      BY <3>1, <3>2, <2>a
    <3> QED
      BY <2>6, <2>7, <3>3, <3>4, <3>5
  <2> QED
    BY <2>1, <2>8, <2>9 DEF TypeInv
<1>14. ASSUME NEW w \in Workers, CountDown(w) PROVE TypeInv'
  <2>1. activeTask' \in Nat /\ ActiveCount'
    BY <1>14, CountedDown
  <2> QED
    BY <1>14, <2>1 DEF TypeInv, CountDown, Goto
<1>15. ASSUME NEW w \in Workers, Close(w) PROVE TypeInv'
  <2>1. activeTask' \in Nat /\ ActiveCount'
    <3>1. CountedSet' = CountedSet
      BY <1>15 DEF Close, Goto, CountedSet, Counted
    <3> QED
      BY <1>15, <3>1, CountedSame DEF Close, Goto
  <2>2. running[w] \in Tasks /\ err[running[w]] # "unset"
    BY <1>15 DEF Close, Goto
  <2>3. completed' \subseteq Tasks /\ \A t \in completed' : err'[t] # "unset"
    BY <1>15, <2>2 DEF Close
  <2>4. \A v \in Workers : pc'[v] \in {"worked", "counted"} => err'[running'[v]] # "unset"
    BY <1>15, <2>2 DEF Close, Goto
  <2> QED
    BY <1>15, <2>1, <2>3, <2>4 DEF TypeInv, Close, Goto
<1>16. CASE UNCHANGED vars
  <2>1. activeTask' \in Nat /\ ActiveCount'
    BY <1>16, CountedSame DEF vars, CountedSet
  <2> QED
    BY <1>16, <2>1 DEF TypeInv, vars
<1>17. QED
  BY <1>1, <1>2, <1>3, <1>4, <1>5, <1>6, <1>7, <1>8,
     <1>9, <1>10, <1>11, <1>12, <1>13, <1>14, <1>15, <1>16
  DEF Next, ClientCall, ClientStep, WorkerStep, Finished

\* Every step keeps the types and the counter.
LEMMA TypeInvariant == Spec => []TypeInv
BY TypeInvInit, TypeInvStep, PTL DEF Spec

\* Every variable of the scheduler keeps the shape the code gives it, and the
\* wrapping decrement of activeTask never meets zero.
THEOREM TypeCorrect == Spec => [](TypeOK /\ ActiveCount)
<1>1. TypeInv => TypeOK /\ ActiveCount
  BY DEF TypeInv
<1>2. QED
  BY <1>1, TypeInvariant, PTL

------------------------------------------------------------------------------
(* Each task is in one place, so it is run once and closed once            *)

PlaceInv == RunOnce /\ Placed

LEMMA PlaceInvInit == Init => PlaceInv
<1> SUFFICES ASSUME Init PROVE PlaceInv
  OBVIOUS
<1>1. /\ queue = <<>> /\ completed = {}
      /\ \A p \in Procs : pc[p] \in {"idle", "select"}
  BY DEF Init
<1>2. Workers \subseteq Procs
  BY DEF Procs
<1>3. QED
  BY <1>1, <1>2 DEF PlaceInv, RunOnce, Placed, Holding

\* A step that moves no task leaves every task in its one place.
LEMMA PlaceFrame ==
  ASSUME PlaceInv, UNCHANGED <<queue, nextID, running, completed>>,
         \A w \in Workers : pc'[w] \in Holding => pc[w] \in Holding,
         \A p \in Procs : pc'[p] = "spawn" =>
           pc[p] = "spawn" /\ handle'[p] = handle[p]
  PROVE  PlaceInv'
<1>1. RunOnce'
  BY DEF PlaceInv, RunOnce
<1>2. Placed'
  BY DEF PlaceInv, Placed
<1>3. QED
  BY <1>1, <1>2 DEF PlaceInv

\* The number of a new task is that of no other.
LEMMA PlaceNew ==
  ASSUME TypeInv, PlaceInv, NEW p \in Procs, NEW k, NewTask(p, k),
         pc[p] \in {"idle", "work"}, pc' = [pc EXCEPT ![p] = "spawn"],
         UNCHANGED <<queue, running, completed>>
  PROVE  PlaceInv'
<1>1. /\ nextID \in Nat /\ nextID' = nextID + 1
      /\ queue \in Seq(Tasks) /\ completed \subseteq Tasks
      /\ running \in [Workers -> 0..MaxTasks]
      /\ handle \in [Procs -> 0..MaxTasks]
      /\ MaxTasks \in Nat
  BY SchedulerAssumption DEF TypeInv, TypeOK, NewTask, SchedulerAssumption
<1>2. /\ \A w \in Workers : pc'[w] \in Holding => pc[w] \in Holding
      /\ \A q \in Procs : q # p => pc'[q] = pc[q] /\ handle'[q] = handle[q]
      /\ handle'[p] = nextID + 1
  BY <1>1, SchedulerAssumption
  DEF SchedulerAssumption, NewTask, Holding, TypeInv, TypeOK, Procs
<1>3. RunOnce'
  BY <1>2 DEF PlaceInv, RunOnce
<1>4. /\ \A t \in completed : t \in Nat /\ t <= nextID
      /\ \A i \in 1..Len(queue) : queue[i] \in Nat /\ queue[i] <= nextID
      /\ \A w \in Workers : pc[w] \in Holding =>
           running[w] \in Nat /\ running[w] <= nextID
      /\ \A q \in Procs : pc[q] = "spawn" => handle[q] \in Nat /\ handle[q] <= nextID
  BY <1>1 DEF PlaceInv, Placed, Tasks
<1>5. Placed'
  <2>1. /\ \A t \in completed' : t <= nextID'
        /\ \A i \in 1..Len(queue') : queue'[i] <= nextID'
        /\ \A w \in Workers : pc'[w] \in Holding => running'[w] <= nextID'
    BY <1>1, <1>2, <1>4
  <2>2. ASSUME NEW q \in Procs, pc'[q] = "spawn"
        PROVE  /\ handle'[q] <= nextID'
               /\ handle'[q] \notin completed'
               /\ \A i \in 1..Len(queue') : queue'[i] # handle'[q]
               /\ \A w \in Workers : pc'[w] \in Holding => running'[w] # handle'[q]
               /\ \A r \in Procs : pc'[r] = "spawn" /\ handle'[r] = handle'[q] => q = r
    <3>1. CASE q = p
      BY <1>1, <1>2, <1>4, <3>1
    <3>2. CASE q # p
      BY <1>1, <1>2, <1>4, <2>2, <3>2 DEF PlaceInv, Placed
    <3> QED
      BY <3>1, <3>2
  <2> QED
    BY <2>1, <2>2 DEF Placed
<1>6. QED
  BY <1>3, <1>5 DEF PlaceInv

\* A task on its way into the queue was in no other place.
LEMMA PlaceEnqueue ==
  ASSUME TypeInv, PlaceInv, NEW p \in Procs, NEW label \in {"idle", "await"},
         Enqueue(p, label), p \in Workers => label = "await"
  PROVE  PlaceInv'
<1>1. /\ pc[p] = "spawn" /\ pc' = [pc EXCEPT ![p] = label]
      /\ queue' = Append(queue, handle[p])
      /\ UNCHANGED <<nextID, running, handle, completed>>
  BY DEF Enqueue, Goto
<1>2. /\ queue \in Seq(Tasks) /\ handle[p] \in Tasks
      /\ pc \in [Procs -> Holding \cup {"idle", "awaitTimeout", "select", "exited"}]
  BY <1>1 DEF TypeInv, TypeOK, HandInv
<1>3. /\ Len(queue') = Len(queue) + 1 /\ Len(queue) \in Nat
      /\ \A i \in 1..Len(queue') :
           queue'[i] = IF i <= Len(queue) THEN queue[i] ELSE handle[p]
  BY <1>1, <1>2
<1>4. /\ \A w \in Workers : pc'[w] \in Holding => pc[w] \in Holding
      /\ \A q \in Procs : pc'[q] = "spawn" => pc[q] = "spawn" /\ q # p
  BY <1>1, <1>2 DEF Holding, Procs
<1>5. RunOnce'
  BY <1>1, <1>2, <1>3, <1>4 DEF PlaceInv, RunOnce, Placed
<1>6. Placed'
  BY <1>1, <1>2, <1>3, <1>4 DEF PlaceInv, Placed
<1>7. QED
  BY <1>5, <1>6 DEF PlaceInv

\* The task at the head of the queue goes from the queue to the worker.
LEMMA PlaceTake ==
  ASSUME TypeInv, PlaceInv, NEW v \in Workers, WorkerTake(v)
  PROVE  PlaceInv'
<1>1. /\ pc[v] = "select" /\ pc' = [pc EXCEPT ![v] = "taken"]
      /\ queue # <<>> /\ queue' = Tail(queue)
      /\ running' = [running EXCEPT ![v] = Head(queue)]
      /\ UNCHANGED <<nextID, handle, completed>>
  BY DEF WorkerTake, Goto
<1>2. /\ queue \in Seq(Tasks)
      /\ pc \in [Procs -> Holding \cup {"idle", "awaitTimeout", "select", "exited"}]
      /\ running \in [Workers -> 0..MaxTasks]
  BY DEF TypeInv, TypeOK
<1>3. /\ Len(queue) \in Nat /\ Len(queue) # 0 /\ Head(queue) = queue[1]
      /\ Len(queue') = Len(queue) - 1
      /\ \A i \in 1..Len(queue') : queue'[i] = queue[i + 1]
  BY <1>1, <1>2
<1>4. /\ \A w \in Workers : w # v => pc'[w] = pc[w] /\ running'[w] = running[w]
      /\ pc'[v] = "taken" /\ running'[v] = queue[1]
      /\ \A q \in Procs : pc'[q] = "spawn" => pc[q] = "spawn"
  BY <1>1, <1>2, <1>3 DEF Procs
<1>5. \A i \in 1..Len(queue') : i + 1 \in 1..Len(queue) /\ i + 1 # 1
  BY <1>3
<1>6. 1 \in 1..Len(queue)
  BY <1>3
<1>7. RunOnce'
  BY <1>1, <1>3, <1>4, <1>5, <1>6 DEF PlaceInv, RunOnce
<1>8. Placed'
  BY <1>1, <1>3, <1>4, <1>5, <1>6 DEF PlaceInv, Placed
<1>9. QED
  BY <1>7, <1>8 DEF PlaceInv

\* The task of a worker that closes its channel becomes completed.
LEMMA PlaceClose ==
  ASSUME TypeInv, PlaceInv, NEW v \in Workers, Close(v)
  PROVE  PlaceInv'
<1>1. /\ pc[v] = "counted" /\ pc' = [pc EXCEPT ![v] = "select"]
      /\ completed' = completed \cup {running[v]}
      /\ running' = [running EXCEPT ![v] = NoTask]
      /\ UNCHANGED <<queue, nextID, handle>>
  BY DEF Close, Goto
<1>2. /\ pc \in [Procs -> Holding \cup {"idle", "awaitTimeout", "select", "exited"}]
      /\ running \in [Workers -> 0..MaxTasks]
      /\ pc[v] \in Holding
  BY <1>1 DEF TypeInv, TypeOK, Holding
<1>3. /\ \A w \in Workers : pc'[w] \in Holding =>
            w # v /\ pc[w] \in Holding /\ running'[w] = running[w]
      /\ \A q \in Procs : pc'[q] = "spawn" => pc[q] = "spawn"
  BY <1>1, <1>2 DEF Holding, Procs
<1>4. RunOnce'
  BY <1>1, <1>2, <1>3 DEF PlaceInv, RunOnce
<1>5. Placed'
  BY <1>1, <1>2, <1>3 DEF PlaceInv, Placed
<1>6. QED
  BY <1>4, <1>5 DEF PlaceInv

LEMMA PlaceInvStep == TypeInv /\ PlaceInv /\ [Next]_vars => PlaceInv'
<1> SUFFICES ASSUME TypeInv, PlaceInv, [Next]_vars PROVE PlaceInv'
  OBVIOUS
<1>a. /\ pc \in [Procs -> Holding \cup {"idle", "awaitTimeout", "select", "exited"}]
      /\ handle \in [Procs -> 0..MaxTasks]
      /\ Clients \subseteq Procs /\ Workers \subseteq Procs
      /\ Clients \cap Workers = {}
  BY SchedulerAssumption DEF TypeInv, TypeOK, Procs, SchedulerAssumption
<1>1. ASSUME NEW c \in Clients, NEW k \in {"leaf", "parent"}, SpawnNew(c, k)
      PROVE  PlaceInv'
  BY <1>1, <1>a, PlaceNew DEF SpawnNew, Goto
<1>2. ASSUME NEW c \in Clients, SpawnReturn(c) PROVE PlaceInv'
  BY <1>2, <1>a, PlaceEnqueue DEF SpawnReturn
<1>3. ASSUME NEW c \in Clients, NEW t \in Tasks,
             NEW label \in {"await", "awaitTimeout"}, AwaitCall(c, t, label)
      PROVE  PlaceInv'
  BY <1>3, <1>a, PlaceFrame DEF AwaitCall, Goto
<1>4. ASSUME NEW c \in Clients, AwaitReturn(c) \/ AwaitExpires(c) \/ Stop(c)
      PROVE  PlaceInv'
  BY <1>4, <1>a, PlaceFrame DEF AwaitReturn, Awaited, AwaitExpires, Stop, Goto
<1>5. ASSUME NEW w \in Workers, WorkerExit(w) \/ CountUp(w) \/ CountDown(w)
      PROVE  PlaceInv'
  BY <1>5, <1>a, PlaceFrame DEF WorkerExit, CountUp, CountDown, Goto, Holding
<1>6. ASSUME NEW w \in Workers, WorkerTake(w) PROVE PlaceInv'
  BY <1>6, PlaceTake
<1>7. ASSUME NEW w \in Workers, WorkSpawns(w) PROVE PlaceInv'
  BY <1>7, <1>a, PlaceNew DEF WorkSpawns, Goto
<1>8. ASSUME NEW w \in Workers, WorkSpawned(w) PROVE PlaceInv'
  BY <1>8, <1>a, PlaceEnqueue DEF WorkSpawned
<1>9. ASSUME NEW w \in Workers, WorkAwaited(w) PROVE PlaceInv'
  BY <1>9, <1>a, PlaceFrame DEF WorkAwaited, Awaited, Holding
<1>10. ASSUME NEW w \in Workers, WorkReturns(w) PROVE PlaceInv'
  <2>1. /\ pc[w] \in Holding /\ pc' = [pc EXCEPT ![w] = "worked"]
        /\ \A p \in Procs : p # w => handle'[p] = handle[p]
        /\ UNCHANGED <<queue, nextID, running, completed>>
    BY <1>10, <1>a DEF WorkReturns, Goto, Holding
  <2>2. QED
    BY <2>1, <1>a, PlaceFrame
<1>11. ASSUME NEW w \in Workers, Close(w) PROVE PlaceInv'
  BY <1>11, PlaceClose
<1>12. CASE UNCHANGED vars
  BY <1>12, PlaceFrame DEF vars
<1>13. QED
  BY <1>1, <1>2, <1>3, <1>4, <1>5, <1>6, <1>7, <1>8, <1>9, <1>10, <1>11, <1>12
  DEF Next, ClientCall, ClientStep, WorkerStep, Finished

LEMMA PlaceInvariant == Spec => []PlaceInv
BY TypeInvariant, PlaceInvInit, PlaceInvStep, PTL DEF Spec

\* No task is run twice or closed twice, whatever the number of workers.
THEOREM RunsOnce == Spec => []RunOnce
<1>1. PlaceInv => RunOnce
  BY DEF PlaceInv
<1>2. QED
  BY <1>1, PlaceInvariant, PTL

\* A completed task has returned.
THEOREM CompletedTasksReturned == Spec => []CompletedReturned
<1>1. TypeInv => CompletedReturned
  BY DEF TypeInv, HandInv, CompletedReturned
<1>2. QED
  BY <1>1, TypeInvariant, PTL

------------------------------------------------------------------------------
(* The error an awaiter reads                                              *)

\* The only write of t.err is that of the worker that holds the task, which is
\* not completed while it is held.
LEMMA SettledStep ==
  TypeInv /\ PlaceInv /\ [Next]_vars =>
    \A t \in completed : t \in completed' /\ err'[t] = err[t]
<1> SUFFICES ASSUME TypeInv, PlaceInv, [Next]_vars, NEW t \in completed
             PROVE  t \in completed' /\ err'[t] = err[t]
  OBVIOUS
<1>1. t \in completed'
  BY DEF Next, vars, ClientCall, ClientStep, WorkerStep, Finished, SpawnNew,
     SpawnReturn, Enqueue, AwaitCall, AwaitReturn, AwaitExpires, Stop, WorkerExit,
     WorkerTake, CountUp, WorkSpawns, WorkSpawned, WorkAwaited, WorkReturns,
     CountDown, Close
<1>2. CASE UNCHANGED err
  BY <1>1, <1>2
<1>3. CASE \E w \in Workers : WorkReturns(w)
  <2>1. PICK w \in Workers : WorkReturns(w)
    BY <1>3
  <2>2. pc[w] \in Holding
    BY <2>1 DEF WorkReturns, Goto, Holding
  <2>3. t # running[w]
    BY <2>2 DEF PlaceInv, RunOnce
  <2>4. PICK e : err' = [err EXCEPT ![running[w]] = e]
    BY <2>1 DEF WorkReturns
  <2>5. err \in [Tasks -> Outcomes \cup {"unset"}] /\ t \in Tasks
    BY DEF TypeInv, TypeOK
  <2>6. QED
    BY <1>1, <2>3, <2>4, <2>5
<1>4. UNCHANGED err \/ \E w \in Workers : WorkReturns(w)
  BY DEF Next, vars, ClientCall, ClientStep, WorkerStep, Finished, SpawnNew,
     SpawnReturn, Enqueue, AwaitCall, AwaitReturn, AwaitExpires, Stop, WorkerExit,
     WorkerTake, CountUp, WorkSpawns, WorkSpawned, WorkAwaited, CountDown, Close
<1>5. QED
  BY <1>2, <1>3, <1>4

LEMMA ReportsStep ==
  TypeInv /\ PlaceInv /\ AwaitReports /\ [Next]_vars => AwaitReports'
<1> SUFFICES ASSUME TypeInv, PlaceInv, AwaitReports, [Next]_vars
             PROVE  AwaitReports'
  OBVIOUS
<1>a. /\ got \in [Procs -> Outcomes \cup {"none", "deadline"}]
      /\ handle \in [Procs -> 0..MaxTasks]
      /\ Clients \subseteq Procs /\ Workers \subseteq Procs
  BY DEF TypeInv, TypeOK, Procs
<1>b. \A t \in completed : t \in completed' /\ err'[t] = err[t]
  BY SettledStep
<1>c. "none" \notin Outcomes /\ "deadline" \notin Outcomes
  BY DEF Outcomes
<1>1. CASE UNCHANGED <<handle, got>>
  BY <1>1, <1>b DEF AwaitReports
<1>2. ASSUME NEW p \in Procs, NEW h, NEW g, g \notin Outcomes,
             handle' = [handle EXCEPT ![p] = h], got' = [got EXCEPT ![p] = g]
      PROVE  AwaitReports'
  BY <1>2, <1>a, <1>b DEF AwaitReports
<1>3. ASSUME NEW p \in Procs, UNCHANGED handle,
             got' = [got EXCEPT ![p] = "deadline"]
      PROVE  AwaitReports'
  BY <1>3, <1>a, <1>b, <1>c DEF AwaitReports
<1>4. ASSUME NEW p \in Procs, NEW labels, Awaited(p, labels), UNCHANGED handle
      PROVE  AwaitReports'
  BY <1>4, <1>a, <1>b DEF AwaitReports, Awaited
<1>5. \/ UNCHANGED <<handle, got>>
      \/ \E p \in Procs, h \in Nat :
           handle' = [handle EXCEPT ![p] = h] /\ got' = [got EXCEPT ![p] = "none"]
      \/ \E p \in Procs : UNCHANGED handle /\ got' = [got EXCEPT ![p] = "deadline"]
      \/ \E p \in Procs : UNCHANGED handle /\
           (Awaited(p, {"await", "awaitTimeout"}) \/ Awaited(p, {"await"}))
  <2>1. nextID + 1 \in Nat /\ Tasks \subseteq Nat /\ NoTask \in Nat
    BY DEF TypeInv, TypeOK, Tasks, NoTask
  <2>2. QED
    BY <1>a, <2>1 DEF Next, vars, ClientCall, ClientStep, WorkerStep, Finished,
       SpawnNew, NewTask, SpawnReturn, Enqueue, AwaitCall, AwaitReturn,
       AwaitExpires, Stop, WorkerExit, WorkerTake, CountUp, WorkSpawns,
       WorkSpawned, WorkAwaited, WorkReturns, CountDown, Close
<1>6. QED
  BY <1>1, <1>2, <1>3, <1>4, <1>5, <1>c

\* An await that reported a task's error reported the one its work returned.
THEOREM AwaitsReport == Spec => []AwaitReports
<1>1. Init => AwaitReports
  BY DEF Init, AwaitReports, Outcomes
<1>2. QED
  BY <1>1, ReportsStep, TypeInvariant, PlaceInvariant, PTL DEF Spec

\* Whoever awaits a task, once or more and whenever, is told what its work
\* returned: the error of a completed task never changes.
THEOREM ResultsAreReported == Spec => ResultsReported
<1>1. TypeInv /\ PlaceInv /\ AwaitReports /\ [Next]_vars =>
        [AwaitReports' /\ \A t \in completed : t \in completed' /\ err'[t] = err[t]]_vars
  BY SettledStep, ReportsStep
<1>2. QED
  BY <1>1, AwaitsReport, TypeInvariant, PlaceInvariant, PTL DEF Spec, ResultsReported

------------------------------------------------------------------------------
(* The standstill of the pool                                              *)

\* A worker of a standstill has no step: its child is in the queue, so not
\* completed, or the queue has no room for it.
LEMMA NoWorkerMoves ==
  ASSUME TypeInv, PlaceInv, Standstill, NEW w \in Workers, WorkerStep(w)
  PROVE  FALSE
<1>1. pc[w] \in {"await", "spawn"}
  BY DEF Standstill, Waits
<1>2. CASE pc[w] = "await"
  <2>1. PICK i \in 1..Len(queue) : queue[i] = handle[w]
    BY <1>2 DEF Standstill, Waits
  <2>2. handle[w] \notin completed
    BY <2>1 DEF PlaceInv, RunOnce
  <2>3. QED
    BY <1>2, <2>2 DEF WorkerStep, Goto, WorkerExit, WorkerTake, CountUp, WorkSpawns,
       WorkSpawned, Enqueue, WorkAwaited, Awaited, WorkReturns, CountDown, Close
<1>3. CASE pc[w] = "spawn"
  <2>1. ~(Len(queue) < QueueCap)
    BY <1>3, SchedulerAssumption DEF Standstill, Waits, SchedulerAssumption
  <2>2. QED
    BY <1>3, <2>1 DEF WorkerStep, Goto, WorkerExit, WorkerTake, CountUp, WorkSpawns,
       WorkSpawned, Enqueue, WorkAwaited, Awaited, WorkReturns, CountDown, Close
<1>4. QED
  BY <1>1, <1>2, <1>3

\* What the others do leaves a worker waiting: no queued task is taken, and a
\* full queue stays as it is.
LEMMA StandstillStep ==
  TypeInv /\ PlaceInv /\ Standstill /\ [Next]_vars => Standstill'
<1> SUFFICES ASSUME TypeInv, PlaceInv, Standstill, [Next]_vars
             PROVE  Standstill'
  OBVIOUS
<1>1. QueueCap \in Nat /\ Clients \cap Workers = {} /\ queue \in Seq(Tasks)
  BY SchedulerAssumption DEF SchedulerAssumption, TypeInv, TypeOK
<1>2. pc \in [Procs -> Holding \cup {"idle", "awaitTimeout", "select", "exited"}]
      /\ handle \in [Procs -> 0..MaxTasks]
  BY DEF TypeInv, TypeOK
<1>3. \A w \in Workers : UNCHANGED <<pc[w], handle[w]>>
  <2>1. CASE \E c \in Clients : ClientCall(c) \/ ClientStep(c)
    BY <2>1, <1>1, <1>2 DEF ClientCall, ClientStep, SpawnNew, NewTask, SpawnReturn,
       Enqueue, AwaitCall, AwaitReturn, Awaited, AwaitExpires, Stop, Goto, Procs
  <2>2. QED
    BY <2>1, NoWorkerMoves DEF Next, Finished, vars
<1>4. \/ UNCHANGED queue
      \/ /\ Len(queue) < QueueCap
         /\ \E p \in Procs : handle[p] \in Tasks /\ queue' = Append(queue, handle[p])
  <2>1. CASE \E c \in Clients : ClientCall(c) \/ ClientStep(c)
    BY <2>1 DEF ClientCall, ClientStep, SpawnNew, SpawnReturn, Enqueue, AwaitCall,
       AwaitReturn, AwaitExpires, Stop, Goto, Procs, TypeInv, HandInv
  <2>2. QED
    BY <2>1, NoWorkerMoves DEF Next, Finished, vars
<1>5. CASE UNCHANGED queue
  BY <1>3, <1>5 DEF Standstill, Waits
<1>6. CASE Len(queue) < QueueCap
           /\ \E p \in Procs : handle[p] \in Tasks /\ queue' = Append(queue, handle[p])
  <2>1. \A i \in 1..Len(queue) : i \in 1..Len(queue') /\ queue'[i] = queue[i]
    BY <1>1, <1>6
  <2>2. Len(queue) # QueueCap
    BY <1>1, <1>6
  <2>3. QED
    BY <1>3, <2>1, <2>2 DEF Standstill, Waits
<1>7. QED
  BY <1>4, <1>5, <1>6

\* The state that excuses TasksComplete and CallsReturn is a real deadlock of
\* the pool: once every worker waits for a worker it is so for good, for any
\* number of workers, any queue and whatever the clients do, a Stop included.
THEOREM StandstillIsForGood == Spec => [][Standstill => Standstill']_vars
<1>1. TypeInv /\ PlaceInv /\ [Next]_vars => [Standstill => Standstill']_vars
  BY StandstillStep
<1>2. QED
  BY <1>1, TypeInvariant, PlaceInvariant, PTL DEF Spec

==============================================================================
