------------------------------ MODULE Scheduler ------------------------------
(***************************************************************************)
(* The task scheduler of runtime/scheduler/scheduler.go: worker goroutines *)
(* that take tasks from one bounded queue, and the goroutines that spawn   *)
(* tasks, await them and stop the scheduler.  The work of a task is left   *)
(* out but for its error and for what matters to the scheduler: a parent's *)
(* work spawns a child and awaits it, on the worker that runs the parent.  *)
(***************************************************************************)
EXTENDS Naturals, Sequences, FiniteSets

CONSTANTS
  Workers,    \* the goroutines of startWorkers
  Clients,    \* the goroutines that use the scheduler
  QueueCap,   \* capacity of taskQueue (128 in New)
  MaxTasks,   \* bound: tasks spawned, children included
  MaxParents, \* bound: how many of them are parents
  Stoppers    \* the clients that may call Stop

ASSUME SchedulerAssumption ==
  /\ QueueCap \in Nat \ {0}
  /\ MaxTasks \in Nat \ {0}
  /\ MaxParents \in 0..(MaxTasks - 1)
  /\ Stoppers \subseteq Clients
  /\ Clients \cap Workers = {}
  /\ IsFiniteSet(Workers)

Tasks == 1..MaxTasks
Procs == Clients \cup Workers
NoTask == 0

VARIABLES
  queue,       \* s.taskQueue
  nextID,      \* s.nextID
  cancelled,   \* s.ctx is done
  activeTask,  \* s.activeTask
  pc,          \* where each goroutine is
  running,     \* the task each worker took last
  handle,      \* the task each goroutine spawned or awaits last
  kind,        \* what the work of each task does
  err,         \* t.err; "unset" until the work returns
  completed,   \* the tasks whose completed channel is closed
  got          \* what the Await or AwaitTimeout on that handle returned

vars == <<queue, nextID, cancelled, activeTask, pc, running, handle, kind, err,
          completed, got>>

Goto(p, from, to) == pc[p] = from /\ pc' = [pc EXCEPT ![p] = to]

------------------------------------------------------------------------------
(* Spawn                                                                   *)

\* The atomic increment of nextID numbers the task.
NewTask(p, k) ==
  /\ nextID < MaxTasks
  /\ nextID' = nextID + 1
  /\ handle' = [handle EXCEPT ![p] = nextID + 1]
  /\ got' = [got EXCEPT ![p] = "none"]
  /\ kind' = [kind EXCEPT ![nextID + 1] = k]

\* The bounds leave a number for the child of every parent.
SpawnNew(c, k) ==
  /\ Goto(c, "idle", "spawn")
  /\ nextID < MaxTasks - MaxParents
  /\ k = "parent" => Cardinality({t \in Tasks : kind[t] = "parent"}) < MaxParents
  /\ NewTask(c, k)
  /\ UNCHANGED <<queue, cancelled, activeTask, running, err, completed>>

\* s.taskQueue <- t, which blocks while the queue is full.
Enqueue(p, label) ==
  /\ Goto(p, "spawn", label)
  /\ Len(queue) < QueueCap
  /\ queue' = Append(queue, handle[p])
  /\ UNCHANGED <<nextID, cancelled, activeTask, running, handle, kind, err,
                 completed, got>>

SpawnReturn(c) == Enqueue(c, "idle")

------------------------------------------------------------------------------
(* Await, AwaitTimeout and Stop                                            *)

\* Spawn has returned the handle of the task to somebody, who may share it.
Shared(t) ==
  /\ t \in 1..nextID
  /\ \A p \in Procs : ~(pc[p] = "spawn" /\ handle[p] = t)

AwaitCall(c, t, label) ==
  /\ Goto(c, "idle", label)
  /\ Shared(t)
  /\ handle' = [handle EXCEPT ![c] = t]
  /\ got' = [got EXCEPT ![c] = "none"]
  /\ UNCHANGED <<queue, nextID, cancelled, activeTask, running, kind, err,
                 completed>>

\* Slip: the error read without waiting for the channel to close.
AwaitedEarly(p, labels) ==
  /\ pc[p] \in labels
  /\ err[handle[p]] # "unset"
  /\ got' = [got EXCEPT ![p] = err[handle[p]]]

\* The completed channel is closed: the error of the task is returned.
Awaited(p, labels) ==
  /\ pc[p] \in labels
  /\ handle[p] \in completed
  /\ got' = [got EXCEPT ![p] = err[handle[p]]]

AwaitReturn(c) ==
  /\ Awaited(c, {"await", "awaitTimeout"})
  /\ pc' = [pc EXCEPT ![c] = "idle"]
  /\ UNCHANGED <<queue, nextID, cancelled, activeTask, running, handle, kind,
                 err, completed>>

\* The timer fires, whether or not the task has completed meanwhile.
AwaitExpires(c) ==
  /\ Goto(c, "awaitTimeout", "idle")
  /\ got' = [got EXCEPT ![c] = "deadline"]
  /\ UNCHANGED <<queue, nextID, cancelled, activeTask, running, handle, kind,
                 err, completed>>

Stop(c) ==
  /\ c \in Stoppers
  /\ pc[c] = "idle"
  /\ ~cancelled
  /\ cancelled' = TRUE
  /\ UNCHANGED <<queue, nextID, activeTask, pc, running, handle, kind, err,
                 completed, got>>

------------------------------------------------------------------------------
(* Workers.  With the context done and tasks queued the select may still   *)
(* take a task.                                                            *)

\* Slip: the context looked at only when there is a task.
WorkerExitBusy(w) ==
  /\ Goto(w, "select", "exited")
  /\ cancelled /\ queue # <<>>
  /\ UNCHANGED <<queue, nextID, cancelled, activeTask, running, handle, kind,
                 err, completed, got>>

WorkerExit(w) ==
  /\ Goto(w, "select", "exited")
  /\ cancelled
  /\ UNCHANGED <<queue, nextID, cancelled, activeTask, running, handle, kind,
                 err, completed, got>>

\* Slip: the task is looked at and left in the queue.
WorkerTakePeeks(w) ==
  /\ Goto(w, "select", "taken")
  /\ queue # <<>>
  /\ running' = [running EXCEPT ![w] = Head(queue)]
  /\ UNCHANGED <<queue, nextID, cancelled, activeTask, handle, kind, err,
                 completed, got>>

WorkerTake(w) ==
  /\ Goto(w, "select", "taken")
  /\ queue # <<>>
  /\ queue' = Tail(queue)
  /\ running' = [running EXCEPT ![w] = Head(queue)]
  /\ UNCHANGED <<nextID, cancelled, activeTask, handle, kind, err, completed, got>>

CountUp(w) ==
  /\ Goto(w, "taken", "work")
  /\ activeTask' = activeTask + 1
  /\ UNCHANGED <<queue, nextID, cancelled, running, handle, kind, err, completed,
                 got>>

\* The work of a parent: it spawns a leaf and awaits it.
WorkSpawns(w) ==
  /\ Goto(w, "work", "spawn")
  /\ kind[running[w]] = "parent"
  /\ NewTask(w, "leaf")
  /\ UNCHANGED <<queue, cancelled, activeTask, running, err, completed>>

WorkSpawned(w) == Enqueue(w, "await")

WorkAwaited(w) ==
  /\ Awaited(w, {"await"})
  /\ pc' = [pc EXCEPT ![w] = "resumed"]
  /\ UNCHANGED <<queue, nextID, cancelled, activeTask, running, handle, kind,
                 err, completed>>

\* t.err = t.Work(): a leaf returns either way, a parent what its child did.
WorkReturns(w) ==
  /\ \/ /\ Goto(w, "work", "worked")
        /\ kind[running[w]] = "leaf"
        /\ \E e \in {"nil", "failed"} :
             err' = [err EXCEPT ![running[w]] = e]
        /\ UNCHANGED <<handle, got>>
     \/ /\ Goto(w, "resumed", "worked")
        /\ err' = [err EXCEPT ![running[w]] = got[w]]
        /\ handle' = [handle EXCEPT ![w] = NoTask]
        /\ got' = [got EXCEPT ![w] = "none"]
  /\ UNCHANGED <<queue, nextID, cancelled, activeTask, running, kind, completed>>

\* Slip: the counter decremented only for work that succeeded.
CountDownOnSuccess(w) ==
  /\ Goto(w, "worked", "counted")
  /\ activeTask' = IF err[running[w]] = "nil" THEN activeTask - 1 ELSE activeTask
  /\ UNCHANGED <<queue, nextID, cancelled, running, handle, kind, err, completed,
                 got>>

CountDown(w) ==
  /\ Goto(w, "worked", "counted")
  /\ activeTask' = activeTask - 1
  /\ UNCHANGED <<queue, nextID, cancelled, running, handle, kind, err, completed,
                 got>>

\* Slip: a failed task is never marked completed.
CloseOnSuccess(w) ==
  /\ Goto(w, "counted", "select")
  /\ completed' = IF err[running[w]] = "nil" THEN completed \cup {running[w]}
                                             ELSE completed
  /\ running' = [running EXCEPT ![w] = NoTask]
  /\ UNCHANGED <<queue, nextID, cancelled, activeTask, handle, kind, err, got>>

Close(w) ==
  /\ Goto(w, "counted", "select")
  /\ completed' = completed \cup {running[w]}
  /\ running' = [running EXCEPT ![w] = NoTask]
  /\ UNCHANGED <<queue, nextID, cancelled, activeTask, handle, kind, err, got>>

------------------------------------------------------------------------------

Init ==
  /\ queue = <<>>
  /\ nextID = 0
  /\ cancelled = FALSE
  /\ activeTask = 0
  /\ pc = [p \in Procs |-> IF p \in Clients THEN "idle" ELSE "select"]
  /\ running = [w \in Workers |-> NoTask]
  /\ handle = [p \in Procs |-> NoTask]
  /\ kind = [t \in Tasks |-> "leaf"]
  /\ err = [t \in Tasks |-> "unset"]
  /\ completed = {}
  /\ got = [p \in Procs |-> "none"]

ClientCall(c) ==
  \/ \E k \in {"leaf", "parent"} : SpawnNew(c, k)
  \/ \E t \in Tasks, label \in {"await", "awaitTimeout"} : AwaitCall(c, t, label)
  \/ Stop(c)

ClientStep(c) == SpawnReturn(c) \/ AwaitReturn(c) \/ AwaitExpires(c)

WorkerStep(w) ==
  \/ WorkerExit(w) \/ WorkerTake(w) \/ CountUp(w)
  \/ WorkSpawns(w) \/ WorkSpawned(w) \/ WorkAwaited(w)
  \/ WorkReturns(w) \/ CountDown(w) \/ Close(w)

\* The clients are done and no worker is in the middle of a task.
Finished ==
  /\ \A c \in Clients : pc[c] = "idle"
  /\ \A w \in Workers : pc[w] \in {"select", "exited"}
  /\ UNCHANGED vars

Next ==
  \/ \E c \in Clients : ClientCall(c) \/ ClientStep(c)
  \/ \E w \in Workers : WorkerStep(w)
  \/ Finished

Spec == Init /\ [][Next]_vars

\* Goroutines that can run are run, work returns, timers fire, and a select
\* that is offered its exit again and again takes it in the end.
Fairness ==
  /\ \A c \in Clients : WF_vars(ClientStep(c))
  /\ \A w \in Workers : WF_vars(WorkerStep(w)) /\ SF_vars(WorkerExit(w))

FairSpec == Spec /\ Fairness

------------------------------------------------------------------------------
(* Properties                                                              *)

Outcomes == {"nil", "failed"}

\* The worker has a task in hand, from the receive to the close.
Holding == {"taken", "work", "spawn", "await", "resumed", "worked", "counted"}

\* The worker is between the two atomic updates of activeTask.
Counted == {"work", "spawn", "await", "resumed", "worked"}

\* Every variable has a value of the shape the code gives it.
TypeOK ==
  /\ queue \in Seq(Tasks) /\ Len(queue) <= QueueCap
  /\ nextID \in 0..MaxTasks
  /\ cancelled \in BOOLEAN
  /\ activeTask \in Nat
  /\ \A c \in Clients : pc[c] \in {"idle", "spawn", "await", "awaitTimeout"}
  /\ \A w \in Workers : pc[w] \in Holding \cup {"select", "exited"}
  /\ pc \in [Procs -> Holding \cup {"idle", "awaitTimeout", "select", "exited"}]
  /\ running \in [Workers -> 0..MaxTasks]
  /\ handle \in [Procs -> 0..MaxTasks]
  /\ kind \in [Tasks -> {"leaf", "parent"}]
  /\ err \in [Tasks -> Outcomes \cup {"unset"}]
  /\ completed \subseteq Tasks
  /\ got \in [Procs -> Outcomes \cup {"none", "deadline"}]

\* activeTask is the number of workers inside a task's work, at every step and
\* after failures too (lines 58 and 60).
ActiveCount ==
  activeTask = Cardinality({w \in Workers : pc[w] \in Counted})

\* No task is run twice or closed twice: the tasks the workers hold are
\* distinct, not completed and not queued, and no task is queued twice.
\* Closing a closed channel would panic the process (line 61).
RunOnce ==
  /\ \A w \in Workers : pc[w] \in Holding =>
       /\ running[w] \notin completed
       /\ \A i \in 1..Len(queue) : queue[i] # running[w]
       /\ \A v \in Workers : pc[v] \in Holding /\ running[v] = running[w] => v = w
  /\ \A i, j \in 1..Len(queue) : queue[i] = queue[j] => i = j
  /\ \A i \in 1..Len(queue) : queue[i] \notin completed

\* A completed task has returned, so an Await never reports the zero error of
\* a task that is still at work (lines 59 and 61, 83 and 84).
CompletedReturned ==
  \A t \in completed : err[t] # "unset"

\* An await that reported a task's error reported the one its work returned.
AwaitReports ==
  \A p \in Procs :
    got[p] \in Outcomes =>
      handle[p] \in completed /\ err[handle[p]] = got[p]

\* What an await reports is the error that the work returned, at once and for
\* good: t.err has no lock, only the close orders its write before its reads
\* (lines 59 and 61, 83 and 84), so the error of a completed task stays.
ResultsReported ==
  [][AwaitReports' /\ \A t \in completed : t \in completed' /\ err'[t] = err[t]]_vars

\* The worker holds a task whose child no worker has taken, or which is being
\* spawned onto a full queue.
Waits(w) ==
  \/ pc[w] = "await" /\ \E i \in 1..Len(queue) : queue[i] = handle[w]
  \/ pc[w] = "spawn" /\ Len(queue) = QueueCap

\* Every worker does, so none is left to take a task: the pool never moves
\* again (line 59).
Standstill == \A w \in Workers : Waits(w)

\* A task that has been queued completes in the end, even if whoever awaited
\* it gave up at a deadline, unless the scheduler is stopped or the pool comes
\* to the standstill of parents that all wait for a worker.
TasksComplete ==
  \A t \in Tasks :
    (\E i \in 1..Len(queue) : queue[i] = t)
      ~> t \in completed \/ cancelled \/ Standstill

\* AwaitTimeout always returns, after a Stop and in a standstill too; a Spawn
\* and an Await return unless the scheduler is stopped or every worker holds a
\* parent that waits for a worker (lines 59, 77, 83 and 88 to 94).
CallsReturn ==
  \A c \in Clients :
    /\ pc[c] = "awaitTimeout" ~> pc[c] = "idle"
    /\ pc[c] # "idle" ~> pc[c] = "idle" \/ cancelled \/ Standstill

\* After Stop every worker exits but those whose task awaits one that no worker
\* has taken, or spawns onto a queue that nobody empties: the tasks left in the
\* queue hold up nobody else (lines 52, 77 and 83).
WorkersTerminate ==
  cancelled ~> [](\A w \in Workers : pc[w] = "exited" \/ Waits(w))

==============================================================================
