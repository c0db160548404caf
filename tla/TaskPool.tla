------------------------------ MODULE TaskPool ------------------------------
(***************************************************************************)
(* src/TaskPool: one worker thread, a mutex, a condition variable and a    *)
(* FIFO of std::function.  Every critical section of the code is an action *)
(* of its own, and so is every call made outside the mutex (notify_all,    *)
(* the task itself, join), because that is where threads interleave.       *)
(*                                                                         *)
(* The constructor is modelled too: the members are initialised in the     *)
(* order stop, mtx, thread, cv, tasks (TaskPool.h:10-14), so the worker    *)
(* already runs while cv and tasks are raw memory.                         *)
(***************************************************************************)
EXTENDS Naturals, Sequences

CONSTANTS
  Clients,              \* the threads that call AddTask and are not the worker
  Tasks,                \* the callables, as opaque values
  Worker,               \* the pool's own thread
  Owner,                \* the thread that constructs and destroys the pool
  NoOne,                \* "the mutex is free"
  MaxAdds               \* bound: AddTask is entered at most this many times

ASSUME ThreadsAssumption ==
  /\ Worker \notin Clients
  /\ Owner \notin Clients
  /\ NoOne \notin Clients
  /\ Worker # Owner
  /\ Worker # NoOne
  /\ Owner # NoOne

ASSUME BoundAssumption == MaxAdds \in Nat

VARIABLES
  stop,                 \* TaskPool::stop
  mtx,                  \* the holder of TaskPool::mtx, or NoOne
  tasks,                \* TaskPool::tasks
  wpc,                  \* where the worker is in TaskPool::Worker
  apc,                  \* where each caller is in TaskPool::AddTask
  owner,                \* where the owner is in the constructor or destructor
  added,                \* history: every task pushed, in order
  begun                 \* history: every task the worker took, in order

vars == <<stop, mtx, tasks, wpc, apc, owner, added, begun>>

Callers == Clients \union {Worker}

Init ==
  /\ stop = FALSE
  /\ mtx = NoOne
  /\ tasks = <<>>
  /\ wpc = "unborn"
  /\ apc = [c \in Callers |-> "idle"]
  /\ owner = "thread"
  /\ added = <<>>
  /\ begun = <<>>

\* The constructor has returned.
Built == owner \notin {"thread", "cv", "tasks"}

\* The worker has run into one of the two outcomes of using an unconstructed
\* member that it does not recover from.
Undefined == wpc \in {"crashed", "deaf"}

\* Definitions that start with "Bug" are seeded faults.  No specification uses
\* them; each stands for the definition after it to show that a property fails
\* when the code is wrong in that way.

\* cv.notify_all(): a worker that waits goes back to the top of its loop (the
\* mutex taken and dropped on the way out of wait is taken again there).
NotifyAll == wpc' = IF wpc = "asleep" THEN "lock" ELSE wpc

-----------------------------------------------------------------------------
(* TaskPool::TaskPool                                                       *)

StartThread ==
  /\ owner = "thread"
  /\ owner' = "cv"
  /\ wpc' = "lock"
  /\ UNCHANGED <<stop, mtx, tasks, apc, added, begun>>

BuildCv ==
  /\ owner = "cv"
  /\ owner' = "tasks"
  /\ UNCHANGED <<stop, mtx, tasks, wpc, apc, added, begun>>

BuildTasks ==
  /\ owner = "tasks"
  /\ owner' = "live"
  /\ UNCHANGED <<stop, mtx, tasks, wpc, apc, added, begun>>

-----------------------------------------------------------------------------
(* TaskPool::AddTask                                                        *)

\* Clients hold a live pool; the worker calls AddTask only from inside a task,
\* and then the pool may already be in its destructor.
MayAdd(c) ==
  IF c = Worker THEN wpc = "run" ELSE owner = "live"

AddTaskLock(c) ==
  /\ MayAdd(c)
  /\ apc[c] = "idle"
  /\ mtx = NoOne
  /\ Len(added) < MaxAdds
  /\ mtx' = c
  /\ apc' = [apc EXCEPT ![c] = "push"]
  /\ UNCHANGED <<stop, tasks, wpc, owner, added, begun>>

\* The notification forgotten.
BugAddTaskPush(c, t) ==
  /\ apc[c] = "push"
  /\ tasks' = Append(tasks, t)
  /\ added' = Append(added, t)
  /\ mtx' = NoOne
  /\ apc' = [apc EXCEPT ![c] = "idle"]
  /\ UNCHANGED <<stop, wpc, owner, begun>>

AddTaskPush(c, t) ==
  /\ apc[c] = "push"
  /\ tasks' = Append(tasks, t)
  /\ added' = Append(added, t)
  /\ mtx' = NoOne
  /\ apc' = [apc EXCEPT ![c] = "notify"]
  /\ UNCHANGED <<stop, wpc, owner, begun>>

\* A notification that wakes nobody.
BugAddTaskNotify(c) ==
  /\ apc[c] = "notify"
  /\ apc' = [apc EXCEPT ![c] = "idle"]
  /\ UNCHANGED <<stop, mtx, tasks, wpc, owner, added, begun>>

AddTaskNotify(c) ==
  /\ apc[c] = "notify"
  /\ NotifyAll
  /\ apc' = [apc EXCEPT ![c] = "idle"]
  /\ UNCHANGED <<stop, mtx, tasks, owner, added, begun>>

-----------------------------------------------------------------------------
(* TaskPool::Worker                                                         *)

\* The queue read without the mutex.
BugWorkerLock ==
  /\ wpc = "lock"
  /\ wpc' = "check"
  /\ UNCHANGED <<stop, mtx, tasks, apc, owner, added, begun>>

WorkerLock ==
  /\ wpc = "lock"
  /\ mtx = NoOne
  /\ mtx' = Worker
  /\ wpc' = "check"
  /\ UNCHANGED <<stop, tasks, apc, owner, added, begun>>

\* front() moved out, the back popped.
BugWorkerTake ==
  /\ wpc = "check"
  /\ Built
  /\ tasks # <<>>
  /\ begun' = Append(begun, Head(tasks))
  /\ tasks' = SubSeq(tasks, 1, Len(tasks) - 1)
  /\ mtx' = NoOne
  /\ wpc' = "run"
  /\ UNCHANGED <<stop, apc, owner, added>>

WorkerTake ==
  /\ wpc = "check"
  /\ Built
  /\ tasks # <<>>
  /\ begun' = Append(begun, Head(tasks))
  /\ tasks' = Tail(tasks)
  /\ mtx' = NoOne
  /\ wpc' = "run"
  /\ UNCHANGED <<stop, apc, owner, added>>

\* stop tested before the queue.
BugWorkerEmpty ==
  /\ wpc = "check"
  /\ Built
  /\ stop \/ tasks = <<>>
  /\ wpc' = "empty"
  /\ UNCHANGED <<stop, mtx, tasks, apc, owner, added, begun>>

WorkerEmpty ==
  /\ wpc = "check"
  /\ Built
  /\ tasks = <<>>
  /\ wpc' = "empty"
  /\ UNCHANGED <<stop, mtx, tasks, apc, owner, added, begun>>

WorkerExit ==
  /\ wpc = "empty"
  /\ stop
  /\ mtx' = NoOne
  /\ wpc' = "exit"
  /\ UNCHANGED <<stop, tasks, apc, owner, added, begun>>

\* cv.wait(lock) releases the mutex and starts waiting in one step.
WorkerWait ==
  /\ wpc = "empty"
  /\ ~stop
  /\ mtx' = NoOne
  /\ wpc' = "asleep"
  /\ UNCHANGED <<stop, tasks, apc, owner, added, begun>>

\* tasks.empty() on a queue that is not constructed yet: it is found not empty
\* and its front, garbage, is called; or it is found empty and the worker waits,
\* on the condition variable or on the raw memory that BuildCv will overwrite.
WorkerEarly ==
  /\ wpc = "check"
  /\ ~Built
  /\ mtx' = NoOne
  /\ \/ wpc' = "crashed"
     \/ wpc' = IF owner = "cv" THEN "deaf" ELSE "asleep"
  /\ UNCHANGED <<stop, tasks, apc, owner, added, begun>>

\* condition_variable::wait may return without a notification.
Spurious ==
  /\ wpc = "asleep"
  /\ wpc' = "lock"
  /\ UNCHANGED <<stop, mtx, tasks, apc, owner, added, begun>>

TaskReturns ==
  /\ wpc = "run"
  /\ apc[Worker] = "idle"
  /\ wpc' = "lock"
  /\ UNCHANGED <<stop, mtx, tasks, apc, owner, added, begun>>

-----------------------------------------------------------------------------
(* TaskPool::~TaskPool.  The owner destroys the pool when no client is      *)
(* inside AddTask, as the lifetime of a C++ object demands.                 *)

DtorLock ==
  /\ owner = "live"
  /\ \A c \in Clients : apc[c] = "idle"
  /\ mtx = NoOne
  /\ mtx' = Owner
  /\ owner' = "locked"
  /\ UNCHANGED <<stop, tasks, wpc, apc, added, begun>>

DtorStop ==
  /\ owner = "locked"
  /\ stop' = TRUE
  /\ mtx' = NoOne
  /\ owner' = "notify"
  /\ UNCHANGED <<tasks, wpc, apc, added, begun>>

\* The destructor joins without waking the worker.
BugDtorNotify ==
  /\ owner = "notify"
  /\ owner' = "join"
  /\ UNCHANGED <<stop, mtx, tasks, wpc, apc, added, begun>>

DtorNotify ==
  /\ owner = "notify"
  /\ NotifyAll
  /\ owner' = "join"
  /\ UNCHANGED <<stop, mtx, tasks, apc, added, begun>>

DtorJoin ==
  /\ owner = "join"
  /\ wpc = "exit"
  /\ owner' = "gone"
  /\ UNCHANGED <<stop, mtx, tasks, wpc, apc, added, begun>>

-----------------------------------------------------------------------------
Ctor == StartThread \/ BuildCv \/ BuildTasks

AddTask(c) ==
  \/ AddTaskLock(c)
  \/ \E t \in Tasks : AddTaskPush(c, t)
  \/ AddTaskNotify(c)

WorkerStep ==
  \/ WorkerLock
  \/ WorkerTake
  \/ WorkerEmpty
  \/ WorkerExit
  \/ WorkerWait
  \/ WorkerEarly
  \/ TaskReturns

Dtor == DtorLock \/ DtorStop \/ DtorNotify \/ DtorJoin

\* The process lives on after the pool, or has died of undefined behaviour.
Halted ==
  /\ owner = "gone" \/ Undefined
  /\ UNCHANGED vars

Next ==
  \/ /\ wpc # "crashed"
     /\ \/ Ctor
        \/ \E c \in Callers : AddTask(c)
        \/ WorkerStep
        \/ Spurious
        \/ Dtor
  \/ Halted

\* A thread that can run does: the scheduler is fair to the worker, to an
\* AddTask in progress and to a constructor or destructor in progress.  Nobody
\* has to call AddTask or to destroy the pool.
Fairness ==
  /\ WF_vars(wpc # "crashed" /\ Ctor)
  /\ WF_vars(wpc # "crashed" /\ WorkerStep)
  /\ WF_vars(wpc # "crashed" /\ (DtorStop \/ DtorNotify \/ DtorJoin))
  /\ \A c \in Callers :
       WF_vars(/\ wpc # "crashed"
               /\ (\E t \in Tasks : AddTaskPush(c, t)) \/ AddTaskNotify(c))

Spec == Init /\ [][Next]_vars
FairSpec == Spec /\ Fairness

-----------------------------------------------------------------------------
(* The inductive invariant behind the guarantees.                           *)

\* Who holds the mutex is where in the code that says.
MutexInv ==
  /\ mtx = Worker <=> wpc \in {"check", "empty"} \/ apc[Worker] = "push"
  /\ \A c \in Clients : mtx = c <=> apc[c] = "push"
  /\ mtx = Owner <=> owner = "locked"
  /\ apc[Worker] # "idle" => wpc = "run"

\* How far the owner is bounds what everybody else can be doing.
LifeInv ==
  /\ owner # "live" => \A c \in Clients : apc[c] = "idle"
  /\ stop <=> owner \in {"notify", "join", "gone"}
  /\ ~Built => tasks = <<>>
  /\ wpc = "unborn" <=> owner = "thread"
  /\ wpc = "run" => Built
  /\ wpc = "empty" => Built /\ tasks = <<>>
  /\ wpc = "exit" => stop /\ tasks = <<>>
  /\ owner = "gone" => wpc = "exit"

-----------------------------------------------------------------------------
(* What the pool guarantees.                                                *)

\* The type of every variable.
TypeOK ==
  /\ stop \in BOOLEAN
  /\ mtx \in Callers \union {Owner, NoOne}
  /\ tasks \in Seq(Tasks)
  /\ wpc \in {"unborn", "lock", "check", "empty", "run", "asleep", "exit",
              "deaf", "crashed"}
  /\ apc \in [Callers -> {"idle", "push", "notify"}]
  /\ owner \in {"thread", "cv", "tasks", "live", "locked", "notify", "join", "gone"}
  /\ added \in Seq(Tasks)
  /\ begun \in Seq(Tasks)

\* Nothing is lost, run twice or overtaken: what the worker has taken, followed
\* by what still waits, is exactly what AddTask was given, in that order
\* (TaskPool.cpp:17 against 26-27, across every interleaving of callers).
FifoOnce == added = begun \o tasks

\* A worker that waits has nothing to do, or somebody is about to wake it: the
\* queue and stop are tested and the wait entered under one mutex hold
\* (TaskPool.cpp:24-33), and both notify_all calls follow their change and come
\* after their unlock (lines 10, 19).
NoLostWakeup ==
  wpc = "asleep" =>
    /\ tasks # <<>> => \E c \in Callers : apc[c] = "notify"
    /\ stop => owner = "notify"

\* The destructor's join returns only after every task, also those that running
\* tasks added during the shutdown, has been taken and has returned
\* (TaskPool.cpp:25-31: the queue is tested before stop).
DrainedOnJoin ==
  wpc = "exit" \/ owner = "gone" =>
    /\ stop
    /\ begun = added
    /\ \A c \in Callers : apc[c] = "idle"

\* A task that was added is taken by the worker, whatever else happens, also
\* when the pool is being destroyed, unless construction already went wrong.
EveryTaskRuns ==
  \A n \in 1..MaxAdds : Len(added) >= n ~> Len(begun) >= n \/ Undefined

\* A destructor that was entered returns: the worker is never left waiting
\* after its last notification (TaskPool.cpp:10-11).
DestructorReturns == owner = "locked" ~> owner = "gone" \/ Undefined

\* All of it together is inductive.
PoolInv == TypeOK /\ MutexInv /\ LifeInv /\ FifoOnce /\ NoLostWakeup

\* The pool implements TaskQueue.
Queue == INSTANCE TaskQueue WITH
  pending <- tasks,
  running <- IF wpc = "run" THEN <<begun[Len(begun)]>> ELSE <<>>,
  phase   <- IF owner = "gone" THEN "closed" ELSE IF stop THEN "closing" ELSE "open"

\* Every step of the pool is a step of the abstract queue or changes nothing
\* the queue talks about.
ImplementsQueue == Queue!Spec
=============================================================================
