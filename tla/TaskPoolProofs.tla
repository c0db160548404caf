--------------------------- MODULE TaskPoolProofs ---------------------------
(* The pool's invariants and its refinement of TaskQueue, for any set of     *)
(* clients, any set of tasks and any bound on the number of AddTask calls.   *)
EXTENDS TaskPool, SequenceTheorems, TLAPS

-----------------------------------------------------------------------------
(* Queues, and histories that end in one.                                    *)

\* Pushing on the queue extends the whole history by the same element.
LEMMA PushExtends ==
  ASSUME NEW S, NEW s \in Seq(S), NEW q \in Seq(S), NEW x \in S
  PROVE  s \o Append(q, x) = Append(s \o q, x)
<1>1. Append(q, x) = q \o <<x>> /\ <<x>> \in Seq(S) /\ s \o q \in Seq(S)
  BY AppendIsConcat, ConcatProperties
<1>2. s \o (q \o <<x>>) = (s \o q) \o <<x>>
  BY <1>1, ConcatAssociative
<1>. QED
  BY <1>1, <1>2, AppendIsConcat

\* Moving the front of the queue to the end of what was begun changes nothing.
LEMMA PopKeeps ==
  ASSUME NEW S, NEW s \in Seq(S), NEW q \in Seq(S), q # <<>>
  PROVE  /\ Append(s, Head(q)) \o Tail(q) = s \o q
         /\ Head(q) \in S
         /\ Tail(q) \in Seq(S)
<1>1. Head(q) \in S /\ Tail(q) \in Seq(S) /\ q = <<Head(q)>> \o Tail(q)
  BY HeadTailProperties, HeadTailAppend, SMTT(30)
<1>2. Append(s, Head(q)) = s \o <<Head(q)>>
  BY <1>1, AppendIsConcat
<1>3. (s \o <<Head(q)>>) \o Tail(q) = s \o (<<Head(q)>> \o Tail(q))
  BY <1>1, ConcatAssociative
<1>. QED
  BY <1>1, <1>2, <1>3

-----------------------------------------------------------------------------
(* The invariant.                                                            *)

LEMMA InitInv == Init => PoolInv
<1> SUFFICES ASSUME Init PROVE PoolInv
  OBVIOUS
<1>1. TypeOK
  <2>1. <<>> \in Seq(Tasks)
    BY EmptySeq
  <2>2. apc \in [Callers -> {"idle", "push", "notify"}]
    BY DEF Init
  <2>. QED
    BY <2>1, <2>2 DEF Init, TypeOK
<1>2. MutexInv
  BY ThreadsAssumption DEF Init, MutexInv, Callers
<1>3. LifeInv /\ NoLostWakeup
  BY DEF Init, LifeInv, NoLostWakeup, Built, Callers
<1>4. FifoOnce
  BY DEF Init, FifoOnce
<1>. QED
  BY <1>1, <1>2, <1>3, <1>4 DEF PoolInv

\* The history grows exactly as the queue does.
LEMMA FifoStep ==
  ASSUME TypeOK, FifoOnce, [Next]_vars
  PROVE  FifoOnce'
<1>1. CASE \E c \in Callers, t \in Tasks : AddTaskPush(c, t)
  <2>1. PICK c \in Callers, t \in Tasks : AddTaskPush(c, t)
    BY <1>1
  <2>2. begun \o Append(tasks, t) = Append(begun \o tasks, t)
    BY PushExtends DEF TypeOK
  <2>. QED
    BY <2>1, <2>2 DEF AddTaskPush, FifoOnce
<1>2. CASE WorkerTake
  <2>1. Append(begun, Head(tasks)) \o Tail(tasks) = begun \o tasks
    BY <1>2, PopKeeps DEF WorkerTake, TypeOK
  <2>. QED
    BY <1>2, <2>1 DEF WorkerTake, FifoOnce
<1>3. ASSUME UNCHANGED <<tasks, added, begun>>
      PROVE  FifoOnce'
  BY <1>3 DEF FifoOnce
<1>4. CASE Ctor
  BY <1>3, <1>4 DEF Ctor, StartThread, BuildCv, BuildTasks
<1>5. CASE \E c \in Callers : AddTaskLock(c) \/ AddTaskNotify(c)
  BY <1>3, <1>5 DEF AddTaskLock, AddTaskNotify
<1>6. CASE WorkerStep /\ ~WorkerTake
  BY <1>3, <1>6 DEF WorkerStep, WorkerLock, WorkerEmpty, WorkerExit, WorkerWait,
                    WorkerEarly, TaskReturns
<1>7. CASE Spurious \/ Dtor
  BY <1>3, <1>7 DEF Spurious, Dtor, DtorLock, DtorStop, DtorNotify, DtorJoin
<1>8. CASE UNCHANGED vars
  BY <1>3, <1>8 DEF vars
<1>. QED
  BY <1>1, <1>2, <1>4, <1>5, <1>6, <1>7, <1>8 DEF Next, AddTask, Halted

\* Types, the mutex, the life cycle and the wakeup condition hold together: each
\* action is covered once, with the sequence facts where it moves a task.
LEMMA CoreStep ==
  ASSUME TypeOK, MutexInv, LifeInv, NoLostWakeup, [Next]_vars
  PROVE  (TypeOK /\ MutexInv /\ LifeInv /\ NoLostWakeup)'
<1> USE ThreadsAssumption DEF TypeOK, MutexInv, LifeInv, NoLostWakeup, Built, Callers
<1>1. CASE StartThread
  BY <1>1 DEF StartThread
<1>2. CASE BuildCv
  BY <1>2 DEF BuildCv
<1>3. CASE BuildTasks
  BY <1>3 DEF BuildTasks
<1>4. CASE \E c \in Callers : AddTaskLock(c)
  BY <1>4 DEF AddTaskLock, MayAdd
<1>5. CASE \E c \in Callers, t \in Tasks : AddTaskPush(c, t)
  <2>1. PICK c \in Callers, t \in Tasks : AddTaskPush(c, t)
    BY <1>5
  <2>2. tasks' \in Seq(Tasks) /\ added' \in Seq(Tasks)
    BY <2>1, AppendProperties DEF AddTaskPush
  <2>. QED
    BY <2>1, <2>2 DEF AddTaskPush
<1>6. CASE \E c \in Callers : AddTaskNotify(c)
  BY <1>6 DEF AddTaskNotify, NotifyAll
<1>7. CASE WorkerLock
  BY <1>7 DEF WorkerLock
<1>8. CASE WorkerTake
  <2>1. tasks' \in Seq(Tasks) /\ begun' \in Seq(Tasks)
    BY <1>8, AppendProperties, HeadTailProperties DEF WorkerTake
  <2>. QED
    BY <1>8, <2>1 DEF WorkerTake
<1>9. CASE WorkerEmpty
  BY <1>9 DEF WorkerEmpty
<1>10. CASE WorkerExit
  BY <1>10 DEF WorkerExit
<1>11. CASE WorkerWait
  BY <1>11 DEF WorkerWait
<1>12. CASE WorkerEarly
  BY <1>12 DEF WorkerEarly
<1>13. CASE Spurious
  BY <1>13 DEF Spurious
<1>14. CASE TaskReturns
  BY <1>14 DEF TaskReturns
<1>15. CASE DtorLock
  BY <1>15 DEF DtorLock
<1>16. CASE DtorStop
  BY <1>16 DEF DtorStop
<1>17. CASE DtorNotify
  BY <1>17 DEF DtorNotify, NotifyAll
<1>18. CASE DtorJoin
  BY <1>18 DEF DtorJoin
<1>19. CASE UNCHANGED vars
  BY <1>19 DEF vars
<1>. QED
  BY <1>1, <1>2, <1>3, <1>4, <1>5, <1>6, <1>7, <1>8, <1>9, <1>10,
     <1>11, <1>12, <1>13, <1>14, <1>15, <1>16, <1>17, <1>18, <1>19
     DEF Next, Ctor, AddTask, WorkerStep, Dtor, Halted

\* PoolInv is an invariant of the pool.
THEOREM PoolInvariant == Spec => []PoolInv
<1>1. Init => PoolInv
  BY InitInv
<1>2. PoolInv /\ [Next]_vars => PoolInv'
  BY FifoStep, CoreStep DEF PoolInv
<1>. QED
  BY <1>1, <1>2, PTL DEF Spec

-----------------------------------------------------------------------------
(* The guarantees.                                                           *)

\* Every variable keeps its type.
THEOREM TypeCorrect == Spec => []TypeOK
<1>1. PoolInv => TypeOK
  BY DEF PoolInv
<1>. QED
  BY <1>1, PoolInvariant, PTL

\* No interleaving of callers loses, repeats or reorders a task.
THEOREM Fifo == Spec => []FifoOnce
<1>1. PoolInv => FifoOnce
  BY DEF PoolInv
<1>. QED
  BY <1>1, PoolInvariant, PTL

\* The worker never waits while there is work or a stop nobody will announce.
THEOREM WakeupNotLost == Spec => []NoLostWakeup
<1>1. PoolInv => NoLostWakeup
  BY DEF PoolInv
<1>. QED
  BY <1>1, PoolInvariant, PTL

\* When the destructor may join the worker, every task ever added has been run.
THEOREM Drained == Spec => []DrainedOnJoin
<1>1. ASSUME PoolInv, wpc = "exit"
      PROVE  /\ stop /\ begun = added
             /\ \A c \in Callers : apc[c] = "idle"
  <2>1. stop /\ tasks = <<>>
    BY <1>1 DEF PoolInv, LifeInv
  <2>2. begun = added
    BY <1>1, <2>1, ConcatEmptySeq DEF PoolInv, FifoOnce, TypeOK
  <2>3. \A c \in Callers : apc[c] = "idle"
    BY <1>1, <2>1 DEF PoolInv, LifeInv, MutexInv, Callers
  <2>. QED
    BY <2>1, <2>2, <2>3
<1>2. PoolInv /\ owner = "gone" => wpc = "exit"
  BY DEF PoolInv, LifeInv
<1>3. PoolInv => DrainedOnJoin
  BY <1>1, <1>2 DEF DrainedOnJoin
<1>. QED
  BY <1>3, PoolInvariant, PTL

-----------------------------------------------------------------------------
(* Refinement of TaskQueue.                                                  *)

\* A step that changes neither the queue, nor whether a task runs, nor the phase
\* is a stuttering step of the abstract queue.
LEMMA Stutter ==
  ASSUME UNCHANGED <<tasks, begun, stop>>,
         wpc = "run" <=> wpc' = "run",
         owner = "gone" <=> owner' = "gone"
  PROVE  UNCHANGED Queue!vars
BY DEF Queue!vars

\* Every step of the pool is a step of the abstract queue, or a stutter.
LEMMA StepRefines ==
  ASSUME PoolInv, [Next]_vars
  PROVE  [Queue!Next]_(Queue!vars)
<1> USE DEF PoolInv, TypeOK, LifeInv, MutexInv, Built, Callers
<1>1. CASE Ctor
  <2>1. UNCHANGED <<tasks, begun, stop>> /\ wpc # "run" /\ wpc' # "run"
    BY <1>1 DEF Ctor, StartThread, BuildCv, BuildTasks
  <2>2. owner # "gone" /\ owner' # "gone"
    BY <1>1 DEF Ctor, StartThread, BuildCv, BuildTasks
  <2>. QED
    BY <2>1, <2>2, Stutter
<1>2. CASE \E c \in Callers : AddTaskLock(c) \/ AddTaskNotify(c)
  <2>1. UNCHANGED <<tasks, begun, stop, owner>> /\ (wpc = "run" <=> wpc' = "run")
    BY <1>2 DEF AddTaskLock, AddTaskNotify, NotifyAll
  <2>. QED
    BY <2>1, Stutter
<1>3. CASE \E c \in Callers, t \in Tasks : AddTaskPush(c, t)
  <2>1. PICK c \in Callers, t \in Tasks : AddTaskPush(c, t)
    BY <1>3
  <2>2. c = Worker => wpc = "run"
    BY <2>1 DEF AddTaskPush
  <2>3. c # Worker => owner = "live" /\ ~stop
    BY <2>1 DEF AddTaskPush
  <2>4. Queue!Submit(t)
    BY <2>1, <2>2, <2>3 DEF AddTaskPush, Queue!Submit
  <2>. QED
    BY <2>4 DEF Queue!Next
<1>4. CASE WorkerTake
  <2>1. /\ begun' = Append(begun, Head(tasks))
        /\ begun'[Len(begun')] = Head(tasks)
    BY <1>4, AppendProperties, HeadTailProperties DEF WorkerTake
  <2>2. Queue!Start
    BY <1>4, <2>1 DEF WorkerTake, Queue!Start
  <2>. QED
    BY <2>2 DEF Queue!Next
<1>5. CASE WorkerStep /\ ~WorkerTake /\ ~TaskReturns
  <2>1. UNCHANGED <<tasks, begun, stop, owner>> /\ wpc # "run" /\ wpc' # "run"
    BY <1>5 DEF WorkerStep, WorkerLock, WorkerEmpty, WorkerExit, WorkerWait, WorkerEarly
  <2>. QED
    BY <2>1, Stutter
<1>6. CASE Spurious
  <2>1. UNCHANGED <<tasks, begun, stop, owner>> /\ wpc # "run" /\ wpc' # "run"
    BY <1>6 DEF Spurious
  <2>. QED
    BY <2>1, Stutter
<1>7. CASE TaskReturns
  <2>1. Queue!Finish
    BY <1>7 DEF TaskReturns, Queue!Finish
  <2>. QED
    BY <2>1 DEF Queue!Next
<1>8. CASE DtorLock \/ DtorNotify
  <2>1. UNCHANGED <<tasks, begun, stop>> /\ (wpc = "run" <=> wpc' = "run")
    BY <1>8 DEF DtorLock, DtorNotify, NotifyAll
  <2>2. owner # "gone" /\ owner' # "gone"
    BY <1>8 DEF DtorLock, DtorNotify
  <2>. QED
    BY <2>1, <2>2, Stutter
<1>9. CASE DtorStop
  <2>1. Queue!Shutdown
    BY <1>9 DEF DtorStop, Queue!Shutdown
  <2>. QED
    BY <2>1 DEF Queue!Next
<1>10. CASE DtorJoin
  <2>1. Queue!Close
    BY <1>10 DEF DtorJoin, Queue!Close
  <2>. QED
    BY <2>1 DEF Queue!Next
<1>11. CASE UNCHANGED vars
  BY <1>11, Stutter DEF vars
<1>. QED
  BY <1>1, <1>2, <1>3, <1>4, <1>5, <1>6, <1>7, <1>8, <1>9, <1>10, <1>11
     DEF Next, AddTask, WorkerStep, Dtor, Halted

\* The pool implements the abstract queue, for every number of clients.
THEOREM PoolRefinesQueue == Spec => ImplementsQueue
<1>1. Init => Queue!Init
  BY DEF Init, Queue!Init
<1>2. PoolInv /\ [Next]_vars => [Queue!Next]_(Queue!vars)
  BY StepRefines
<1>. QED
  BY <1>1, <1>2, PoolInvariant, PTL DEF Spec, ImplementsQueue, Queue!Spec
=============================================================================
