----------------------------- MODULE TaskQueue -----------------------------
(***************************************************************************)
(* What a task pool promises to the code that uses it, with no mutex,      *)
(* condition variable or thread in sight: tasks are started one at a time, *)
(* in the order in which they were submitted; whoever holds the pool may   *)
(* submit while it is open, a running task may submit at any time; once    *)
(* closed, nothing is left behind.                                         *)
(*                                                                         *)
(* TaskPool implements this specification (see TaskPool!Queue) and AsyncDb *)
(* uses it in place of the pool that DB owns (sciter-sqlite.h).            *)
(***************************************************************************)
EXTENDS Sequences

CONSTANT Tasks          \* the std::function<void()> objects, as opaque values

VARIABLES
  pending,              \* submitted and not yet started, oldest first
  running,              \* << >> or << t >>: the task the worker executes
  phase                 \* "open", "closing" (destructor entered), "closed"

vars == <<pending, running, phase>>

TypeOK ==
  /\ pending \in Seq(Tasks)
  /\ running \in {<<>>} \union {<<t>> : t \in Tasks}
  /\ phase \in {"open", "closing", "closed"}

Init ==
  /\ pending = <<>>
  /\ running = <<>>
  /\ phase = "open"

\* AddTask: from outside while the pool lives, or from the task being run.
Submit(t) ==
  /\ phase = "open" \/ running # <<>>
  /\ pending' = Append(pending, t)
  /\ UNCHANGED <<running, phase>>

\* The worker takes the oldest task.
Start ==
  /\ running = <<>>
  /\ pending # <<>>
  /\ running' = <<Head(pending)>>
  /\ pending' = Tail(pending)
  /\ UNCHANGED phase

\* The task returns.
Finish ==
  /\ running # <<>>
  /\ running' = <<>>
  /\ UNCHANGED <<pending, phase>>

\* The destructor announces the end; queued tasks still run.
Shutdown ==
  /\ phase = "open"
  /\ phase' = "closing"
  /\ UNCHANGED <<pending, running>>

\* The destructor returns: everything submitted has been run.
Close ==
  /\ phase = "closing"
  /\ pending = <<>>
  /\ running = <<>>
  /\ phase' = "closed"
  /\ UNCHANGED <<pending, running>>

Next ==
  \/ \E t \in Tasks : Submit(t)
  \/ Start
  \/ Finish
  \/ Shutdown
  \/ Close

Spec == Init /\ [][Next]_vars
=============================================================================
