---------------------------- MODULE ProjectFile ----------------------------
(***************************************************************************)
(* What the user of the wizard relies on, with no transaction, process or  *)
(* symbol in sight: a build replaces what the output file held by a        *)
(* finished database in one step, or leaves it alone; a finished database  *)
(* is never lost to a later build; Done is offered after success only.     *)
(* DatabaseBuilder implements it.                                          *)
(***************************************************************************)

VARIABLES
  held,                 \* the output: "none", "empty", "other", "finished"
  build,                \* the last build: "none", "running", "stored", "ok", "failed"
  offered               \* the wizard offers "Done"

vars == <<held, build, offered>>

Underway == build \in {"running", "stored"}

Init ==
  /\ held \in {"none", "other"}
  /\ build = "none"
  /\ offered = FALSE

\* One build at a time.
Start ==
  /\ ~Underway
  /\ build' = "running"
  /\ offered' = FALSE
  /\ UNCHANGED held

\* An output that is not there is made, without tables.
Create ==
  /\ build = "running"
  /\ held = "none"
  /\ held' = "empty"
  /\ UNCHANGED <<build, offered>>

\* The whole database at once.
Store ==
  /\ build = "running"
  /\ held' = "finished"
  /\ build' = "stored"
  /\ UNCHANGED offered

Succeed ==
  /\ build = "stored"
  /\ build' = "ok"
  /\ UNCHANGED <<held, offered>>

\* Any failure and any kill, also after the database is stored.
Break ==
  /\ Underway
  /\ build' = "failed"
  /\ UNCHANGED <<held, offered>>

Offer ==
  /\ build = "ok"
  /\ offered' = TRUE
  /\ UNCHANGED <<held, build>>

Next ==
  \/ Start
  \/ Create
  \/ Store
  \/ Succeed
  \/ Break
  \/ Offer

Spec == Init /\ [][Next]_vars
=============================================================================
