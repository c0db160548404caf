----------------------------- MODULE MCTaskPool -----------------------------
(* Two client threads and the worker itself as callers of AddTask, two       *)
(* distinguishable tasks, at most four calls.                                *)
EXTENDS TaskPool
=============================================================================
