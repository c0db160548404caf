----------------------------- MODULE MCAsyncDb ------------------------------
(* Enough calls for a query on the script thread, one on the worker and one   *)
(* or two queued behind it.                                                   *)
EXTENDS AsyncDb
=============================================================================
