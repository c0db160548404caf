------------------------------ MODULE AsyncDb ------------------------------
(***************************************************************************)
(* The sqlite extension of the GUI: a DB asset (sciter-sqlite.h) that the  *)
(* script thread uses directly (exec, close) and through the worker of its *)
(* own TaskPool (execCallback), the Recordsets that queries leave behind,  *)
(* and the destructor.  The two threads share the member pDb without any   *)
(* synchronisation, and the sqlite3 connection it points to.               *)
(*                                                                         *)
(* Each call of sqlite is one atomic step (the library is built            *)
(* serialised); DB::exec is as many steps as it makes calls that depend on *)
(* pDb, because the other thread can close the connection between any two. *)
(* The argument pDb is read in the step that makes the call: reading it,   *)
(* losing the connection and then calling has the same outcomes as calling *)
(* after Close and before NullPDb.                                         *)
(***************************************************************************)
EXTENDS Naturals, Sequences

CONSTANT MaxExec        \* bound: exec and execCallback are called this often

ASSUME MaxExecAssumption == MaxExec \in Nat

VARIABLES
  conn,                 \* the sqlite3 object: "open" or "closed" (freed)
  pDb,                  \* DB::pDb is not nullptr
  object,               \* the DB asset: "live", "dying" (in ~DB), "gone"
  nulling,              \* the script thread is inside DB::close, line 19
  frame,                \* where each thread is in DB::exec, and for which call
  stmt,                 \* the statement of each call
  recset,               \* the Recordset of each call
  pst,                  \* Recordset::pst is not nullptr
  issued,               \* number of calls made so far; they are numbered from 1
  asked,                \* history: the calls made by execCallback, in order
  answered,             \* history: the calls whose callback has been called
  hasty,                \* history: the DB was closed or destroyed with callbacks
                        \*   still to come
  refused,              \* history: the connection was to be closed when an exec or
                        \*   a Recordset had a statement
  crashed,              \* the process died of undefined behaviour
  marshal,              \* does cb.call wait for the script thread?  The GUI
                        \*   engine decides; both are examined
  pending, running, phase       \* DB::pool, see TaskQueue

vars == <<conn, pDb, object, nulling, frame, stmt, recset, pst, issued, asked,
          answered, hasty, refused, crashed, marshal, pending, running, phase>>

poolVars == <<pending, running, phase>>

Calls == 1..MaxExec
Threads == {"script", "worker"}

Pool == INSTANCE TaskQueue WITH Tasks <- Calls

Idle == [pc |-> "idle", id |-> 0]

Init ==
  /\ conn = "open"
  /\ pDb = TRUE
  /\ object = "live"
  /\ nulling = FALSE
  /\ frame = [th \in Threads |-> Idle]
  /\ stmt = [id \in Calls |-> "none"]
  /\ recset = [id \in Calls |-> "none"]
  /\ pst = [id \in Calls |-> FALSE]
  /\ issued = 0
  /\ asked = <<>>
  /\ answered = <<>>
  /\ hasty = FALSE
  /\ refused = FALSE
  /\ crashed = FALSE
  /\ marshal \in BOOLEAN
  /\ Pool!Init

\* The script thread is in its message loop, free to run script or callbacks.
ScriptIdle == frame["script"] = Idle /\ ~nulling /\ object # "dying"

\* The handle a thread passes to sqlite is usable, or it points to freed memory.
Usable == pDb /\ conn = "open"
Dangling == pDb /\ conn = "closed"

\* Statements that have not been finalized.
LiveStmts == {id \in Calls : stmt[id] \in {"ready", "row"}}

\* The calls whose statement an exec in progress has in its local variable pst.
HeldByFrame == {frame[th].id : th \in {t \in Threads : frame[t].pc = "step"}}

\* The calls whose statement a Recordset has in its member pst.
HeldByRecordset == {id \in Calls : recset[id] \in {"inflight", "open"} /\ pst[id]}

Held == HeldByFrame \union HeldByRecordset

Goto(th, pc) == frame' = [frame EXCEPT ![th].pc = pc]

\* Definitions that start with "Bug" are seeded faults.  No specification uses
\* them; each stands for the definition after it to show that a property fails
\* when the code is wrong in that way.

\* The script's call returns without leaving its frame clean.
BugLeave(th) ==
  Goto(th, IF th = "worker" THEN "callback" ELSE "idle")

\* An exec that fails on the worker never calls back.
BugLoseCallback(th) == frame' = [frame EXCEPT ![th] = Idle]

\* exec leaves by a throw or a return: on the script thread to its caller, on
\* the worker to the callback.
Leave(th) ==
  frame' = [frame EXCEPT ![th] = IF th = "worker" THEN [@ EXCEPT !.pc = "callback"]
                                                  ELSE Idle]

Crash == crashed' = TRUE

-----------------------------------------------------------------------------
(* Calls of exec and execCallback.                                          *)

ExecSync ==
  /\ ScriptIdle
  /\ object = "live"
  /\ issued < MaxExec
  /\ issued' = issued + 1
  /\ frame' = [frame EXCEPT !["script"] = [pc |-> "check", id |-> issued']]
  /\ UNCHANGED <<conn, pDb, object, nulling, stmt, recset, pst, asked, answered,
                 hasty, refused, crashed, marshal, poolVars>>

\* A callback may issue the next query: on the worker itself when cb.call does
\* not change threads.
ExecCallback ==
  /\ object = "live"
  /\ ScriptIdle \/ (frame["worker"].pc = "callback" /\ ~marshal)
  /\ issued < MaxExec
  /\ issued' = issued + 1
  /\ asked' = Append(asked, issued')
  /\ Pool!Submit(issued')
  /\ UNCHANGED <<conn, pDb, object, nulling, frame, stmt, recset, pst, answered,
                 hasty, refused, crashed, marshal>>

\* The worker takes the next task and calls exec.
WorkerStart ==
  /\ Pool!Start
  /\ frame' = [frame EXCEPT !["worker"] = [pc |-> "check", id |-> Head(pending)]]
  /\ UNCHANGED <<conn, pDb, object, nulling, stmt, recset, pst, issued, asked,
                 answered, hasty, refused, crashed, marshal>>

\* Recordset::close, called also by next at the end of the set or on an error, with
\* pst left as it was.
BugCloseRecordset(id) ==
  /\ pst[id]
  /\ stmt' = [stmt EXCEPT ![id] = "final"]
  /\ UNCHANGED <<recset, pst>>

\* Recordset::close; next calls it at the end of the set or on an error.  Without
\* a statement close returns and next throws, and nothing changes.
CloseRecordset(id) ==
  /\ pst[id]
  /\ stmt' = [stmt EXCEPT ![id] = "final"]
  /\ pst' = [pst EXCEPT ![id] = FALSE]
  /\ UNCHANGED recset

\* Recordset::~Recordset, after close or without it.
DestroyRecordset(id) ==
  /\ recset' = [recset EXCEPT ![id] = "gone"]
  /\ stmt' = IF pst[id] THEN [stmt EXCEPT ![id] = "final"] ELSE stmt
  /\ UNCHANGED pst

\* The task is over before its callback has been called.
BugCallback ==
  /\ frame["worker"].pc = "callback"
  /\ marshal => ScriptIdle
  /\ recset' = [recset EXCEPT ![frame["worker"].id] =
                  IF @ = "inflight" THEN "open" ELSE @]
  /\ frame' = [frame EXCEPT !["worker"] = Idle]
  /\ Pool!Finish
  /\ UNCHANGED <<conn, pDb, object, nulling, stmt, pst, issued, asked, answered,
                 hasty, refused, crashed, marshal>>

\* The callback runs and the task ends.  The Recordset, if there is one, now
\* belongs to the script; if the script did not keep it, it goes with the task.
Callback ==
  /\ frame["worker"].pc = "callback"
  /\ marshal => ScriptIdle
  /\ LET id == frame["worker"].id
     IN  /\ answered' = Append(answered, id)
         /\ \/ /\ recset' = [recset EXCEPT ![id] = IF @ = "inflight" THEN "open" ELSE @]
               /\ UNCHANGED <<stmt, pst>>
            \/ recset[id] = "inflight" /\ DestroyRecordset(id)
  /\ frame' = [frame EXCEPT !["worker"] = Idle]
  /\ Pool!Finish
  /\ UNCHANGED <<conn, pDb, object, nulling, issued, asked, hasty, refused, crashed,
                 marshal>>

-----------------------------------------------------------------------------
(* DB::exec                                                                 *)

\* if (!pDb) throw "DB is already closed"
Check(th) ==
  /\ frame[th].pc = "check"
  /\ IF pDb THEN Goto(th, "prepare") ELSE Leave(th)
  /\ UNCHANGED <<conn, pDb, object, nulling, stmt, recset, pst, issued, asked,
                 answered, hasty, refused, crashed, marshal, poolVars>>

\* sqlite3_prepare16: a null handle is refused, a freed one crashes or is.
Prepare(th) ==
  /\ frame[th].pc = "prepare"
  /\ \/ /\ Usable
        /\ stmt' = [stmt EXCEPT ![frame[th].id] = "ready"]
        /\ Goto(th, "step")
        /\ UNCHANGED crashed
     \/ /\ Goto(th, "errmsg")
        /\ UNCHANGED <<stmt, crashed>>
     \/ /\ Dangling
        /\ Crash
        /\ UNCHANGED <<stmt, frame>>
  /\ UNCHANGED <<conn, pDb, object, nulling, recset, pst, issued, asked, answered,
                 hasty, refused, marshal, poolVars>>

\* The statement forgotten on the way out.
BugBindFails(th) ==
  /\ frame[th].pc = "step"
  /\ Leave(th)
  /\ UNCHANGED <<conn, pDb, object, nulling, stmt, recset, pst, issued, asked, answered,
                 hasty, refused, crashed, marshal, poolVars>>

\* A parameter of a type that cannot be bound: finalize and throw.
BindFails(th) ==
  /\ frame[th].pc = "step"
  /\ stmt' = [stmt EXCEPT ![frame[th].id] = "final"]
  /\ Leave(th)
  /\ UNCHANGED <<conn, pDb, object, nulling, recset, pst, issued, asked, answered,
                 hasty, refused, crashed, marshal, poolVars>>

\* sqlite3_step finds a row: the statement goes to a new Recordset.
StepRow(th) ==
  /\ frame[th].pc = "step"
  /\ stmt' = [stmt EXCEPT ![frame[th].id] = "row"]
  /\ recset' = [recset EXCEPT ![frame[th].id] =
                  IF th = "worker" THEN "inflight" ELSE "open"]
  /\ pst' = [pst EXCEPT ![frame[th].id] = TRUE]
  /\ Leave(th)
  /\ UNCHANGED <<conn, pDb, object, nulling, issued, asked, answered, hasty, refused,
                 crashed, marshal, poolVars>>

\* sqlite3_step is done, misused or in error: finalize, then ask the connection
\* for the number of changes or for the message.
StepEnds(th) ==
  /\ frame[th].pc = "step"
  /\ stmt' = [stmt EXCEPT ![frame[th].id] = "final"]
  /\ \E pc \in {"changes", "errmsg"} : Goto(th, pc)
  /\ UNCHANGED <<conn, pDb, object, nulling, recset, pst, issued, asked, answered,
                 hasty, refused, crashed, marshal, poolVars>>

\* sqlite3_errmsg accepts a null handle.
ErrMsg(th) ==
  /\ frame[th].pc = "errmsg"
  /\ \/ Leave(th) /\ UNCHANGED crashed
     \/ Dangling /\ Crash /\ UNCHANGED frame
  /\ UNCHANGED <<conn, pDb, object, nulling, stmt, recset, pst, issued, asked,
                 answered, hasty, refused, marshal, poolVars>>

\* sqlite3_changes reads through the handle without looking at it.
Changes(th) ==
  /\ frame[th].pc = "changes"
  /\ \/ pDb /\ Leave(th) /\ UNCHANGED crashed
     \/ ~Usable /\ Crash /\ UNCHANGED frame
  /\ UNCHANGED <<conn, pDb, object, nulling, stmt, recset, pst, issued, asked,
                 answered, hasty, refused, marshal, poolVars>>

Exec(th) ==
  \/ Check(th)
  \/ Prepare(th)
  \/ BindFails(th)
  \/ StepRow(th)
  \/ StepEnds(th)
  \/ ErrMsg(th)
  \/ Changes(th)

-----------------------------------------------------------------------------
(* Recordset: the script reads it, closes it, and drops it in the end.       *)

UseRecordset(id) ==
  /\ ScriptIdle
  /\ recset[id] = "open"
  /\ CloseRecordset(id) \/ DestroyRecordset(id)
  /\ UNCHANGED <<conn, pDb, object, nulling, frame, issued, asked, answered, hasty,
                 refused, crashed, marshal, poolVars>>

-----------------------------------------------------------------------------
(* DB::close and DB::~DB                                                    *)

\* sqlite3_close frees the connection only when every statement is finalized;
\* otherwise it returns SQLITE_BUSY, which both callers ignore.
SqliteClose ==
  conn' = IF LiveStmts = {} THEN "closed" ELSE conn

\* Somebody still waits for an answer.
Outstanding == pending # <<>> \/ running # <<>>

\* The handle is forgotten first, and sqlite3_close gets a null.
BugClose ==
  /\ ScriptIdle
  /\ object = "live"
  /\ pDb
  /\ pDb' = FALSE
  /\ hasty' = (hasty \/ Outstanding)
  /\ UNCHANGED <<conn, object, nulling, frame, stmt, recset, pst, issued, asked,
                 answered, refused, crashed, marshal, poolVars>>

Close ==
  /\ ScriptIdle
  /\ object = "live"
  /\ pDb
  /\ SqliteClose
  /\ nulling' = TRUE
  /\ hasty' = (hasty \/ Outstanding)
  /\ refused' = (refused \/ Held # {})
  /\ UNCHANGED <<pDb, object, frame, stmt, recset, pst, issued, asked, answered,
                 crashed, marshal, poolVars>>

\* pDb left as it was.
BugNullPDb ==
  /\ nulling
  /\ nulling' = FALSE
  /\ UNCHANGED <<conn, pDb, object, frame, stmt, recset, pst, issued, asked, answered,
                 hasty, refused, crashed, marshal, poolVars>>

NullPDb ==
  /\ nulling
  /\ pDb' = FALSE
  /\ nulling' = FALSE
  /\ UNCHANGED <<conn, object, frame, stmt, recset, pst, issued, asked, answered,
                 hasty, refused, crashed, marshal, poolVars>>

\* The body of the destructor runs before the destructor of the member pool, and
\* leaves pDb as it is.
Destroy ==
  /\ ScriptIdle
  /\ object = "live"
  /\ object' = "dying"
  /\ IF pDb THEN SqliteClose ELSE UNCHANGED conn
  /\ refused' = (refused \/ (pDb /\ Held # {}))
  /\ hasty' = (hasty \/ Outstanding)
  /\ UNCHANGED <<pDb, nulling, frame, stmt, recset, pst, issued, asked, answered,
                 crashed, marshal, poolVars>>

StopPool ==
  /\ object = "dying"
  /\ Pool!Shutdown
  /\ UNCHANGED <<conn, pDb, object, nulling, frame, stmt, recset, pst, issued, asked,
                 answered, hasty, refused, crashed, marshal>>

JoinPool ==
  /\ object = "dying"
  /\ Pool!Close
  /\ object' = "gone"
  /\ UNCHANGED <<conn, pDb, nulling, frame, stmt, recset, pst, issued, asked, answered,
                 hasty, refused, crashed, marshal>>

-----------------------------------------------------------------------------
WorkerNext == WorkerStart \/ Exec("worker") \/ Callback

ScriptNext ==
  \/ ExecSync
  \/ ExecCallback
  \/ Exec("script")
  \/ \E id \in Calls : UseRecordset(id)
  \/ Close
  \/ NullPDb
  \/ Destroy
  \/ StopPool
  \/ JoinPool

\* ~DB joins a worker whose callback waits for the thread that joins it.
Deadlocked == marshal /\ phase = "closing" /\ frame["worker"].pc = "callback"

\* The process is dead or hung, or the DB is gone.
Halted ==
  /\ crashed \/ Deadlocked \/ object = "gone"
  /\ UNCHANGED vars

Next ==
  \/ ~crashed /\ (WorkerNext \/ ScriptNext)
  \/ Halted

Spec == Init /\ [][Next]_vars

\* Both threads go on with the call they are in; the script does not have to
\* make one, to close a Recordset or to close or drop the DB.
Fairness ==
  /\ WF_vars(~crashed /\ WorkerNext)
  /\ WF_vars(~crashed /\ (Exec("script") \/ NullPDb \/ StopPool \/ JoinPool))

FairSpec == Spec /\ Fairness

-----------------------------------------------------------------------------
(* Properties.                                                              *)

\* The type of every variable.
TypeOK ==
  /\ conn \in {"open", "closed"}
  /\ pDb \in BOOLEAN
  /\ object \in {"live", "dying", "gone"}
  /\ nulling \in BOOLEAN
  /\ frame \in [Threads -> {Idle} \union
       [pc : {"check", "prepare", "step", "changes", "errmsg", "callback"}, id : Calls]]
  /\ stmt \in [Calls -> {"none", "ready", "row", "final"}]
  /\ recset \in [Calls -> {"none", "inflight", "open", "gone"}]
  /\ pst \in [Calls -> BOOLEAN]
  /\ issued \in 0..MaxExec
  /\ asked \in Seq(Calls)
  /\ answered \in Seq(Calls)
  /\ hasty \in BOOLEAN
  /\ refused \in BOOLEAN
  /\ crashed \in BOOLEAN
  /\ marshal \in BOOLEAN
  /\ Pool!TypeOK

\* execCallback calls back exactly once for every call, and in the order of the
\* calls, whatever mixture of results, errors and re-entrant calls occurs
\* (sciter-sqlite-db.cpp:102-112).
OneAnswerEach == asked = answered \o running \o pending

\* A statement is live exactly as long as one exec or one Recordset, and never
\* both, will finalize it: on no path through exec is one leaked, and next, close
\* and the destructor finalize the one they share once, in whatever order and
\* number they come (sciter-sqlite-db.cpp:75-96, sciter-sqlite-rs.cpp:12-46).
StatementsOwned ==
  /\ LiveStmts = Held
  /\ HeldByFrame \intersect HeldByRecordset = {}
  /\ \A id \in HeldByRecordset : stmt[id] = "row"

\* A connection that is open and that nobody has a handle to any more.
Forgotten == conn = "open" /\ (~pDb \/ object # "live")

\* A connection is left open for good only if, when close or the destructor came, an
\* exec or a Recordset that lives had a statement: a statement leaked long before
\* does not keep the file open, and neither do a close and a destructor that come
\* one after the other (sciter-sqlite-db.cpp:16-22, 114-116).
LeakNeedsHolder == Forgotten => refused

\* Closing or destroying a DB with no callback outstanding is safe: only a
\* close that overtakes the worker can end in undefined behaviour.
CrashOnlyWhenHasty == crashed => hasty

\* Every callback comes, also when the DB is closed or destroyed meanwhile: unless
\* the process crashed, or the destructor waits for the worker on the thread that
\* the callback needs.
EveryCallAnswered ==
  \A n \in Calls :
    Len(asked) >= n ~> \/ Len(answered) >= n
                       \/ crashed
                       \/ Deadlocked

\* A destructor that was entered returns, except in the same two cases.
DestructorReturns == object = "dying" ~> object = "gone" \/ crashed \/ Deadlocked

-----------------------------------------------------------------------------
(* The inductive invariant behind the safety properties.                    *)

\* Who is busy with which call: the worker with the one the pool runs, and no call
\* is in two places.
CallsInv ==
  /\ running = IF frame["worker"] = Idle THEN <<>> ELSE <<frame["worker"].id>>
  /\ frame["script"].pc # "callback"
  /\ \A th \in Threads : frame[th].id <= issued
  /\ \A n \in 1..Len(pending) :
       /\ pending[n] <= issued
       /\ frame["worker"].id < pending[n]
       /\ frame["script"].id # pending[n]
       /\ \A m \in 1..n-1 : pending[m] < pending[n]
  /\ frame["script"] # Idle => frame["script"].id # frame["worker"].id

\* A call that has not been given to sqlite has neither statement nor Recordset.
Unprepared(id) ==
  \/ id > issued
  \/ \E n \in 1..Len(pending) : pending[n] = id
  \/ \E th \in Threads : frame[th].id = id /\ frame[th].pc \in {"check", "prepare"}

StatementsInv ==
  \A id \in Calls :
    /\ Unprepared(id) => stmt[id] = "none" /\ recset[id] = "none"
    /\ stmt[id] = "ready" <=> \E th \in Threads : frame[th].id = id /\ frame[th].pc = "step"
    /\ stmt[id] = "row" <=> recset[id] \in {"inflight", "open"} /\ pst[id]

\* What close and the destructor leave to the worker if they did not come too
\* early: nothing.
ClosingInv ==
  /\ pDb /\ conn = "closed" => nulling \/ object # "live"
  /\ nulling \/ object # "live" => frame["script"] = Idle
  /\ ~hasty =>
       /\ nulling \/ object # "live" => pending = <<>> /\ running = <<>>
       /\ \A th \in Threads :
            frame[th].pc \in {"prepare", "step", "changes", "errmsg"} => Usable

\* A connection that is open when it should not be was refused to be closed.
RefusedInv == conn = "open" /\ (nulling \/ ~pDb \/ object # "live") => refused

\* All of it together is inductive.
DbInv ==
  /\ TypeOK
  /\ CallsInv
  /\ StatementsInv
  /\ ClosingInv
  /\ OneAnswerEach
  /\ RefusedInv
  /\ CrashOnlyWhenHasty

-----------------------------------------------------------------------------
(* What the code says of itself and does not do.                            *)

\* "function DB.close() - closes the DB" (sciter-sqlite-db.cpp:15): once close
\* has returned, the connection is closed.
CloseCloses == ~pDb => conn = "closed"

\* "DB is already closed" (sciter-sqlite-db.cpp:68): exec throws before it hands a
\* closed connection to sqlite.
ClosedIsRefused == \A th \in Threads : frame[th].pc = "prepare" => conn = "open"
=============================================================================
