--------------------------- MODULE AsyncDbProofs ----------------------------
(* The safety properties of the sqlite extension, for any number of calls: the *)
(* inductive invariant DbInv, part by part, and what follows from it.          *)
EXTENDS AsyncDb, SequenceTheorems, TLAPS

-----------------------------------------------------------------------------
(* Queues, and histories that end in one.                                    *)

\* Pushing on the queue extends the whole history by the same element.
LEMMA PushExtends ==
  ASSUME NEW S, NEW s \in Seq(S), NEW q \in Seq(S), NEW x \in S
  PROVE  s \o Append(q, x) = Append(s \o q, x)
<1>1. Append(q, x) = q \o <<x>> /\ <<x>> \in Seq(S) /\ s \o q \in Seq(S)
  BY AppendIsConcat, ConcatProperties
<1>2. s \o (q \o <<x>>) = (s \o q) \o <<x>>
  BY <1>1, ConcatAssociative
<1>. QED
  BY <1>1, <1>2, AppendIsConcat

\* Moving the front of the queue to the end of what was begun changes nothing.
LEMMA PopKeeps ==
  ASSUME NEW S, NEW s \in Seq(S), NEW q \in Seq(S), q # <<>>
  PROVE  /\ Append(s, Head(q)) \o Tail(q) = s \o q
         /\ Head(q) \in S
         /\ Tail(q) \in Seq(S)
<1>1. Head(q) \in S /\ Tail(q) \in Seq(S) /\ q = <<Head(q)>> \o Tail(q)
  BY HeadTailProperties, HeadTailAppend, SMTT(30)
<1>2. Append(s, Head(q)) = s \o <<Head(q)>>
  BY <1>1, AppendIsConcat
<1>3. (s \o <<Head(q)>>) \o Tail(q) = s \o (<<Head(q)>> \o Tail(q))
  BY <1>1, ConcatAssociative
<1>. QED
  BY <1>1, <1>2, <1>3

-----------------------------------------------------------------------------
(* Types.                                                                    *)

\* A new DB has no calls, no statements and an open connection.
LEMMA InitInv == Init => DbInv
<1> SUFFICES ASSUME Init PROVE DbInv
  OBVIOUS
<1> USE MaxExecAssumption DEF Init, Pool!Init
<1>1. <<>> \in Seq(Calls) /\ Len(<<>>) = 0
  BY EmptySeq
<1>2. TypeOK
  <2>1. stmt \in [Calls -> {"none", "ready", "row", "final"}]
    OBVIOUS
  <2>2. recset \in [Calls -> {"none", "inflight", "open", "gone"}]
    OBVIOUS
  <2>3. frame \in [Threads -> {Idle} \union
          [pc : {"check", "prepare", "step", "changes", "errmsg", "callback"}, id : Calls]]
    OBVIOUS
  <2>4. issued \in 0..MaxExec
    OBVIOUS
  <2>5. /\ pDb \in BOOLEAN /\ nulling \in BOOLEAN
        /\ hasty \in BOOLEAN /\ refused \in BOOLEAN /\ crashed \in BOOLEAN
    BY Zenon
  <2>7. pst \in [Calls -> BOOLEAN]
    OBVIOUS
  <2>6. Pool!TypeOK
    BY <1>1 DEF Pool!TypeOK
  <2>. QED
    BY <1>1, <2>1, <2>2, <2>3, <2>4, <2>5, <2>6, <2>7, Zenon DEF TypeOK
<1>3. CallsInv
  <2>1. frame["script"] = Idle /\ frame["worker"] = Idle
    BY DEF Threads
  <2>2. \A th \in Threads : frame[th].id <= issued
    BY <2>1 DEF Threads, Idle
  <2>. QED
    BY <1>1, <2>1, <2>2 DEF CallsInv, Idle
<1>4. StatementsInv
  BY DEF StatementsInv, Idle
<1>5. ClosingInv
  BY DEF ClosingInv, Idle
<1>6. OneAnswerEach
  BY DEF OneAnswerEach
<1>7. RefusedInv /\ CrashOnlyWhenHasty
  BY DEF RefusedInv, CrashOnlyWhenHasty
<1>. QED
  BY <1>2, <1>3, <1>4, <1>5, <1>6, <1>7 DEF DbInv

\* A thread in exec moves on, or leaves exec.
LEMMA FrameTypes ==
  ASSUME TypeOK, NEW th \in Threads, frame[th].pc # "idle",
         \/ \E pc \in {"prepare", "step", "changes", "errmsg"} : Goto(th, pc)
         \/ Leave(th)
         \/ UNCHANGED frame
  PROVE  frame' \in [Threads -> {Idle} \union
           [pc : {"check", "prepare", "step", "changes", "errmsg", "callback"}, id : Calls]]
<1> USE DEF TypeOK, Idle
<1>1. frame[th].id \in Calls
  OBVIOUS
<1>2. ASSUME NEW pc \in {"prepare", "step", "changes", "errmsg"}, Goto(th, pc)
      PROVE  frame' \in [Threads -> {Idle} \union
               [pc : {"check", "prepare", "step", "changes", "errmsg", "callback"}, id : Calls]]
  <2>1. frame[th] \in [pc : {"check", "prepare", "step", "changes", "errmsg", "callback"},
                       id : Calls]
    OBVIOUS
  <2>2. [frame[th] EXCEPT !.pc = pc] \in
          [pc : {"check", "prepare", "step", "changes", "errmsg", "callback"}, id : Calls]
    BY <2>1
  <2>3. frame' = [frame EXCEPT ![th] = [frame[th] EXCEPT !.pc = pc]]
    BY <1>2 DEF Goto
  <2>. QED
    BY <2>2, <2>3
<1>3. CASE Leave(th)
  BY <1>3 DEF Leave
<1>4. CASE UNCHANGED frame
  BY <1>4
<1>. QED
  BY <1>2, <1>3, <1>4, Zenon

\* Closing or destroying a Recordset touches nothing of another call, and leaves a
\* Recordset without statement or no Recordset.
LEMMA RecordsetEnds ==
  ASSUME TypeOK, NEW id \in Calls, CloseRecordset(id) \/ DestroyRecordset(id)
  PROVE  /\ stmt' \in [Calls -> {"none", "ready", "row", "final"}]
         /\ recset' \in [Calls -> {"none", "inflight", "open", "gone"}]
         /\ pst' \in [Calls -> BOOLEAN]
         /\ \A c \in Calls : c # id =>
              stmt'[c] = stmt[c] /\ recset'[c] = recset[c] /\ pst'[c] = pst[c]
         /\ recset'[id] = "gone" \/ ~pst'[id]
         /\ stmt'[id] = IF pst[id] THEN "final" ELSE stmt[id]
<1>1. CASE CloseRecordset(id)
  BY <1>1 DEF CloseRecordset, TypeOK
<1>2. CASE DestroyRecordset(id)
  <2>1. \/ stmt' = [stmt EXCEPT ![id] = "final"] /\ pst[id]
        \/ stmt' = stmt /\ ~pst[id]
    BY <1>2, Zenon DEF DestroyRecordset
  <2>2. recset' = [recset EXCEPT ![id] = "gone"] /\ pst' = pst
    BY <1>2 DEF DestroyRecordset
  <2>3. /\ stmt \in [Calls -> {"none", "ready", "row", "final"}]
        /\ recset \in [Calls -> {"none", "inflight", "open", "gone"}]
        /\ pst \in [Calls -> BOOLEAN]
    BY DEF TypeOK
  <2>. QED
    BY <2>1, <2>2, <2>3
<1>. QED
  BY <1>1, <1>2

\* No step of either thread leaves the types.
LEMMA TypeStep ==
  ASSUME TypeOK, [Next]_vars
  PROVE  TypeOK'
<1> USE MaxExecAssumption DEF TypeOK, Pool!TypeOK, Calls, Threads, Idle, poolVars
<1>1. CASE ExecSync
  BY <1>1 DEF ExecSync
<1>2. CASE ExecCallback
  <2>1. issued' \in Calls
    BY <1>2 DEF ExecCallback
  <2>2. asked' \in Seq(Calls) /\ pending' \in Seq(Calls)
    BY <1>2, <2>1, AppendProperties DEF ExecCallback, Pool!Submit
  <2>. QED
    BY <1>2, <2>1, <2>2 DEF ExecCallback, Pool!Submit
<1>3. CASE WorkerStart
  <2>1. Head(pending) \in Calls /\ Tail(pending) \in Seq(Calls)
    BY <1>3, HeadTailProperties DEF WorkerStart, Pool!Start
  <2>. QED
    BY <1>3, <2>1 DEF WorkerStart, Pool!Start
<1>4. CASE Callback
  <2>1. frame["worker"].id \in Calls
    BY <1>4 DEF Callback
  <2>2. answered' \in Seq(Calls)
    BY <1>4, <2>1, AppendProperties DEF Callback
  <2>3. /\ stmt' \in [Calls -> {"none", "ready", "row", "final"}]
        /\ recset' \in [Calls -> {"none", "inflight", "open", "gone"}]
        /\ pst' \in [Calls -> BOOLEAN]
    <3>1. CASE DestroyRecordset(frame["worker"].id)
      BY <2>1, <3>1, RecordsetEnds DEF Callback
    <3>2. CASE ~DestroyRecordset(frame["worker"].id)
      BY <1>4, <2>1, <3>2 DEF Callback
    <3>. QED
      BY <3>1, <3>2
  <2>4. /\ UNCHANGED <<conn, pDb, object, nulling, issued, asked, hasty, refused,
                       crashed, marshal, pending, phase>>
        /\ running' = <<>>
        /\ frame' = [frame EXCEPT !["worker"] = Idle]
    BY <1>4 DEF Callback, Pool!Finish
  <2>. QED
    BY <2>1, <2>2, <2>3, <2>4
<1>5. ASSUME NEW th \in Threads, Exec(th)
      PROVE  TypeOK'
  <2>1. CASE Check(th)
    <3>1. /\ frame[th].pc = "check"
          /\ Goto(th, "prepare") \/ Leave(th)
          /\ UNCHANGED <<conn, pDb, object, nulling, stmt, recset, pst, issued, asked,
                         answered, hasty, refused, crashed, marshal, pending, running,
                         phase>>
      BY <2>1, Zenon DEF Check
    <3>. QED
      BY <3>1, FrameTypes
  <2>2. CASE Prepare(th)
    <3>1. /\ frame[th].pc = "prepare"
          /\ Goto(th, "step") \/ Goto(th, "errmsg") \/ UNCHANGED frame
          /\ UNCHANGED <<conn, pDb, object, nulling, recset, pst, issued, asked,
                         answered, hasty, refused, marshal, pending, running, phase>>
          /\ stmt' = [stmt EXCEPT ![frame[th].id] = "ready"] \/ UNCHANGED stmt
          /\ crashed' \in BOOLEAN
      BY <2>2, Zenon DEF Prepare, Crash
    <3>2. stmt' \in [Calls -> {"none", "ready", "row", "final"}]
      BY <3>1
    <3>. QED
      BY <3>1, <3>2, FrameTypes
  <2>3. CASE BindFails(th)
    BY <2>3 DEF BindFails, Leave
  <2>4. CASE StepRow(th)
    BY <2>4 DEF StepRow, Leave
  <2>5. CASE StepEnds(th)
    BY <2>5 DEF StepEnds, Goto
  <2>6. CASE ErrMsg(th) \/ Changes(th)
    <3>1. /\ frame[th].pc \in {"errmsg", "changes"}
          /\ Leave(th) \/ UNCHANGED frame
          /\ UNCHANGED <<conn, pDb, object, nulling, stmt, recset, pst, issued, asked,
                         answered, hasty, refused, marshal, pending, running, phase>>
          /\ crashed' \in BOOLEAN
      BY <2>6, Zenon DEF ErrMsg, Changes, Crash
    <3>. QED
      BY <3>1, FrameTypes
  <2>. QED
    BY <1>5, <2>1, <2>2, <2>3, <2>4, <2>5, <2>6 DEF Exec
<1>6. ASSUME NEW id \in Calls, UseRecordset(id)
      PROVE  TypeOK'
  <2>1. /\ UNCHANGED <<conn, pDb, object, nulling, frame, issued, asked, answered, hasty,
                       refused, crashed, marshal, pending, running, phase>>
        /\ CloseRecordset(id) \/ DestroyRecordset(id)
    BY <1>6 DEF UseRecordset
  <2>. QED
    BY <2>1, RecordsetEnds
<1>7. CASE Close
  BY <1>7 DEF Close, SqliteClose, Outstanding
<1>8. CASE NullPDb
  BY <1>8 DEF NullPDb
<1>9. CASE Destroy
  BY <1>9 DEF Destroy, SqliteClose, Outstanding
<1>10. CASE StopPool
  BY <1>10 DEF StopPool, Pool!Shutdown
<1>11. CASE JoinPool
  BY <1>11 DEF JoinPool, Pool!Close
<1>12. CASE UNCHANGED vars
  BY <1>12 DEF vars
<1>. QED
  BY <1>1, <1>2, <1>3, <1>4, <1>5, <1>6, <1>7, <1>8, <1>9, <1>10, <1>11, <1>12
     DEF Next, WorkerNext, ScriptNext, Halted

-----------------------------------------------------------------------------
(* Who is busy with which call.                                              *)

\* What an action of exec does to the frame of its thread.
Moves(th) ==
  \/ \E pc \in {"prepare", "step", "changes", "errmsg"} : Goto(th, pc)
  \/ Leave(th)
  \/ UNCHANGED frame

\* An action of exec moves one thread that is in exec and leaves the pool, the
\* handle and the object alone.
LEMMA ExecMoves ==
  ASSUME NEW th \in Threads, Exec(th)
  PROVE  /\ frame[th].pc \in {"check", "prepare", "step", "changes", "errmsg"}
         /\ Moves(th)
         /\ UNCHANGED <<conn, pDb, object, nulling, issued, asked, answered, hasty,
                        refused, marshal, pending, running, phase>>
<1>1. CASE Check(th)
  BY <1>1, Zenon DEF Check, Moves, poolVars
<1>2. CASE Prepare(th)
  BY <1>2, Zenon DEF Prepare, Moves, poolVars
<1>3. CASE BindFails(th) \/ StepRow(th)
  BY <1>3, Zenon DEF BindFails, StepRow, Moves, poolVars
<1>4. CASE StepEnds(th)
  BY <1>4 DEF StepEnds, Moves, poolVars
<1>5. CASE ErrMsg(th) \/ Changes(th)
  BY <1>5, Zenon DEF ErrMsg, Changes, Moves, poolVars
<1>. QED
  BY <1>1, <1>2, <1>3, <1>4, <1>5 DEF Exec

\* The same, in terms of the two fields of a frame.
LEMMA MovedFrame ==
  ASSUME TypeOK, NEW th \in Threads, Moves(th),
         frame[th].pc \in {"check", "prepare", "step", "changes", "errmsg"}
  PROVE  /\ \A t \in Threads : t # th => frame'[t] = frame[t]
         /\ \/ frame'[th] = Idle /\ th = "script"
            \/ /\ frame'[th].id = frame[th].id
               /\ frame'[th] # Idle
               /\ th = "script" => frame'[th].pc # "callback"
         /\ frame[th] # Idle
<1> USE DEF TypeOK, Idle
<1>1. frame[th].id \in Calls
  OBVIOUS
<1>2. 0 \notin Calls
  BY MaxExecAssumption DEF Calls
<1>3. ASSUME NEW pc \in {"prepare", "step", "changes", "errmsg"}, Goto(th, pc)
      PROVE  /\ \A t \in Threads : t # th => frame'[t] = frame[t]
             /\ frame'[th].id = frame[th].id
             /\ frame'[th] # Idle
             /\ frame'[th].pc # "callback"
  BY <1>1, <1>2, <1>3 DEF Goto
<1>4. CASE Leave(th)
  BY <1>1, <1>2, <1>4 DEF Leave, Threads
<1>5. CASE UNCHANGED frame
  BY <1>1, <1>2, <1>5
<1>. QED
  BY <1>1, <1>3, <1>4, <1>5 DEF Moves

\* Every call stays in one place: in the queue, with the worker, or with the script
\* thread.
LEMMA CallsStep ==
  ASSUME TypeOK, CallsInv, [Next]_vars
  PROVE  CallsInv'
<1> USE DEF CallsInv
<1>1. /\ Len(pending) \in Nat /\ pending \in Seq(Calls)
      /\ \A id \in Calls : id \in Nat \ {0}
      /\ \A n \in 1..Len(pending) : pending[n] \in Calls
      /\ issued \in Nat
      /\ \A th \in Threads : frame[th].id \in Nat
      /\ \A th \in Threads : frame[th] # Idle => frame[th].id \in Calls
  <2>1. \A th \in Threads : frame[th] # Idle => frame[th].id \in Calls
    BY DEF TypeOK
  <2>. QED
    BY <2>1, MaxExecAssumption, LenProperties DEF TypeOK, Pool!TypeOK, Calls, Idle
<1>2. "script" \in Threads /\ "worker" \in Threads
  BY DEF Threads
<1>3. CASE ExecSync
  <2>1. /\ frame'["script"] = [pc |-> "check", id |-> issued + 1]
        /\ frame'["worker"] = frame["worker"]
        /\ issued' = issued + 1
        /\ UNCHANGED <<pending, running>>
    BY <1>2, <1>3 DEF ExecSync, TypeOK, poolVars
  <2>. QED
    BY <1>1, <1>2, <2>1 DEF Threads, Idle
<1>4. CASE ExecCallback
  <2>1. /\ issued' = issued + 1 /\ issued' \in Calls
        /\ pending' = Append(pending, issued + 1)
        /\ UNCHANGED <<frame, running>>
    BY <1>1, <1>4, MaxExecAssumption DEF ExecCallback, Pool!Submit, Calls
  <2>2. /\ Len(pending') = Len(pending) + 1
        /\ \A n \in 1..Len(pending) : pending'[n] = pending[n]
        /\ pending'[Len(pending) + 1] = issued + 1
    BY <1>1, <2>1, AppendProperties
  <2>3. ASSUME NEW n \in 1..Len(pending')
        PROVE  /\ pending'[n] <= issued'
               /\ frame'["worker"].id < pending'[n]
               /\ frame'["script"].id # pending'[n]
               /\ \A m \in 1..n-1 : pending'[m] < pending'[n]
    <3>1. CASE n \in 1..Len(pending)
      <4>1. pending'[n] = pending[n] /\ \A m \in 1..n-1 : pending'[m] = pending[m]
        BY <1>1, <2>2, <3>1
      <4>2. pending[n] <= issued /\ pending[n] \in Nat
        BY <1>1, <3>1
      <4>3. pending[n] <= issued'
        BY <1>1, <2>1, <4>2, SMTT(30)
      <4>. QED
        BY <2>1, <3>1, <4>1, <4>3, SMTT(30)
    <3>2. CASE n = Len(pending) + 1
      <4>1. \A m \in 1..n-1 : pending'[m] <= issued /\ pending'[m] \in Nat
        <5>1. \A m \in 1..n-1 : m \in 1..Len(pending)
          BY <1>1, <3>2
        <5>2. \A m \in 1..Len(pending) : pending[m] <= issued /\ pending[m] \in Nat
          BY <1>1
        <5>. QED
          BY <2>2, <5>1, <5>2, Zenon
      <4>2. pending'[n] = issued + 1 /\ issued' = issued + 1
        BY <2>1, <2>2, <3>2
      <4>3. \A th \in Threads : frame[th].id \in Nat /\ frame[th].id <= issued
        BY <1>1
      <4>4. UNCHANGED frame
        BY <2>1
      <4>. QED
        BY <1>1, <1>2, <4>1, <4>2, <4>3, <4>4
    <3>. QED
      BY <1>1, <2>2, <3>1, <3>2
  <2>. QED
    BY <1>1, <1>2, <2>1, <2>3, SMTT(30)
<1>5. CASE WorkerStart
  <2>1. /\ frame'["worker"] = [pc |-> "check", id |-> Head(pending)]
        /\ frame'["script"] = frame["script"]
        /\ running' = <<Head(pending)>>
        /\ pending' = Tail(pending)
        /\ pending # <<>>
        /\ UNCHANGED issued
    BY <1>2, <1>5 DEF WorkerStart, Pool!Start, TypeOK
  <2>2. /\ Len(pending') = Len(pending) - 1 /\ Len(pending) >= 1
        /\ Head(pending) = pending[1]
        /\ \A n \in 1..Len(pending') : pending'[n] = pending[n + 1]
    BY <1>1, <2>1, HeadTailProperties, EmptySeq
  <2>. QED
    BY <1>1, <1>2, <2>1, <2>2 DEF Threads, Idle
<1>6. CASE Callback
  <2>1. /\ frame'["worker"] = Idle
        /\ frame'["script"] = frame["script"]
        /\ running' = <<>>
        /\ UNCHANGED <<issued, pending>>
    BY <1>2, <1>6 DEF Callback, Pool!Finish, TypeOK
  <2>. QED
    BY <1>1, <1>2, <2>1 DEF Threads, Idle
<1>7. ASSUME NEW th \in Threads, Exec(th)
      PROVE  CallsInv'
  <2>1. /\ \A t \in Threads : t # th => frame'[t] = frame[t]
        /\ \/ frame'[th] = Idle /\ th = "script"
           \/ /\ frame'[th].id = frame[th].id
              /\ frame'[th] # Idle
              /\ th = "script" => frame'[th].pc # "callback"
        /\ frame[th] # Idle
    BY <1>7, ExecMoves, MovedFrame
  <2>2. UNCHANGED <<issued, pending, running>>
    BY <1>7, ExecMoves
  <2>. QED
    BY <1>1, <1>2, <2>1, <2>2 DEF Threads, Idle
<1>8. ASSUME UNCHANGED <<frame, issued, pending, running>>
      PROVE  CallsInv'
  BY <1>8
<1>9. CASE \E id \in Calls : UseRecordset(id)
  BY <1>8, <1>9 DEF UseRecordset, poolVars
<1>10. CASE Close \/ NullPDb \/ Destroy
  BY <1>8, <1>10 DEF Close, NullPDb, Destroy, poolVars
<1>11. CASE StopPool \/ JoinPool
  BY <1>8, <1>11 DEF StopPool, JoinPool, Pool!Shutdown, Pool!Close
<1>12. CASE UNCHANGED vars
  BY <1>8, <1>12 DEF vars
<1>. QED
  BY <1>2, <1>3, <1>4, <1>5, <1>6, <1>7, <1>9, <1>10, <1>11, <1>12
     DEF Next, WorkerNext, ScriptNext, Halted

-----------------------------------------------------------------------------
(* Statements and Recordsets.                                                *)

\* A call that a thread works on is nowhere else.
LEMMA OwnCall ==
  ASSUME TypeOK, CallsInv, NEW th \in Threads, frame[th].pc # "idle"
  PROVE  /\ frame[th].id \in Calls
         /\ ~(frame[th].id > issued)
         /\ \A n \in 1..Len(pending) : pending[n] # frame[th].id
         /\ \A t \in Threads : t # th => frame[t].id # frame[th].id
<1>1. frame[th].id \in Calls /\ frame[th] # Idle
  BY DEF TypeOK, Idle
<1>2. /\ \A n \in 1..Len(pending) : pending[n] \in Nat
      /\ \A t \in Threads : frame[t].id \in Nat
      /\ issued \in Nat
      /\ 0 \notin Calls
  <2>1. \A id \in Calls : id \in Nat
    BY DEF Calls
  <2>2. \A n \in 1..Len(pending) : pending[n] \in Calls
    BY LenProperties DEF TypeOK, Pool!TypeOK
  <2>. QED
    BY <2>1, <2>2, MaxExecAssumption DEF TypeOK, Idle, Calls
<1>3. \A t \in Threads : t # th => frame[t].id # frame[th].id
  <2>1. CASE frame["script"] = Idle
    BY <1>1, <1>2, <2>1 DEF Threads, Idle
  <2>2. CASE frame["script"] # Idle
    BY <2>2 DEF CallsInv, Threads
  <2>. QED
    BY <2>1, <2>2
<1>. QED
  BY <1>1, <1>2, <1>3 DEF CallsInv, Threads

\* A Recordset that is closed or destroyed finalizes the statement it has, and only
\* that one.
LEMMA HolderEnds ==
  ASSUME TypeOK, StatementsInv, NEW id \in Calls, recset[id] \in {"inflight", "open"},
         CloseRecordset(id) \/ DestroyRecordset(id),
         \A c \in Calls : Unprepared(c)' => Unprepared(c),
         \A c \in Calls :
           (\E t \in Threads : frame'[t].id = c /\ frame'[t].pc = "step")
             <=> \E t \in Threads : frame[t].id = c /\ frame[t].pc = "step"
  PROVE  StatementsInv'
<1> DEFINE Stepping(c) == \E t \in Threads : frame[t].id = c /\ frame[t].pc = "step"
<1>1. /\ \A c \in Calls : c # id =>
           stmt'[c] = stmt[c] /\ recset'[c] = recset[c] /\ pst'[c] = pst[c]
      /\ recset'[id] = "gone" \/ ~pst'[id]
      /\ stmt'[id] = IF pst[id] THEN "final" ELSE stmt[id]
  BY RecordsetEnds
<1>2. \A c \in Calls :
        /\ Unprepared(c) => stmt[c] = "none" /\ recset[c] = "none"
        /\ stmt[c] = "ready" <=> Stepping(c)
        /\ stmt[c] = "row" <=> recset[c] \in {"inflight", "open"} /\ pst[c]
  BY Zenon DEF StatementsInv
<1>3. ~Unprepared(id)
  BY <1>2
<1>4. pst[id] => ~Stepping(id)
  BY <1>2
<1>5. stmt'[id] # "row" /\ (stmt'[id] = "ready" <=> Stepping(id))
  <2> HIDE DEF Stepping
  <2>1. CASE pst[id]
    BY <1>1, <1>4, <2>1
  <2>2. CASE ~pst[id]
    BY <1>1, <1>2, <2>2
  <2>. QED
    BY <2>1, <2>2
<1>6. ASSUME NEW c \in Calls
      PROVE  /\ Unprepared(c)' => stmt'[c] = "none" /\ recset'[c] = "none"
             /\ stmt'[c] = "ready" <=> Stepping(c)
             /\ stmt'[c] = "row" <=> recset'[c] \in {"inflight", "open"} /\ pst'[c]
  <2> HIDE DEF Stepping
  <2>1. CASE c = id
    BY <1>1, <1>3, <1>5, <2>1
  <2>2. CASE c # id
    BY <1>1, <1>2, <2>2
  <2>. QED
    BY <2>1, <2>2
<1>. QED
  BY <1>6 DEF StatementsInv

\* A statement and the frame or the Recordset that holds it change together.
LEMMA StatementsStep ==
  ASSUME TypeOK, CallsInv, StatementsInv, [Next]_vars
  PROVE  StatementsInv'
<1> USE DEF StatementsInv, Unprepared
<1>1. /\ Len(pending) \in Nat /\ pending \in Seq(Calls)
      /\ \A id \in Calls : id \in Nat
      /\ issued \in Nat
      /\ "script" \in Threads /\ "worker" \in Threads
  BY MaxExecAssumption, LenProperties DEF TypeOK, Pool!TypeOK, Calls, Threads
<1>2. CASE ExecSync
  <2>1. /\ frame'["script"] = [pc |-> "check", id |-> issued + 1]
        /\ frame["script"].pc = "idle"
        /\ frame'["worker"] = frame["worker"]
        /\ issued' = issued + 1
        /\ UNCHANGED <<stmt, recset, pst, pending>>
    BY <1>1, <1>2 DEF ExecSync, ScriptIdle, Idle, TypeOK, poolVars
  <2>. QED
    BY <1>1, <2>1 DEF Threads
<1>3. CASE ExecCallback
  <2>1. /\ issued' = issued + 1 /\ issued' \in Calls
        /\ pending' = Append(pending, issued + 1)
        /\ UNCHANGED <<frame, stmt, recset, pst>>
    BY <1>1, <1>3, MaxExecAssumption DEF ExecCallback, Pool!Submit, Calls
  <2>2. /\ Len(pending') = Len(pending) + 1
        /\ \A n \in 1..Len(pending) : pending'[n] = pending[n]
        /\ pending'[Len(pending) + 1] = issued + 1
    BY <1>1, <2>1, AppendProperties
  <2>3. ASSUME NEW id \in Calls, NEW n \in 1..Len(pending'), pending'[n] = id
        PROVE  Unprepared(id)
    <3>1. CASE n \in 1..Len(pending)
      BY <2>2, <2>3, <3>1
    <3>2. CASE n = Len(pending) + 1
      BY <1>1, <2>2, <2>3, <3>2
    <3>. QED
      BY <1>1, <2>2, <3>1, <3>2
  <2>4. \A id \in Calls : id > issued' => Unprepared(id)
    BY <1>1, <2>1
  <2>5. \A id \in Calls : Unprepared(id)' => Unprepared(id)
    BY <2>1, <2>3, <2>4
  <2>. QED
    BY <2>1, <2>5
<1>4. CASE WorkerStart
  <2>1. /\ frame'["worker"] = [pc |-> "check", id |-> Head(pending)]
        /\ frame'["script"] = frame["script"]
        /\ frame["worker"].pc = "idle"
        /\ pending' = Tail(pending)
        /\ pending # <<>>
        /\ UNCHANGED <<issued, stmt, recset, pst>>
    BY <1>1, <1>4 DEF WorkerStart, Pool!Start, TypeOK, CallsInv, Idle
  <2>2. /\ Len(pending') = Len(pending) - 1 /\ Len(pending) >= 1
        /\ Head(pending) = pending[1]
        /\ \A n \in 1..Len(pending') : pending'[n] = pending[n + 1]
    BY <1>1, <2>1, HeadTailProperties, EmptySeq
  <2>. QED
    BY <1>1, <2>1, <2>2 DEF Threads
<1>5. CASE Callback
  <2>1. /\ frame'["worker"].pc = "idle"
        /\ frame["worker"].pc = "callback"
        /\ frame'["script"] = frame["script"]
        /\ UNCHANGED <<issued, pending>>
    BY <1>1, <1>5 DEF Callback, Pool!Finish, TypeOK, Idle
  <2>2. CASE UNCHANGED <<stmt, pst>> /\ recset' = [recset EXCEPT ![frame["worker"].id] =
                                           IF @ = "inflight" THEN "open" ELSE @]
    <3>1. \A id \in Calls :
            /\ recset'[id] \in {"inflight", "open"} <=> recset[id] \in {"inflight", "open"}
            /\ recset[id] = "none" => recset'[id] = "none"
      BY <2>2 DEF TypeOK
    <3>. QED
      BY <1>1, <2>1, <2>2, <3>1 DEF Threads
  <2>3. CASE recset[frame["worker"].id] = "inflight" /\ DestroyRecordset(frame["worker"].id)
    <3>1. frame["worker"].id \in Calls
      BY <1>1, <2>1 DEF TypeOK, Idle
    <3>2. \A id \in Calls : Unprepared(id)' => Unprepared(id)
      BY <1>1, <2>1 DEF Threads
    <3>3. \A id \in Calls :
            (\E t \in Threads : frame'[t].id = id /\ frame'[t].pc = "step")
              <=> \E t \in Threads : frame[t].id = id /\ frame[t].pc = "step"
      BY <1>1, <2>1 DEF Threads
    <3>. QED
      BY <2>3, <3>1, <3>2, <3>3, HolderEnds
  <2>. QED
    BY <1>5, <2>2, <2>3 DEF Callback
<1>6. ASSUME NEW th \in Threads, Exec(th)
      PROVE  StatementsInv'
  <2>1. /\ frame[th].id \in Calls
        /\ ~(frame[th].id > issued)
        /\ \A n \in 1..Len(pending) : pending[n] # frame[th].id
        /\ \A t \in Threads : t # th => frame[t].id # frame[th].id
    BY <1>6, ExecMoves, OwnCall
  <2>2. /\ UNCHANGED <<issued, pending>>
        /\ \A t \in Threads : t # th => frame'[t] = frame[t]
    BY <1>6, ExecMoves, MovedFrame
  <2>3. CASE Check(th)
    <3>1. /\ UNCHANGED <<stmt, recset, pst>> /\ frame[th].pc = "check"
          /\ Goto(th, "prepare") \/ Leave(th)
      BY <2>3, Zenon DEF Check
    <3>2. /\ frame'[th].pc \in {"prepare", "callback", "idle"}
          /\ frame'[th].pc = "prepare" => frame'[th].id = frame[th].id
      BY <3>1 DEF Goto, Leave, TypeOK, Idle
    <3>. QED
      BY <2>1, <2>2, <3>1, <3>2
  <2>4. CASE Prepare(th)
    <3>1. /\ UNCHANGED <<recset, pst>> /\ frame[th].pc = "prepare"
          /\ \/ stmt' = [stmt EXCEPT ![frame[th].id] = "ready"] /\ Goto(th, "step")
             \/ UNCHANGED stmt /\ (Goto(th, "errmsg") \/ UNCHANGED frame)
      BY <2>4, Zenon DEF Prepare
    <3>2. CASE stmt' = [stmt EXCEPT ![frame[th].id] = "ready"] /\ Goto(th, "step")
      <4>1. frame'[th].pc = "step" /\ frame'[th].id = frame[th].id
        BY <3>2 DEF Goto, TypeOK, Idle
      <4>2. /\ stmt'[frame[th].id] = "ready" /\ stmt[frame[th].id] = "none"
            /\ \A id \in Calls : id # frame[th].id => stmt'[id] = stmt[id]
        BY <2>1, <3>1, <3>2 DEF TypeOK
      <4>3. ~Unprepared(frame[th].id)'
        BY <2>1, <2>2, <4>1
      <4>4. ASSUME NEW id \in Calls, id # frame[th].id
            PROVE  /\ Unprepared(id)' => Unprepared(id)
                   /\ (\E t \in Threads : frame'[t].id = id /\ frame'[t].pc = "step")
                        <=> \E t \in Threads : frame[t].id = id /\ frame[t].pc = "step"
        BY <2>1, <2>2, <3>1, <4>1, <4>4
      <4>. QED
        BY <2>1, <3>1, <4>1, <4>2, <4>3, <4>4
    <3>3. CASE UNCHANGED stmt /\ Goto(th, "errmsg")
      <4>1. frame'[th].pc = "errmsg"
        BY <3>3 DEF Goto, TypeOK, Idle
      <4>. QED
        BY <2>1, <2>2, <3>1, <3>3, <4>1
    <3>4. CASE UNCHANGED <<stmt, frame>>
      BY <2>2, <3>1, <3>4
    <3>. QED
      BY <3>1, <3>2, <3>3, <3>4
  <2>5. CASE BindFails(th) \/ StepEnds(th)
    <3>1. /\ UNCHANGED <<recset, pst>> /\ frame[th].pc = "step"
          /\ stmt' = [stmt EXCEPT ![frame[th].id] = "final"]
      BY <2>5 DEF BindFails, StepEnds
    <3>2. frame'[th].pc \in {"callback", "idle", "changes", "errmsg"}
      BY <2>5 DEF BindFails, StepEnds, Leave, Goto, TypeOK, Idle
    <3>3. /\ stmt'[frame[th].id] = "final"
          /\ ~(recset[frame[th].id] \in {"inflight", "open"} /\ pst[frame[th].id])
          /\ \A id \in Calls : id # frame[th].id => stmt'[id] = stmt[id]
      BY <2>1, <3>1 DEF TypeOK
    <3>4. ASSUME NEW id \in Calls, id = frame[th].id
          PROVE  /\ ~Unprepared(id)'
                 /\ \A t \in Threads : ~(frame'[t].id = id /\ frame'[t].pc = "step")
      BY <2>1, <2>2, <3>2, <3>4
    <3>5. ASSUME NEW id \in Calls, id # frame[th].id
          PROVE  /\ Unprepared(id)' => Unprepared(id)
                 /\ (\E t \in Threads : frame'[t].id = id /\ frame'[t].pc = "step")
                      <=> \E t \in Threads : frame[t].id = id /\ frame[t].pc = "step"
      BY <2>1, <2>2, <3>1, <3>2, <3>5
    <3>. QED
      BY <3>1, <3>3, <3>4, <3>5
  <2>6. CASE StepRow(th)
    <3>1. /\ frame[th].pc = "step"
          /\ stmt' = [stmt EXCEPT ![frame[th].id] = "row"]
          /\ recset' = [recset EXCEPT ![frame[th].id] =
                          IF th = "worker" THEN "inflight" ELSE "open"]
          /\ pst' = [pst EXCEPT ![frame[th].id] = TRUE]
      BY <2>6 DEF StepRow
    <3>2. frame'[th].pc \in {"callback", "idle"}
      BY <2>6 DEF StepRow, Leave, TypeOK, Idle
    <3>3. /\ stmt'[frame[th].id] = "row"
          /\ recset'[frame[th].id] \in {"inflight", "open"} /\ pst'[frame[th].id]
          /\ \A id \in Calls : id # frame[th].id =>
               stmt'[id] = stmt[id] /\ recset'[id] = recset[id] /\ pst'[id] = pst[id]
      BY <2>1, <3>1 DEF TypeOK
    <3>4. ASSUME NEW id \in Calls, id = frame[th].id
          PROVE  /\ ~Unprepared(id)'
                 /\ \A t \in Threads : ~(frame'[t].id = id /\ frame'[t].pc = "step")
      BY <2>1, <2>2, <3>2, <3>4
    <3>5. ASSUME NEW id \in Calls, id # frame[th].id
          PROVE  /\ Unprepared(id)' => Unprepared(id)
                 /\ (\E t \in Threads : frame'[t].id = id /\ frame'[t].pc = "step")
                      <=> \E t \in Threads : frame[t].id = id /\ frame[t].pc = "step"
      BY <2>1, <2>2, <3>1, <3>2, <3>5
    <3>. QED
      BY <3>3, <3>4, <3>5
  <2>7. CASE ErrMsg(th) \/ Changes(th)
    <3>1. /\ UNCHANGED <<stmt, recset, pst>> /\ frame[th].pc \in {"errmsg", "changes"}
          /\ Leave(th) \/ UNCHANGED frame
      BY <2>7, Zenon DEF ErrMsg, Changes
    <3>2. frame'[th].pc \in {"callback", "idle", "errmsg", "changes"}
      BY <3>1 DEF Leave, TypeOK, Idle
    <3>. QED
      BY <2>1, <2>2, <3>1, <3>2
  <2>. QED
    BY <1>6, <2>3, <2>4, <2>5, <2>6, <2>7 DEF Exec
<1>7. ASSUME NEW id \in Calls, UseRecordset(id)
      PROVE  StatementsInv'
  <2>1. /\ recset[id] \in {"inflight", "open"}
        /\ CloseRecordset(id) \/ DestroyRecordset(id)
        /\ UNCHANGED <<frame, issued, pending>>
    BY <1>7 DEF UseRecordset, poolVars
  <2>. QED
    BY <2>1, HolderEnds
<1>8. ASSUME UNCHANGED <<frame, stmt, recset, pst, issued, pending>>
      PROVE  StatementsInv'
  BY <1>8
<1>9. CASE Close \/ NullPDb \/ Destroy
  BY <1>8, <1>9 DEF Close, NullPDb, Destroy, poolVars
<1>10. CASE StopPool \/ JoinPool
  BY <1>8, <1>10 DEF StopPool, JoinPool, Pool!Shutdown, Pool!Close
<1>11. CASE UNCHANGED vars
  BY <1>8, <1>11 DEF vars
<1>. QED
  BY <1>1, <1>2, <1>3, <1>4, <1>5, <1>6, <1>7, <1>9, <1>10, <1>11
     DEF Next, WorkerNext, ScriptNext, Halted

-----------------------------------------------------------------------------
(* Closing.                                                                  *)

\* The steps at which a thread hands pDb to sqlite.
UsesHandle == {"prepare", "step", "changes", "errmsg"}

\* An action of exec enters the calls of sqlite only through the check of pDb, and
\* dies only where the handle cannot be used.
LEMMA ExecUses ==
  ASSUME TypeOK, NEW th \in Threads, Exec(th)
  PROVE  /\ frame'[th].pc \in UsesHandle => pDb \/ frame[th].pc \in UsesHandle
         /\ UNCHANGED hasty
         /\ \/ UNCHANGED crashed
            \/ frame[th].pc \in UsesHandle /\ ~Usable
<1> USE DEF UsesHandle
<1>1. CASE Check(th)
  <2>1. CASE pDb
    BY <1>1, <2>1, Zenon DEF Check
  <2>2. CASE ~pDb
    <3>1. Leave(th) /\ UNCHANGED <<hasty, crashed>>
      BY <1>1, <2>2, Zenon DEF Check
    <3>2. frame'[th].pc \notin UsesHandle
      BY <3>1 DEF Leave, TypeOK, Idle
    <3>. QED
      BY <3>1, <3>2, Zenon
  <2>. QED
    BY <2>1, <2>2
<1>2. CASE Prepare(th)
  <2>1. frame[th].pc \in UsesHandle
    BY <1>2 DEF Prepare
  <2>2. UNCHANGED crashed \/ ~Usable
    BY <1>2, Zenon DEF Prepare, Dangling, Usable
  <2>3. UNCHANGED hasty
    BY <1>2, Zenon DEF Prepare
  <2>. QED
    BY <2>1, <2>2, <2>3, Zenon
<1>3. CASE BindFails(th) \/ StepRow(th) \/ StepEnds(th)
  BY <1>3 DEF BindFails, StepRow, StepEnds
<1>4. CASE ErrMsg(th)
  <2>1. frame[th].pc \in UsesHandle
    BY <1>4 DEF ErrMsg
  <2>2. (UNCHANGED crashed \/ ~Usable) /\ UNCHANGED hasty
    <3>1. conn = "closed" => conn # "open"
      OBVIOUS
    <3>. QED
      BY <1>4, <3>1, Zenon DEF ErrMsg, Dangling, Usable
  <2>. QED
    BY <2>1, <2>2, Zenon
<1>5. CASE Changes(th)
  <2>1. frame[th].pc \in UsesHandle
    BY <1>5 DEF Changes
  <2>2. (UNCHANGED crashed \/ ~Usable) /\ UNCHANGED hasty
    BY <1>5, Zenon DEF Changes
  <2>. QED
    BY <2>1, <2>2, Zenon
<1>. QED
  BY <1>1, <1>2, <1>3, <1>4, <1>5 DEF Exec

\* A closed connection is met by nobody, unless it was closed too early.
LEMMA ClosingStep ==
  ASSUME TypeOK, CallsInv, ClosingInv, [Next]_vars
  PROVE  ClosingInv'
<1> USE DEF ClosingInv
<1>1. "script" \in Threads /\ "worker" \in Threads
  BY DEF Threads
<1>2. /\ pDb \in BOOLEAN /\ nulling \in BOOLEAN /\ hasty \in BOOLEAN
      /\ conn \in {"open", "closed"}
      /\ object \in {"live", "dying", "gone"}
  BY Zenon DEF TypeOK
<1>3. frame["worker"] = Idle <=> running = <<>>
  BY DEF CallsInv
<1>4. Idle.pc = "idle"
  BY DEF Idle
<1>5. CASE ExecSync
  <2>1. /\ frame' = [frame EXCEPT !["script"] = [pc |-> "check", id |-> issued']]
        /\ ~nulling /\ object = "live"
        /\ UNCHANGED <<conn, pDb, object, nulling, hasty, pending, running>>
    BY <1>5 DEF ExecSync, ScriptIdle, poolVars
  <2>2. /\ frame'["script"].pc = "check"
        /\ frame'["worker"] = frame["worker"]
    BY <1>1, <2>1 DEF TypeOK
  <2>. QED
    BY <1>1, <1>2, <2>1, <2>2 DEF Threads, Usable
<1>6. CASE ExecCallback
  <2>1. /\ object = "live"
        /\ ~nulling \/ frame["worker"].pc = "callback"
        /\ UNCHANGED <<conn, pDb, object, nulling, hasty, frame, running>>
    BY <1>6 DEF ExecCallback, ScriptIdle, Pool!Submit
  <2>. QED
    BY <1>1, <1>2, <1>3, <1>4, <2>1 DEF Usable
<1>7. CASE WorkerStart
  <2>1. /\ pending # <<>>
        /\ frame' = [frame EXCEPT !["worker"] = [pc |-> "check", id |-> Head(pending)]]
        /\ UNCHANGED <<conn, pDb, object, nulling, hasty>>
    BY <1>7 DEF WorkerStart, Pool!Start
  <2>2. /\ frame'["worker"].pc = "check"
        /\ frame'["script"] = frame["script"]
    BY <1>1, <2>1 DEF TypeOK
  <2>. QED
    BY <1>1, <1>2, <2>1, <2>2 DEF Threads, Usable
<1>8. CASE Callback
  <2>1. /\ running' = <<>>
        /\ frame' = [frame EXCEPT !["worker"] = Idle]
        /\ UNCHANGED <<conn, pDb, object, nulling, hasty, pending>>
    BY <1>8 DEF Callback, Pool!Finish
  <2>2. /\ frame'["worker"].pc = "idle"
        /\ frame'["script"] = frame["script"]
    BY <1>1, <1>4, <2>1 DEF TypeOK
  <2>. QED
    BY <1>1, <1>2, <2>1, <2>2 DEF Threads, Usable
<1>9. ASSUME NEW th \in Threads, Exec(th)
      PROVE  ClosingInv'
  <2>1. /\ frame[th].pc \in {"check", "prepare", "step", "changes", "errmsg"}
        /\ UNCHANGED <<conn, pDb, object, nulling, pending, running>>
        /\ UNCHANGED hasty
        /\ \A t \in Threads : t # th => frame'[t] = frame[t]
        /\ frame'[th].pc \in UsesHandle => pDb \/ frame[th].pc \in UsesHandle
    BY <1>9, ExecMoves, ExecUses, MovedFrame
  <2>2. frame[th] # Idle
    BY <1>4, <2>1
  <2>3. ~hasty => ~nulling /\ object = "live"
    BY <1>1, <1>2, <1>3, <2>2 DEF Threads
  <2>4. (nulling \/ object # "live") => frame'["script"] = Idle
    BY <1>1, <2>1, <2>2
  <2>. QED
    BY <1>1, <1>2, <2>1, <2>3, <2>4 DEF Usable, UsesHandle
<1>10. ASSUME NEW id \in Calls, UseRecordset(id)
       PROVE  ClosingInv'
  <2>1. UNCHANGED <<conn, pDb, object, nulling, hasty, frame, pending, running>>
    BY <1>10 DEF UseRecordset, poolVars
  <2>. QED
    BY <2>1 DEF Usable
<1>11. CASE Close \/ Destroy
  <2>1. /\ frame["script"] = Idle
        /\ nulling' \/ object' # "live"
        /\ UNCHANGED <<pDb, frame, pending, running>>
        /\ ~hasty' => pending = <<>> /\ running = <<>>
    BY <1>11 DEF Close, Destroy, ScriptIdle, Outstanding, poolVars
  <2>. QED
    BY <1>1, <1>3, <1>4, <2>1 DEF Threads
<1>12. CASE NullPDb
  <2>1. /\ nulling /\ ~pDb'
        /\ ~nulling'
        /\ UNCHANGED <<conn, object, hasty, frame, pending, running>>
    BY <1>12, Zenon DEF NullPDb, poolVars
  <2>. QED
    BY <1>1, <1>2, <1>3, <1>4, <2>1 DEF Threads
<1>13. CASE StopPool \/ JoinPool
  <2>1. /\ object = "dying" /\ object' # "live"
        /\ UNCHANGED <<conn, pDb, nulling, hasty, frame, pending, running>>
    BY <1>13 DEF StopPool, JoinPool, Pool!Shutdown, Pool!Close
  <2>. QED
    BY <1>2, <2>1 DEF Usable
<1>14. CASE UNCHANGED vars
  BY <1>14 DEF vars, Usable
<1>. QED
  BY <1>1, <1>5, <1>6, <1>7, <1>8, <1>9, <1>10, <1>11, <1>12, <1>13, <1>14
     DEF Next, WorkerNext, ScriptNext, Halted

\* The process dies only where a handle is used that ClosingInv makes usable.
LEMMA CrashStep ==
  ASSUME TypeOK, ClosingInv, CrashOnlyWhenHasty, [Next]_vars
  PROVE  CrashOnlyWhenHasty'
<1> USE DEF CrashOnlyWhenHasty
<1>1. ASSUME NEW th \in Threads, Exec(th)
      PROVE  crashed' => hasty'
  <2>1. CASE UNCHANGED crashed
    BY <1>1, <2>1, ExecUses
  <2>2. CASE frame[th].pc \in UsesHandle /\ ~Usable
    <3>1. hasty
      BY <2>2, Zenon DEF ClosingInv, UsesHandle
    <3>. QED
      BY <1>1, <3>1, ExecUses
  <2>. QED
    BY <1>1, <2>1, <2>2, ExecUses, Zenon
<1>2. ASSUME UNCHANGED crashed, hasty => hasty'
      PROVE  crashed' => hasty'
  BY <1>2
<1>3. CASE ExecSync \/ ExecCallback \/ WorkerStart \/ Callback
  BY <1>2, <1>3, Zenon DEF ExecSync, ExecCallback, WorkerStart, Callback
<1>4. ASSUME NEW id \in Calls, UseRecordset(id)
      PROVE  crashed' => hasty'
  <2>1. UNCHANGED <<crashed, hasty>>
    BY <1>4 DEF UseRecordset
  <2>. QED
    BY <1>2, <2>1
<1>5. CASE Close \/ NullPDb \/ Destroy \/ StopPool \/ JoinPool
  BY <1>2, <1>5, Zenon DEF Close, NullPDb, Destroy, StopPool, JoinPool
<1>6. CASE UNCHANGED vars
  BY <1>6, Zenon DEF vars
<1>. QED
  BY <1>1, <1>3, <1>4, <1>5, <1>6, Zenon
     DEF Next, WorkerNext, ScriptNext, Halted, Threads

-----------------------------------------------------------------------------
(* Answers.                                                                  *)

\* Every task moves from the queue to the worker to the answers, and none is
\* passed over.
LEMMA AnswersStep ==
  ASSUME TypeOK, CallsInv, OneAnswerEach, [Next]_vars
  PROVE  OneAnswerEach'
<1> USE DEF OneAnswerEach
<1>1. /\ pending \in Seq(Calls) /\ answered \in Seq(Calls) /\ running \in Seq(Calls)
      /\ issued \in Nat
  BY MaxExecAssumption DEF TypeOK, Pool!TypeOK
<1>2. answered \o running \in Seq(Calls)
  BY <1>1, ConcatProperties
<1>3. CASE ExecCallback
  <2>1. /\ issued' \in Calls
        /\ asked' = Append(asked, issued')
        /\ pending' = Append(pending, issued')
        /\ UNCHANGED <<answered, running>>
    BY <1>1, <1>3, MaxExecAssumption DEF ExecCallback, Pool!Submit, Calls
  <2>2. (answered \o running) \o Append(pending, issued')
          = Append((answered \o running) \o pending, issued')
    BY <1>1, <1>2, <2>1, PushExtends
  <2>. QED
    BY <2>1, <2>2
<1>4. CASE WorkerStart
  <2>1. /\ running = <<>> /\ pending # <<>>
        /\ running' = <<Head(pending)>>
        /\ pending' = Tail(pending)
        /\ UNCHANGED <<asked, answered>>
    BY <1>4 DEF WorkerStart, Pool!Start
  <2>2. answered \o <<>> = answered
    BY <1>1, ConcatEmptySeq
  <2>3. Head(pending) \in Calls
    BY <1>1, <2>1, PopKeeps
  <2>4. answered \o <<Head(pending)>> = Append(answered, Head(pending))
    BY <1>1, <2>3, AppendIsConcat
  <2>5. Append(answered, Head(pending)) \o Tail(pending) = answered \o pending
    BY <1>1, <2>1, PopKeeps
  <2>. QED
    BY <2>1, <2>2, <2>4, <2>5
<1>5. CASE Callback
  <2>1. /\ frame["worker"].pc = "callback"
        /\ answered' = Append(answered, frame["worker"].id)
        /\ running' = <<>>
        /\ UNCHANGED <<asked, pending>>
    BY <1>5 DEF Callback, Pool!Finish
  <2>2. frame["worker"].id \in Calls /\ frame["worker"] # Idle
    BY <2>1 DEF TypeOK, Idle, Threads
  <2>3. running = <<frame["worker"].id>>
    BY <2>2 DEF CallsInv
  <2>4. answered \o running = answered'
    BY <1>1, <2>1, <2>2, <2>3, AppendIsConcat
  <2>5. answered' \o <<>> = answered'
    BY <1>2, <2>4, ConcatEmptySeq
  <2>. QED
    BY <2>1, <2>4, <2>5
<1>6. ASSUME UNCHANGED <<asked, answered, running, pending>>
      PROVE  OneAnswerEach'
  BY <1>6
<1>7. ASSUME NEW th \in Threads, Exec(th)
      PROVE  OneAnswerEach'
  BY <1>6, <1>7, ExecMoves
<1>8. CASE ExecSync \/ (\E id \in Calls : UseRecordset(id)) \/ Close \/ NullPDb \/ Destroy
  BY <1>6, <1>8 DEF ExecSync, UseRecordset, Close, NullPDb, Destroy, poolVars
<1>9. CASE StopPool \/ JoinPool
  BY <1>6, <1>9 DEF StopPool, JoinPool, Pool!Shutdown, Pool!Close
<1>10. CASE UNCHANGED vars
  BY <1>6, <1>10 DEF vars
<1>. QED
  BY <1>3, <1>4, <1>5, <1>7, <1>8, <1>9, <1>10
     DEF Next, WorkerNext, ScriptNext, Halted, Threads

-----------------------------------------------------------------------------
(* The connection.                                                           *)

\* A live statement has a holder.
LEMMA LiveIsHeld ==
  ASSUME TypeOK, StatementsInv
  PROVE  LiveStmts = Held /\ HeldByFrame \intersect HeldByRecordset = {}
<1> USE DEF StatementsInv, LiveStmts, HeldByFrame, HeldByRecordset
<1>1. \A th \in Threads : frame[th].pc = "step" => frame[th].id \in Calls
  BY DEF TypeOK, Idle
<1>2. \A id \in Calls : id \in HeldByFrame <=> stmt[id] = "ready"
  OBVIOUS
<1>3. HeldByFrame \subseteq Calls
  BY <1>1
<1>4. LiveStmts = HeldByFrame \union HeldByRecordset
  BY <1>2, <1>3
<1>5. HeldByFrame \intersect HeldByRecordset = {}
  BY <1>2
<1>. QED
  BY <1>4, <1>5 DEF Held

\* The handle is forgotten only by the close that called sqlite with it, and sqlite
\* refuses only for a statement that somebody has.
LEMMA RefusedStep ==
  ASSUME TypeOK, StatementsInv, ClosingInv, RefusedInv, [Next]_vars
  PROVE  RefusedInv'
<1> USE DEF RefusedInv
<1>1. ASSUME UNCHANGED <<conn, pDb, object, nulling, refused>>
      PROVE  RefusedInv'
  BY <1>1
<1>2. ASSUME NEW th \in Threads, Exec(th)
      PROVE  RefusedInv'
  BY <1>1, <1>2, ExecMoves
<1>3. CASE ExecSync \/ ExecCallback \/ WorkerStart \/ Callback
  BY <1>1, <1>3 DEF ExecSync, ExecCallback, WorkerStart, Callback
<1>4. ASSUME NEW id \in Calls, UseRecordset(id)
      PROVE  RefusedInv'
  BY <1>1, <1>4 DEF UseRecordset
<1>5. CASE Close
  <2>1. conn' = (IF LiveStmts = {} THEN "closed" ELSE conn) /\ refused' = (refused \/ Held # {})
    BY <1>5 DEF Close, SqliteClose
  <2>2. LiveStmts = Held
    BY LiveIsHeld
  <2>. QED
    BY <2>1, <2>2
<1>6. CASE NullPDb
  BY <1>6, Zenon DEF NullPDb
<1>7. CASE Destroy
  <2>1. CASE pDb
    <3>1. /\ conn' = IF LiveStmts = {} THEN "closed" ELSE conn
          /\ refused' = (refused \/ Held # {})
      BY <1>7, <2>1, Zenon DEF Destroy, SqliteClose
    <3>2. LiveStmts = Held
      BY LiveIsHeld
    <3>. QED
      BY <3>1, <3>2
  <2>2. CASE ~pDb
    <3>1. conn' = conn /\ (refused => refused')
      BY <1>7, <2>2, Zenon DEF Destroy
    <3>2. conn = "open" => refused
      BY <2>2, Zenon
    <3>. QED
      BY <3>1, <3>2, Zenon
  <2>. QED
    BY <2>1, <2>2
<1>8. CASE StopPool
  BY <1>1, <1>8 DEF StopPool
<1>9. CASE JoinPool
  BY <1>9 DEF JoinPool
<1>10. CASE UNCHANGED vars
  BY <1>1, <1>10 DEF vars
<1>. QED
  BY <1>2, <1>3, <1>4, <1>5, <1>6, <1>7, <1>8, <1>9, <1>10
     DEF Next, WorkerNext, ScriptNext, Halted, Threads

-----------------------------------------------------------------------------
(* The theorems.                                                             *)

\* The inductive invariant holds in every reachable state, for any number of calls.
THEOREM DbInvariant == Spec => []DbInv
<1>1. Init => DbInv
  BY InitInv
<1>2. DbInv /\ [Next]_vars => DbInv'
  <2> SUFFICES ASSUME DbInv, [Next]_vars PROVE DbInv'
    OBVIOUS
  <2> USE DEF DbInv
  <2>1. TypeOK'
    BY TypeStep
  <2>2. CallsInv' /\ StatementsInv' /\ ClosingInv'
    BY CallsStep, StatementsStep, ClosingStep
  <2>3. OneAnswerEach' /\ RefusedInv' /\ CrashOnlyWhenHasty'
    BY AnswersStep, RefusedStep, CrashStep
  <2>. QED
    BY <2>1, <2>2, <2>3
<1>. QED
  BY <1>1, <1>2, PTL DEF Spec

\* Every variable keeps its type.
THEOREM DbTypes == Spec => []TypeOK
<1>1. DbInv => TypeOK
  BY DEF DbInv
<1>. QED
  BY <1>1, DbInvariant, PTL

\* execCallback answers every call once and in order, however results, errors,
\* callbacks that issue calls, closes and the destructor interleave.
THEOREM AnswersOnce == Spec => []OneAnswerEach
<1>1. DbInv => OneAnswerEach
  BY DEF DbInv
<1>. QED
  BY <1>1, DbInvariant, PTL

\* A connection is left open for good only because an exec or a Recordset that was
\* alive had a statement when close or the destructor came: nothing that exec did
\* before, and no order of close and destructor, leaks it.
THEOREM LeaksExplained == Spec => []LeakNeedsHolder
<1>1. DbInv => LeakNeedsHolder
  BY Zenon DEF DbInv, RefusedInv, LeakNeedsHolder, Forgotten
<1>. QED
  BY <1>1, DbInvariant, PTL

\* Only a close or a destructor that overtakes the worker can end in undefined
\* behaviour.
THEOREM CrashNeedsHaste == Spec => []CrashOnlyWhenHasty
<1>1. DbInv => CrashOnlyWhenHasty
  BY DEF DbInv
<1>. QED
  BY <1>1, DbInvariant, PTL

\* Every live statement is held by one exec or by one Recordset, so it is finalized
\* exactly once.
THEOREM StatementsHaveOneOwner == Spec => []StatementsOwned
<1>1. ASSUME DbInv PROVE StatementsOwned
  <2>1. TypeOK /\ StatementsInv
    BY <1>1 DEF DbInv
  <2>2. LiveStmts = Held /\ HeldByFrame \intersect HeldByRecordset = {}
    BY <2>1, LiveIsHeld
  <2>3. \A id \in HeldByRecordset : stmt[id] = "row"
    BY <2>1 DEF StatementsInv, HeldByRecordset
  <2>. QED
    BY <2>2, <2>3 DEF StatementsOwned
<1>. QED
  BY <1>1, DbInvariant, PTL
=============================================================================
