----------------------------- MODULE VtableView -----------------------------
(***************************************************************************)
(* The vtable page (data/tab-content/vtable.html) between two pools: the   *)
(* queries it sends to its DB and the demanglings it sends to the bedrock  *)
(* extension (BedrockExt/main.cpp).  The answer of the first query starts  *)
(* a query per slot, an answer of those may start another one and starts a *)
(* demangling, and each late answer fills a record of the list that is     *)
(* already on the screen.                                                  *)
(*                                                                         *)
(* Each pool is the FIFO of TaskQueue; AsyncDb shows that the answers of a *)
(* DB come once each and in order.  A callback is one step: scripts run on *)
(* one thread.  What a query finds is the constant world of an initial     *)
(* state (found), so that an answer can be compared with the right one.    *)
(***************************************************************************)
EXTENDS Naturals, Sequences

CONSTANTS
  Names,                \* values of items that have a prefix: functions
  Pure, Bare, Dtor,     \* items without a value (pure virtual), without a
                        \*   prefix, and destructors
  Symbols,              \* rows of symbols that come from the PDB
  NoSymbol,             \* record.full is undefined
  Decodable,            \* symbols the demangler accepts
  MaxRows               \* bound: slots of the vtable

Items == Names \union {Pure, Bare, Dtor}

ASSUME ItemsAssumption ==
  /\ Names \intersect {Pure, Bare, Dtor} = {}
  /\ Pure # Bare /\ Pure # Dtor /\ Bare # Dtor
ASSUME SymbolsAssumption == NoSymbol \notin Symbols /\ Decodable \subseteq Symbols
ASSUME MaxRowsAssumption == MaxRows \in Nat

VARIABLES
  found,                \* what fts_symbols answers for a name: the first row for
                        \*   the whole value, all rows for the prefix
  page,                 \* "loading", "filling" (the loop over the records in the
                        \*   first callback), "shown", "error"
  rows,                 \* vlist.value: the item of each record
  next,                 \* the record that loop is at
  full,                 \* record.full (key, raw and offset of the PDB symbol)
  decoded,              \* record.decoded, as the symbol it is the name of
  asked,                \* queries waiting in the pool of the DB, oldest first
  mangled,              \* demanglings waiting in the pool of the extension
  failed,               \* history: records one of whose queries failed
  crashed               \* the process died of undefined behaviour

vars == <<found, page, rows, next, full, decoded, asked, mangled, failed, crashed>>

Slots == DOMAIN rows

Query == [kind : {"full", "prefix"}, rec : Nat, name : Names]
Demangling == [rec : Nat, raw : Symbols]

\* self.ready: the query of the slots is on its way.
Init ==
  /\ found \in [Names -> [full : Symbols \union {NoSymbol}, prefix : SUBSET Symbols]]
  /\ page = "loading"
  /\ rows = <<>>
  /\ next = 1
  /\ full = <<>>
  /\ decoded = <<>>
  /\ asked = <<>>
  /\ mangled = <<>>
  /\ failed = {}
  /\ crashed = FALSE

-----------------------------------------------------------------------------
(* The first answer.                                                        *)

ShowRows ==
  /\ page = "loading"
  /\ \E n \in 1..MaxRows : \E items \in [1..n -> Items] :
       /\ rows' = items
       /\ full' = [r \in 1..n |-> NoSymbol]
       /\ decoded' = [r \in 1..n |-> NoSymbol]
  /\ page' = "filling"
  /\ UNCHANGED <<found, next, asked, mangled, failed, crashed>>

\* Empty result, or an error of sqlite: the list stays empty.
ShowError ==
  /\ page = "loading"
  /\ page' = "error"
  /\ UNCHANGED <<found, rows, next, full, decoded, asked, mangled, failed, crashed>>

\* One round of the loop over vlist.value.  The worker can already be at work on
\* the queries of the rounds before; their callbacks wait for this one.
AskFull ==
  /\ page = "filling"
  /\ next \in Slots
  /\ asked' = IF rows[next] \in Names
                THEN Append(asked, [kind |-> "full", rec |-> next, name |-> rows[next]])
                ELSE asked
  /\ next' = next + 1
  /\ UNCHANGED <<found, page, rows, full, decoded, mangled, failed, crashed>>

Filled ==
  /\ page = "filling"
  /\ next \notin Slots
  /\ page' = "shown"
  /\ UNCHANGED <<found, rows, next, full, decoded, asked, mangled, failed, crashed>>

-----------------------------------------------------------------------------
(* The answers of fullmatch and prefixmatch.                                *)

\* The callbacks share the variable of the loop instead of a parameter of their
\* own: every answer lands in the last record.
BugFill(q, s) ==
  /\ full' = [full EXCEPT ![Len(rows)] = s]
  /\ mangled' = Append(mangled, [rec |-> Len(rows), raw |-> s])

Fill(q, s) ==
  /\ full' = [full EXCEPT ![q.rec] = s]
  /\ mangled' = Append(mangled, [rec |-> q.rec, raw |-> s])

\* The script thread gets to the answer of the oldest query.
Answered(kind) == page = "shown" /\ asked # <<>> /\ Head(asked).kind = kind

FullHit ==
  LET q == Head(asked) IN
    /\ Answered("full")
    /\ found[q.name].full # NoSymbol
    /\ Fill(q, found[q.name].full)
    /\ asked' = Tail(asked)
    /\ UNCHANGED <<found, page, rows, next, decoded, failed, crashed>>

\* No row leads to prefixmatch, and so does an error.
FullMiss ==
  LET q == Head(asked) IN
    /\ Answered("full")
    /\ \/ found[q.name].full = NoSymbol /\ UNCHANGED failed
       \/ failed' = failed \union {q.rec}
    /\ asked' = Append(Tail(asked), [q EXCEPT !.kind = "prefix"])
    /\ UNCHANGED <<found, page, rows, next, full, decoded, mangled, crashed>>

\* Only a prefix that has a single symbol names it.
Sole(name, s) == found[name].prefix = {s}

PrefixHit ==
  LET q == Head(asked) IN
    /\ Answered("prefix")
    /\ \E s \in Symbols : Sole(q.name, s) /\ Fill(q, s)
    /\ asked' = Tail(asked)
    /\ UNCHANGED <<found, page, rows, next, decoded, failed, crashed>>

PrefixMiss ==
  LET q == Head(asked) IN
    /\ Answered("prefix")
    /\ \/ (\A s \in Symbols : ~Sole(q.name, s)) /\ UNCHANGED failed
       \/ failed' = failed \union {q.rec}
    /\ asked' = Tail(asked)
    /\ UNCHANGED <<found, page, rows, next, full, decoded, mangled, crashed>>

-----------------------------------------------------------------------------
(* extension::demangleVtableFunction, on the worker of its pool.            *)

\* The error value handed to the callback, which takes it for a name.
BugRefuse ==
  /\ page = "shown"
  /\ mangled # <<>>
  /\ Head(mangled).raw \notin Decodable
  /\ decoded' = [decoded EXCEPT ![Head(mangled).rec] = Head(mangled).raw]
  /\ mangled' = Tail(mangled)
  /\ UNCHANGED <<found, page, rows, next, full, asked, failed, crashed>>

\* A name refused: the task returns before cb.call and the page never hears of
\* it.  An exception in the task calls back with undefined, which says the same.
Refuse ==
  /\ mangled # <<>>
  /\ Head(mangled).raw \notin Decodable
  /\ mangled' = Tail(mangled)
  /\ UNCHANGED <<found, page, rows, next, full, decoded, asked, failed, crashed>>

\* The result lost.
BugDecode ==
  /\ mangled # <<>>
  /\ Head(mangled).raw \in Decodable
  /\ mangled' = Tail(mangled)
  /\ UNCHANGED <<found, page, rows, next, full, decoded, asked, failed, crashed>>

\* The callback sets record.decoded.
Decode ==
  /\ page = "shown"
  /\ mangled # <<>>
  /\ Head(mangled).raw \in Decodable
  /\ decoded' = [decoded EXCEPT ![Head(mangled).rec] = Head(mangled).raw]
  /\ mangled' = Tail(mangled)
  /\ UNCHANGED <<found, page, rows, next, full, asked, failed, crashed>>

\* After cb.call the lambda ends without a return although its type is
\* sciter::value (line 46 made it so): the caller destroys whatever is there.
\* That may do nothing, which is Decode, or end the process.
DecodeAndCrash ==
  /\ page = "shown"
  /\ mangled # <<>>
  /\ crashed' = TRUE
  /\ UNCHANGED <<found, page, rows, next, full, decoded, asked, mangled, failed>>

-----------------------------------------------------------------------------
Page == ShowRows \/ ShowError \/ AskFull \/ Filled
DbAnswers == FullHit \/ FullMiss \/ PrefixHit \/ PrefixMiss
Demangles == Refuse \/ Decode \/ DecodeAndCrash

\* Nothing is on its way any more.
Quiet == page = "error" \/ (page = "shown" /\ asked = <<>> /\ mangled = <<>>)

Halted ==
  /\ crashed \/ Quiet
  /\ UNCHANGED vars

Next ==
  \/ ~crashed /\ (Page \/ DbAnswers \/ Demangles)
  \/ Halted

\* The workers of both pools and the script thread are scheduled.
Fairness ==
  /\ WF_vars(~crashed /\ Page)
  /\ WF_vars(~crashed /\ DbAnswers)
  /\ WF_vars(~crashed /\ Demangles)

Spec == Init /\ [][Next]_vars
FairSpec == Spec /\ Fairness

-----------------------------------------------------------------------------
(* The export button: what it writes for a record.                          *)

\* A record still without a name of its own exported as unknown.
BugLine(r) ==
  IF rows[r] = Dtor THEN "destructor"
  ELSE IF decoded[r] # NoSymbol THEN "decoded"
  ELSE IF rows[r] # Pure THEN "unknown" ELSE "pure"

Line(r) ==
  IF rows[r] = Dtor THEN "destructor"
  ELSE IF decoded[r] # NoSymbol THEN "decoded"
  ELSE IF full[r] # NoSymbol THEN "failed_to_decoded"
  ELSE IF rows[r] # Pure THEN "unknown" ELSE "pure"

-----------------------------------------------------------------------------
(* What the page guarantees.                                                *)

\* A query or a demangling for this record is on its way.
Asking(r) == next <= r \/ \E i \in 1..Len(asked) : asked[i].rec = r
Demangled(r) == \A i \in 1..Len(mangled) : mangled[i].rec # r

\* The type of every variable.
TypeOK ==
  /\ found \in [Names -> [full : Symbols \union {NoSymbol}, prefix : SUBSET Symbols]]
  /\ page \in {"loading", "filling", "shown", "error"}
  /\ rows \in Seq(Items)
  /\ next \in Nat
  /\ full \in [Slots -> Symbols \union {NoSymbol}]
  /\ decoded \in [Slots -> Decodable \union {NoSymbol}]
  /\ asked \in Seq(Query)
  /\ mangled \in Seq(Demangling)
  /\ failed \subseteq Slots
  /\ crashed \in BOOLEAN

\* What may be written into a record: what the database has for its own value.
Matches(r) ==
  {s \in Symbols : \/ s = found[rows[r]].full
                   \/ found[rows[r]].prefix = {s}}

\* A record shows an answer to its own question, and the name decoded for it is
\* that of the symbol it shows, in whatever order the answers of both pools come
\* (vtable.html:107-137: each callback holds its own item).
OwnAnswer ==
  \A r \in Slots :
    /\ full[r] # NoSymbol => rows[r] \in Names /\ full[r] \in Matches(r)
    /\ decoded[r] # NoSymbol => decoded[r] = full[r]

\* The export never says more than is known: a name "failed to decode" is one the
\* demangler refused, an "unknown" one has no match, unless an answer is still on
\* its way or a query failed (vtable.html:166-194, BedrockExt/main.cpp:46).
ExportHonest ==
  \A r \in Slots :
    /\ Line(r) = "failed_to_decoded" /\ Demangled(r) => full[r] \notin Decodable
    /\ Line(r) = "unknown" /\ rows[r] \in Names /\ ~Asking(r) /\ r \notin failed
         => Matches(r) = {}
    /\ Line(r) = "pure" <=> rows[r] = Pure

\* The page comes to rest, and a symbol found is shown under its decoded name if
\* it has one, unless the process dies in the extension (vtable.html:107-164).
Settles ==
  /\ page = "loading" ~> Quiet \/ crashed
  /\ \A r \in 1..MaxRows :
       (r \in Slots /\ full[r] \in Decodable)
         ~> (crashed \/ (r \in Slots /\ decoded[r] = full[r]))

-----------------------------------------------------------------------------
(* Why: each record has at most one query on its way, and it is still empty. *)

\* A query on its way is about the value of the record it will fill, the only one
\* about it.
AskedInv ==
  /\ \A i \in 1..Len(asked) :
       /\ asked[i].rec \in Slots
       /\ asked[i].rec < next
       /\ rows[asked[i].rec] = asked[i].name
       /\ full[asked[i].rec] = NoSymbol
  /\ \A i, j \in 1..Len(asked) : asked[i].rec = asked[j].rec => i = j

\* A demangling on its way is that of the symbol of its record.
MangledInv ==
  \A i \in 1..Len(mangled) :
    mangled[i].rec \in Slots /\ mangled[i].raw = full[mangled[i].rec]

\* What the loop over the records has not come to.
LoopInv ==
  /\ \A r \in Slots : next <= r => full[r] = NoSymbol
  /\ page = "loading" => rows = <<>> /\ asked = <<>> /\ mangled = <<>> /\ next = 1

\* A symbol that can be decoded and is not is with the extension; the prefix is
\* asked for only when the whole value has no symbol; and a record that is empty
\* when its queries are answered has no match.
AnswersInv ==
  /\ \A i \in 1..Len(asked) :
       asked[i].kind = "prefix" /\ asked[i].rec \notin failed
         => found[asked[i].name].full = NoSymbol
  /\ \A r \in Slots :
       /\ full[r] \in Decodable /\ decoded[r] = NoSymbol => ~Demangled(r)
       /\ rows[r] \in Names /\ full[r] = NoSymbol /\ ~Asking(r) /\ r \notin failed
            => Matches(r) = {}

PageInv == TypeOK /\ OwnAnswer /\ AskedInv /\ MangledInv /\ LoopInv /\ AnswersInv
=============================================================================
