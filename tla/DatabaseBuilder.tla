-------------------------- MODULE DatabaseBuilder --------------------------
(***************************************************************************)
(* The build of a project database: the pipeline of CLI/main.cpp           *)
(* (DatabaseBuilder), which runs in a process of its own, the file it      *)
(* writes through sqlite, and the wizard window of the GUI that starts the *)
(* process, kills it when it is closed and enables "Done" when it ended    *)
(* with exit code 0 (data/wizard.html, data/wizard/process.html).          *)
(*                                                                         *)
(* Any step can fail and the process can be killed between any two.  What  *)
(* is written inside a transaction reaches the file with COMMIT, what is   *)
(* written outside of one at once (sqlite, external).  A symbol is reduced *)
(* to what the pipeline asks of it: its demangled name as a number in the  *)
(* order of the names, its offset, whether it demangles to a name that is  *)
(* not skipped, and what else it stands for.                               *)
(***************************************************************************)
EXTENDS Integers, Sequences, FiniteSets, Functions

CONSTANTS
  ElfInputs,            \* the possible .dynsym tables: sequences of
                        \*   [key, off, ok, kind]
  PdbInputs,            \* the possible enumerations of the PDB: sequences of
                        \*   [key, off, ok, public]
  MaxRuns               \* bound: the wizard starts this many builds

ElfSymbol == [key : Nat, off : Nat, ok : BOOLEAN, kind : {"plain", "vtable", "typeinfo"}]
PdbSymbol == [key : Nat, off : Nat, ok : BOOLEAN, public : BOOLEAN]

\* .dynsym is never empty: it begins with the null symbol.
ASSUME InputsAssumption ==
  /\ ElfInputs \subseteq Seq(ElfSymbol) /\ <<>> \notin ElfInputs
  /\ PdbInputs \subseteq Seq(PdbSymbol)

ASSUME MaxRunsAssumption == MaxRuns \in Nat

VARIABLES
  elf, pdb,             \* the inputs, chosen once
  file,                 \* what the output file holds for whoever opens it
  work,                 \* what the connection sees while a transaction is open
  inTx,                 \* a transaction is open
  utf8,                 \* the text encoding of the output file is UTF-8
  reused,               \* the output was a UTF-8 database before the first build
  unsorted,             \* the temporary table symbols_unsorted
  vtables, typeinfos,   \* the two maps of the builder: offsets found so far
  pc, i,                \* the step of the pipeline; the symbol it stands on
  outcome,              \* how the process ended, "running" until then
  window,               \* the wizard: "open" or "closed"
  proc, processDone,    \* MainData.proc is set; MainData.processDone
  notice,               \* the terminate event on its way to the wizard
  runs

builderVars == <<work, inTx, unsorted, vtables, typeinfos, pc, i, outcome>>
wizardVars == <<window, proc, processDone, runs>>
inputs == <<elf, pdb, reused>>
vars == <<inputs, file, utf8, notice, builderVars, wizardVars>>

Garbage == 0            \* a key that is not the name of its symbol

Blank == [tag |-> "blank", symbols |-> <<>>, indexed |-> <<>>,
          vtables |-> {}, typeinfos |-> {}]
Absent == [Blank EXCEPT !.tag = "absent"]
Old == [Blank EXCEPT !.tag = "old"]
New == [Blank EXCEPT !.tag = "new"]

Steps == {"load", "database", "begin", "schema", "prepare", "elf", "vtables",
          "typeinfos", "pdb", "sort", "index", "commit", "vacuum", "close"}

Init ==
  /\ elf \in ElfInputs
  /\ pdb \in PdbInputs
  /\ file \in {Absent, Old}
  /\ utf8 \in IF file = Absent THEN {FALSE} ELSE BOOLEAN
  /\ reused = utf8
  /\ work = Blank
  /\ inTx = FALSE
  /\ unsorted = <<>>
  /\ vtables = {}
  /\ typeinfos = {}
  /\ pc = "ended"
  /\ i = 0
  /\ outcome = "none"
  /\ window = "closed"
  /\ proc = FALSE
  /\ processDone = FALSE
  /\ notice = "none"
  /\ runs = 0

\* What the connection reads, and where a statement's effect goes.
Seen == IF inTx THEN work ELSE file
Write(content) ==
  IF inTx THEN work' = content /\ UNCHANGED file
          ELSE file' = content /\ UNCHANGED work

\* Definitions that start with "Bug" are seeded faults.  No specification uses
\* them; each stands for the definition after it to show that a property fails
\* when the code is wrong in that way.

\* A process that is gone and still has a next step.
BugEnd(how) ==
  /\ outcome' = how
  /\ inTx' = FALSE
  /\ notice' = how
  /\ UNCHANGED pc

\* The process is gone; a transaction it had open is rolled back by whoever
\* opens the file next.
End(how) ==
  /\ outcome' = how
  /\ pc' = "ended"
  /\ inTx' = FALSE
  /\ notice' = how

-----------------------------------------------------------------------------
(* DatabaseBuilder::operator()                                              *)

\* Open both inputs, find the sections and the relocations, make the iterators.
Load ==
  /\ pc = "load"
  /\ pc' = "database"
  /\ UNCHANGED <<inputs, file, utf8, notice, work, inTx, unsorted, vtables,
                 typeinfos, i, outcome, wizardVars>>

\* The output is removed first, so that every build starts with an empty one.
BugEmptyOutput ==
  /\ pc = "database"
  /\ file' = Blank
  /\ utf8' = FALSE
  /\ pc' = "begin"
  /\ UNCHANGED <<inputs, notice, work, inTx, unsorted, vtables, typeinfos, i,
                 outcome, wizardVars>>

\* sqlite3_open, whose new databases are encoded in UTF-8.
BugOpenDatabase ==
  /\ pc = "database"
  /\ file' = IF file.tag = "absent" THEN Blank ELSE file
  /\ utf8' = (utf8 \/ file.tag \in {"absent", "blank"})
  /\ pc' = "begin"
  /\ UNCHANGED <<inputs, notice, work, inTx, unsorted, vtables, typeinfos, i,
                 outcome, wizardVars>>

\* sqlite3_open16 creates the file if need be, and a new database is UTF-16; a
\* database that already has tables keeps its encoding.
OpenDatabase ==
  /\ pc = "database"
  /\ file' = IF file.tag = "absent" THEN Blank ELSE file
  /\ utf8' = (utf8 /\ file.tag \notin {"absent", "blank"})
  /\ pc' = "begin"
  /\ UNCHANGED <<inputs, notice, work, inTx, unsorted, vtables, typeinfos, i,
                 outcome, wizardVars>>

\* The transaction forgotten.
BugBegin ==
  /\ pc = "begin"
  /\ pc' = "schema"
  /\ UNCHANGED <<inputs, file, utf8, notice, work, inTx, unsorted, vtables,
                 typeinfos, i, outcome, wizardVars>>

\* sql("BEGIN;")
Begin ==
  /\ pc = "begin"
  /\ inTx' = TRUE
  /\ work' = file
  /\ pc' = "schema"
  /\ UNCHANGED <<inputs, file, utf8, notice, unsorted, vtables, typeinfos, i,
                 outcome, wizardVars>>

\* The tables of an earlier build are dropped and made anew.
Schema ==
  /\ pc = "schema"
  /\ Write(New)
  /\ pc' = "prepare"
  /\ UNCHANGED <<inputs, utf8, notice, inTx, unsorted, vtables, typeinfos, i,
                 outcome, wizardVars>>

PrepareInserts ==
  /\ pc = "prepare"
  /\ pc' = "elf"
  /\ i' = 1
  /\ UNCHANGED <<inputs, file, utf8, notice, work, inTx, unsorted, vtables,
                 typeinfos, outcome, wizardVars>>

-----------------------------------------------------------------------------
(* fillSymbols, elfsymbol, mssymbol and the two iterators                   *)

\* The offset is not 0 and the decoder returned true.
Accepted(sym) == sym.off # 0 /\ sym.ok

\* The key is bound as SQLITE_STATIC to a temporary that is gone when the
\* statement is stepped.  sqlite converts the text in the bind call, and so copies
\* it in time, unless the file is UTF-8 like the text.
StoredKeys(sym) == IF utf8 THEN {sym.key, Garbage} ELSE {sym.key}

\* The enumeration of the PDB passes over public symbols, the first excepted.
NextPdb(n) ==
  /\ n <= Len(pdb) => ~pdb[n].public
  /\ \A m \in i+1 .. n-1 : pdb[m].public

\* A loop whose continue does not reach it.Next().
BugAdvance(sym, next, last, then) ==
  IF ~Accepted(sym) THEN UNCHANGED <<i, pc>>
  ELSE IF next <= last THEN i' = next /\ UNCHANGED pc ELSE i' = 1 /\ pc' = then

\* while (it.Next()): also after a symbol that was skipped.
Advance(sym, next, last, then) ==
  IF next <= last THEN i' = next /\ UNCHANGED pc ELSE i' = 1 /\ pc' = then

Insert(sym, original) ==
  IF Accepted(sym)
  THEN \E key \in StoredKeys(sym) :
         unsorted' = Append(unsorted, [original |-> original, n |-> i, key |-> key])
  ELSE UNCHANGED unsorted

\* Several symbols may name one vtable or typeinfo; the maps keep one.
FillElf ==
  /\ pc = "elf"
  /\ LET sym == elf[i]
         found(kind) == IF Accepted(sym) /\ sym.kind = kind THEN {sym.off} ELSE {}
     IN  /\ Insert(sym, 2)
         /\ vtables' = vtables \union found("vtable")
         /\ typeinfos' = typeinfos \union found("typeinfo")
         /\ Advance(sym, i + 1, Len(elf), "vtables")
  /\ UNCHANGED <<inputs, file, utf8, notice, work, inTx, outcome, wizardVars>>

FillPdb ==
  /\ pc = "pdb"
  /\ i <= Len(pdb)
  /\ Insert(pdb[i], 1)
  /\ \E n \in i+1 .. Len(pdb) + 1 : NextPdb(n) /\ Advance(pdb[i], n, Len(pdb), "sort")
  /\ UNCHANGED <<inputs, file, utf8, notice, work, inTx, vtables, typeinfos,
                 outcome, wizardVars>>

\* A PDB without symbols: Get goes through a null pointer.
NoPdbSymbol ==
  /\ pc = "pdb"
  /\ pdb = <<>>
  /\ End("aborted")
  /\ UNCHANGED <<inputs, file, utf8, work, unsorted, vtables, typeinfos, i,
                 wizardVars>>

FillVtables ==
  /\ pc = "vtables"
  /\ Write([Seen EXCEPT !.vtables = vtables])
  /\ pc' = "typeinfos"
  /\ UNCHANGED <<inputs, utf8, notice, inTx, unsorted, vtables, typeinfos, i,
                 outcome, wizardVars>>

FillTypeinfos ==
  /\ pc = "typeinfos"
  /\ Write([Seen EXCEPT !.typeinfos = typeinfos])
  /\ pc' = "pdb"
  /\ UNCHANGED <<inputs, utf8, notice, inTx, unsorted, vtables, typeinfos, i,
                 outcome, wizardVars>>

-----------------------------------------------------------------------------
(* The end of the pipeline                                                  *)

\* The rows in an order of their keys; which of two equal keys comes first is up
\* to sqlite.
ByKey(rows) ==
  {[k \in DOMAIN rows |-> rows[order[k]]] :
     order \in {p \in Bijection(DOMAIN rows, DOMAIN rows) :
                 \A m, n \in DOMAIN rows : m < n => rows[p[m]].key <= rows[p[n]].key}}

Sort ==
  /\ pc = "sort"
  /\ \E rows \in ByKey(unsorted) : Write([Seen EXCEPT !.symbols = rows])
  /\ unsorted' = <<>>
  /\ pc' = "index"
  /\ UNCHANGED <<inputs, utf8, notice, inTx, vtables, typeinfos, i, outcome,
                 wizardVars>>

RebuildIndex ==
  /\ pc = "index"
  /\ Write([Seen EXCEPT !.indexed = Seen.symbols])
  /\ pc' = "commit"
  /\ UNCHANGED <<inputs, utf8, notice, inTx, unsorted, vtables, typeinfos, i,
                 outcome, wizardVars>>

Commit ==
  /\ pc = "commit"
  /\ inTx
  /\ file' = work
  /\ inTx' = FALSE
  /\ pc' = "vacuum"
  /\ UNCHANGED <<inputs, utf8, notice, work, unsorted, vtables, typeinfos, i,
                 outcome, wizardVars>>

Vacuum ==
  /\ pc = "vacuum"
  /\ pc' = "close"
  /\ UNCHANGED <<inputs, file, utf8, notice, work, inTx, unsorted, vtables,
                 typeinfos, i, outcome, wizardVars>>

\* The destructor finds nothing to complain about and wmain returns 0.
Close ==
  /\ pc = "close"
  /\ End("ok")
  /\ UNCHANGED <<inputs, file, utf8, work, unsorted, vtables, typeinfos, i,
                 wizardVars>>

\* How the process ends when a step fails.  Most failures are exceptions that
\* wmain reports with exit code 1.  The process dies instead when the exception is
\* a DumpError, which does not match catch (std::exception const &); when the
\* failed insert statement is finalized, with the same error, by a destructor that
\* throws, or the connection is closed under the first statement of FillContext after
\* the second could not be prepared; when a demangled name cannot be printed; and at
\* the end of the PDB, if the enumerator leaves no symbol behind.
FailureOf(step) ==
  CASE step \in {"load", "elf", "vtables", "typeinfos", "pdb"} -> {"error", "aborted"}
    [] step \in {"close", "ended"} -> {}
    [] OTHER -> {"error"}

Fail ==
  /\ \E how \in FailureOf(pc) : End(how)
  /\ UNCHANGED <<inputs, file, utf8, work, unsorted, vtables, typeinfos, i,
                 wizardVars>>

\* One step of the pipeline that does not fail.
Progress ==
  \/ Load
  \/ OpenDatabase
  \/ Begin
  \/ Schema
  \/ PrepareInserts
  \/ FillElf
  \/ FillVtables
  \/ FillTypeinfos
  \/ FillPdb
  \/ NoPdbSymbol
  \/ Sort
  \/ RebuildIndex
  \/ Commit
  \/ Vacuum
  \/ Close

Build == Progress \/ Fail

-----------------------------------------------------------------------------
(* The wizard                                                               *)

\* process.html executes the command line tool.
StartBuild ==
  /\ window = "closed"
  /\ runs < MaxRuns
  /\ runs' = runs + 1
  /\ window' = "open"
  /\ proc' = TRUE
  /\ processDone' = FALSE
  /\ notice' = "none"
  /\ work' = Blank
  /\ inTx' = FALSE
  /\ unsorted' = <<>>
  /\ vtables' = {}
  /\ typeinfos' = {}
  /\ pc' = "load"
  /\ i' = 0
  /\ outcome' = "running"
  /\ UNCHANGED <<inputs, file, utf8>>

\* Done for any exit code.
BugTerminated ==
  /\ window = "open"
  /\ notice # "none"
  /\ processDone' = TRUE
  /\ proc' = FALSE
  /\ notice' = "none"
  /\ UNCHANGED <<inputs, file, utf8, builderVars, window, runs>>

\* The terminate event of the process.
Terminated ==
  /\ window = "open"
  /\ notice # "none"
  /\ processDone' = (processDone \/ notice = "ok")
  /\ proc' = FALSE
  /\ notice' = "none"
  /\ UNCHANGED <<inputs, file, utf8, builderVars, window, runs>>

\* closing: Cancel, Done and the window's own button.
Closing ==
  /\ window = "open"
  /\ window' = "closed"
  /\ IF proc /\ outcome = "running"
     THEN End("killed")
     ELSE UNCHANGED <<outcome, pc, inTx, notice>>
  /\ UNCHANGED <<inputs, file, utf8, work, unsorted, vtables, typeinfos, i, proc,
                 processDone, runs>>

Halted ==
  /\ window = "closed"
  /\ runs = MaxRuns
  /\ UNCHANGED vars

Next == Build \/ StartBuild \/ Terminated \/ Closing \/ Halted

Spec == Init /\ [][Next]_vars

\* The process makes progress and its end is reported; nothing has to fail, nobody
\* has to start a build or to close the window.
FairSpec == Spec /\ WF_vars(Progress) /\ WF_vars(Terminated)

-----------------------------------------------------------------------------
(* Properties                                                               *)

\* What a row of symbols and what a database holds.
Row == [original : {1, 2}, n : Nat, key : Nat]
Contents == [tag : {"absent", "blank", "old", "new"}, symbols : Seq(Row), indexed : Seq(Row),
             vtables : SUBSET Nat, typeinfos : SUBSET Nat]

\* The type of every variable.
TypeOK ==
  /\ elf \in Seq(ElfSymbol)
  /\ pdb \in Seq(PdbSymbol)
  /\ file \in Contents
  /\ work \in Contents
  /\ inTx \in BOOLEAN
  /\ utf8 \in BOOLEAN
  /\ reused \in BOOLEAN
  /\ unsorted \in Seq(Row)
  /\ vtables \subseteq Nat
  /\ typeinfos \subseteq Nat
  /\ pc \in Steps \union {"ended"}
  /\ i \in Nat
  /\ (pc = "ended") <=> (outcome # "running")
  /\ outcome \in {"none", "running", "ok", "error", "aborted", "killed"}
  /\ window \in {"open", "closed"}
  /\ proc \in BOOLEAN
  /\ processDone \in BOOLEAN
  /\ notice \in {"none", "ok", "error", "aborted", "killed"}
  /\ runs \in 0..MaxRuns

\* The rows the inputs call for, without their keys.
ExpectedRows ==
  {<<2, n>> : n \in {m \in DOMAIN elf : Accepted(elf[m])}} \union
  {<<1, n>> : n \in {m \in DOMAIN pdb : Accepted(pdb[m]) /\ (m = 1 \/ ~pdb[m].public)}}

ExpectedOffsets(kind) ==
  {elf[n].off : n \in {m \in DOMAIN elf : Accepted(elf[m]) /\ elf[m].kind = kind}}

\* A finished database: each accepted symbol of either input exactly once, in the
\* order of the keys, all of them in the full-text index, and every vtable and
\* typeinfo.
Complete(c) ==
  /\ c.tag = "new"
  /\ {<<c.symbols[n].original, c.symbols[n].n>> : n \in DOMAIN c.symbols} = ExpectedRows
  /\ Len(c.symbols) = Cardinality(ExpectedRows)
  /\ \A n \in 2..Len(c.symbols) : c.symbols[n-1].key <= c.symbols[n].key
  /\ c.indexed = c.symbols
  /\ c.vtables = ExpectedOffsets("vtable")
  /\ c.typeinfos = ExpectedOffsets("typeinfo")

\* Wherever a build fails or is killed, and however often it is repeated, the file
\* holds what it held before or a finished database (main.cpp:425 to 411: schema, rows
\* and index in one transaction).
NeverPartial == file.tag = "new" => Complete(file)

\* The wizard offers "Done" only for a finished database, and exit code 0 means
\* the same (process.html:31, main.cpp:405-414).
DoneIsComplete == processDone \/ outcome = "ok" => Complete(file)

\* The search key of every stored symbol is the name of that symbol, also when a
\* database is built again, unless the first build overwrote a UTF-8 database of
\* other origin (main.cpp:420 protects main.cpp:571).
KeysFaithful ==
  ~reused =>
    \A n \in DOMAIN file.symbols :
      LET row == file.symbols[n]
          input == IF row.original = 2 THEN elf ELSE pdb
      IN  row.key = input[row.n].key

\* What the file is to whoever opens it.  No build lets anybody see "partial".
Held ==
  IF file.tag = "new" /\ ~Complete(file) THEN "partial"
  ELSE [absent |-> "none", blank |-> "empty", old |-> "other", new |-> "finished"][file.tag]

\* How far the last build has come.
Stage ==
  IF pc \in {"vacuum", "close"} THEN "stored"
  ELSE [none |-> "none", running |-> "running", ok |-> "ok", error |-> "failed",
        aborted |-> "failed", killed |-> "failed"][outcome]

Promise == INSTANCE ProjectFile WITH held <- Held, build <- Stage, offered <- processDone

\* Pipeline, process and wizard add up to a file that changes from what it was to a
\* finished database in the one step of COMMIT, under one build at a time
\* (main.cpp:410-411, wizard.html:47-59).
ImplementsProjectFile == Promise!Spec

\* A build that was started ends, and the wizard learns of it or was closed.
BuildEnds == window = "open" /\ proc ~> ~proc \/ window = "closed"
=============================================================================
