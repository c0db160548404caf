# BDSD: models, checks and proofs

BDSD compares the Linux and the Windows build of the Bedrock Dedicated Server. A command line tool
(`symutils`) reads the symbols of an ELF file and of a PDB file, demangles them and writes a project
database (sqlite with a full-text index). A GUI on the Sciter engine runs that tool from a wizard and
searches the database, through two native extensions that work on background threads.

This directory holds TLA+ modules of that system, configurations for TLC, and proofs for TLAPS.
`PROJECT.json` maps every definition to the lines it models, lists the runs, the seeded faults that each
property must catch, the hazards and the theorems. Paths below are relative to `src/`.

## The system

| component | state | operations | talks to |
|---|---|---|---|
| task pool, `TaskPool/` | `stop`, `mtx`, `cv`, `tasks`, the worker thread | constructor, `AddTask`, `Worker`, destructor | owned by `DB` and by the bedrock extension |
| sqlite extension, `sqlite3/sciter-sqlite*` | `pDb`, the pool; a `Recordset` has its statement `pst` | `open`, `exec`, `execCallback`, `close`, `lastRowId`; `next`, `close`, accessors | called by scripts, calls back into them from the worker |
| tokenizer, `sqlite3/SymbolTokenizer.cpp` | local: `i`, `rec0`, `rec1`, `state` | `symbol_tokenize`, `symprefix` | called by fts5 when the index is built or searched |
| database builder, `CLI/main.cpp` | the sqlite file and transaction, two statements, `vtables`, `typeinfos` | the pipeline of `operator()`, the destructor, `wmain` | ELF and PDB readers, sqlite; started by the wizard |
| wizard, `data/wizard*` | `proc`, `processDone`, the chosen files | start, `terminate` event, closing | executes and kills the builder |
| ELF reader, `ELF/` | file mapping, section table | `GetIterator`, `GetSection`, `GetMapped`, `GetOffset` | builder |
| PDB reader, `PDB/` | DIA session and enumerator | `Get`, `Next` | builder |
| file mapping, `common/windowscommon.h` | `raw`, `ptr`, `num` | construct, move, unmap | ELF reader |
| bedrock extension, `BedrockExt/` | a pool | `demangleVtableFunction` | vtable page |
| browser, `data/browser.html`, `data/tab-content/` | `tabs`, `selected`; per page its records | add, select and close a tab; search; vtable with chained queries | sqlite and bedrock extensions |
| virtual list, `data/common/vlist.tis` | `buffer_start`, `buffer_size`, the rendered elements | scroll, resize, change of the records | pages |
| adapter, `Adapter/`; demanglers, `Demangler/` | none | tree translation and printing | builder |
| window extension, `WindowExt/` | none | dialogs, window decoration | wizard, browser |

What is hard here:

* **Threads.** The pool's worker, the threads that add tasks and the thread that destroys the pool; the
  script thread and the worker share a `DB` with no lock of their own, while either can close it.
* **Lifetime.** Members are constructed and destroyed in an order that lets other threads see them too
  early (`TaskPool.h:12-14`) or too late (`sciter-sqlite-db.cpp:114-116`).
* **Failure.** Every sqlite call of the builder can throw, the destructor too, and the process can be
  killed by the wizard at any time.
* **Hidden dependence.** The keys of the symbols are bound to a dead temporary (`CLI/main.cpp:571`), and
  stored correctly only because of the encoding that `sqlite3_open16` gives to a new file.
* **Late answers.** Callbacks of queries and demanglings fill a page that is shown, scrolled, reloaded or
  exported meanwhile; tasks posted by one event run after the next one has changed what they assume.
* **Index arithmetic.** The tokenizer moves its loop variable inside the loop; tabs, frames and elements share
  indices that shift; the list translates between elements and records in four places; the scan of a vtable
  knows its end only by what stands there.

### What makes each component correct

* Pool: tasks once, in order; no worker asleep on work; nothing left when the destructor returns; it returns.
* DB: one answer per call, in order; each statement has one owner and one connection; use after close refused.
* Builder and wizard: the file is the old one or a complete new one; Done means complete; the build ends.
* Tokenizer: tokens in the text, in order, none lost, no separators in words.
* ELF scan: the rows of a vtable and a type_info are those in the file; reads stay in the section.
* Vtable page: a record gets the answers to its own questions; the export says what is known; it comes to rest.
* Browser: frames and elements follow the tabs; the selected tab exists; indices and posted tasks add up to a
  plain row of tabs.
* Search page and list: the elements are the part of the array they are taken for and cover the view; the page
  shows what the last query brought.

## Modules

`TaskQueue` is the **abstract pool**: a queue, the task being run and a phase. `TaskPool` is the **real
one** and implements it (`ImplementsQueue`, with `running` the task last taken while the worker is in it,
and `phase` from `stop` and the owner's progress). `AsyncDb` is composed with `TaskQueue` as its pool, so
that the refinement carries over: what `AsyncDb` assumes of the pool is what `TaskPool` was shown to do.
The one thing the abstraction takes for granted is a pool whose construction went well.

`ProjectFile` is what the **user of the wizard** relies on: a build replaces what the output held by a finished
database in one step or leaves it alone, a finished one is lost to no later build, and Done is offered after success
only. `DatabaseBuilder` implements it (`ImplementsProjectFile`, with `Held` for the content that others see and `Stage`
for what the last build has come to).

Likewise `TabBar` is the **abstract row of tabs**, without an index, and `BrowserTabs` implements it. `SearchView`
EXTENDS `VirtualList`: the page and the list it owns are one state, and its queries are answered in order because
`AsyncDb` answers so (`OneAnswerEach`). `VtableView` stands between two such pools, one of the DB and one of the
bedrock extension. `ElfScan` refines what `DatabaseBuilder!FillElf` abstracts to an offset.

### TaskPool

State: the members of the class, `wpc` (where the worker is in `Worker`), `apc[c]` (where caller `c` is in
`AddTask`), `owner` (constructor, life, destructor) and two histories. An action is one critical section,
or one step between two: `AddTaskLock`, `AddTaskPush` (emplace and unlock), `AddTaskNotify`. The test of the
queue (`WorkerEmpty`) and the wait (`WorkerWait`) are separate steps, though under one hold of the mutex.
The worker calls `AddTask` from inside a task. Spurious wake-ups are an action.

The members are initialised in the order stop, mtx, thread, cv, tasks, so the worker may test `tasks`
before it exists (`WorkerEarly`). The outcomes are a choice: it runs garbage (`crashed`), it waits on a
condition variable that is then constructed over its wait (`deaf`), or it happens to see an empty queue.

### AsyncDb

State: the connection (`conn`), the member `pDb`, the asset's life (`object`), for each of the two threads
its place in `exec` (`frame`), the statement of each call, its Recordset and that one's member `pst`, and the
pool. `DB::exec` is one action per call of sqlite whose outcome depends on `pDb`. `Close` and `NullPDb` are the two
statements of `DB::close`. A Recordset stays after `close`, or after the `next` that found the end, without its
statement (`CloseRecordset`), and can be closed or dropped again (`DestroyRecordset`); one that the callback does not
keep goes with the task. `refused` remembers that close or the destructor came while an exec or a Recordset had a
statement. `marshal` says whether `cb.call` runs the callback on the script thread and waits; this is
the engine's choice and both are explored. Callbacks issue further queries. A callback itself does not
close or drop the DB on the worker, and `cb.call` itself does not throw.

### DatabaseBuilder

State: the file as others see it, the transaction's own view, the temporary table, the two maps, the step
and the symbol the pipeline is at, and the wizard's three variables. A step that writes does so through
`Write`, to the transaction if one is open and to the file at once if not; it is the place of BEGIN and
COMMIT, not the shape of the model, that makes the file atomic. `Fail` ends the process at any step, with
an exit code or an abort (`FailureOf`); `Closing` kills it. A symbol is a record of its key's rank, its
offset, whether the decoder accepts it, and its kind; `InputsAssumption` gives its type, and that a symbol table
is not empty (the loop over it, a do-while, takes the first symbol unasked). `ORDER BY` leaves rows of equal keys
in any order (`ByKey`).

### SymbolTokenizer

One action per branch of the loop body over texts of abstract characters; `Keyword` is "operator".

### ElfScan

State: the words seen through `rodata`, the symbol numbers of the runtime's classes, the maps filled from the
relocations, the symbol the scan is at, and what it stored. A section comes with the objects laid out in it
(vtables, type_infos, other data) and is chosen initially, so that the rows can be compared with what was there:
`SectionsAssumption` says which objects there are and that `words` are theirs, one right behind the other. A word
that a symbol of the runtime is to fill is zero in the file; the relocation at its address tells a slot of
`__cxa_pure_virtual` (`Pure`) from an imported function or a plain number (`Zero`). Entries of either kind stand in
the slots of a vtable, in its further parts, and in data, since a construction vtable is an object that the scan
does not know. A vtable is `Closed` when the scan ends in it or right behind it; one that is not runs on into the
next object, as in the code, and its rows then only contain its slots. `StraysAssumption` puts further symbols
outside of the section. A read there is undefined behaviour and a choice: it ends the process, or yields words
(`Tails`, at most `MaxGarbage` of them before a zero). `skipped` are the symbols whose name is not demangled or begins
as one of those that `isSkiped` drops: they add no row, though the relocations of their object are read.
Addresses and offsets count words of 8 bytes; `Dword` and `Half` stand for the 2^32 at which the offset of a
view is cut and at which the two halves of a word meet.

### VtableView

State: what the database would answer for each name (`found`, chosen initially), the records (`rows`, `full`,
`decoded`), the round of the loop that asks for them, and the two queues. One action per way through a callback:
`FullHit`, `FullMiss` (which asks for the prefix), `PrefixHit`, `PrefixMiss`; on the other pool `Refuse` (returns
before the callback), `Decode` and `DecodeAndCrash` (the lambda ends without the value its type demands). The
export is `Line`, evaluated in every state, since its button is there all the time.

### BrowserTabs

State: `tabs` and `selected` of the model, the frames, the elements as last rendered, and the queue of posted
tasks: rendering (posted once), scrolling (posted for each change of `selected`), and the selection that
`closeTab` posts because the click goes on to the tab and selects it. Inputs come from elements as rendered, so
an index may be stale. Posted tasks run in order; that an input may come before them is assumed, as the engine
does not promise otherwise.

### VirtualList and SearchView

State of the list: the array and its records as versions, `buffer_start`, `visible_items`, the elements with the
record and version each shows, the scroll position, and the position that a waiting event tells (`scrollPos`).
Whether `scrollTo` sends an event is the engine's choice (`ScrollTo`): without one `told` is FALSE, and an event that
waits from before takes the window to a position that is past. A click on a row scrolls until it is in the view
(`SetCurrent`). `PumpAfter`,
`PumpBefore` and `ResetView` are the three ways the window is filled; `OnScroll`, `OnSize` and `SetValue` choose
between them. A change of a record runs its observer (`Touch`). `buffer_size` is computed from `visible_items`.
Heights are left out: a position is a row, so the margins that stand for records without elements are not
modelled. The height of a row is measured by the constructor, on the template (`vlist.tis:538`); `pumpAfter` measures
again only while it is the initial 10 pixels (`vlist.tis:144`), and that second measurement is left out. Of the page
there are the queries without an answer and the query whose error is shown.

## Runs

| run | instance | distinct states | shows |
|---|---|---|---|
| `TaskPoolSafety` | 2 clients and the worker as callers, 2 tasks, 4 calls | 4368 | order, exactly-once, no lost wake-up, drained join, refinement |
| `TaskPoolLive` | the same, 3 calls | 1616 | every task is taken, the destructor returns |
| `AsyncDbSafety` | 4 calls on 2 threads | 1714899 | answers, owners of statements, connections left open, crashes; the inductive `DbInv` |
| `AsyncDbLive` | 3 calls | 137383 | every call answered, destructor returns |
| `AsyncDbCloseCloses` | 2 calls | violated | finding 1 |
| `AsyncDbClosedIsRefused` | 2 calls | violated | finding 2 |
| `DatabaseBuilder` | 3 ELF tables x 3 PDB enumerations, 2 builds, old file or none | 42577 | atomic file, meaning of Done, faithful keys, termination, refinement of `ProjectFile` |
| `SymbolTokenizer` | all texts up to 5 of 9 characters | 447176 | the six properties of the tokenizer |
| `ElfScan` | all sections of up to 3 of 12 objects, 6 sets of stray symbols, 3 of skipped ones, 3 symbol tables, 2 offsets | 1665662 | rows as laid out, reads outside only where named |
| `VtableView` | up to 3 slots of 5 kinds, 2 names, 2 PDB symbols, every database over them | 532728 | own answers, honest export, comes to rest |
| `BrowserTabs` | 4 tabs and the home page, inputs while up to 6 tasks are posted | 320814 | frames follow, selection exists, refinement of `TabBar` |
| `SearchView` | arrays of up to 6 records, views of up to 2 rows, 2 queries | 2737935 | faithful window, covered view, latest answer |

**Bounds.** `MaxAdds` (pool): four calls are two from a client that race with one from another and one
from inside a task, which fills every combination of callers and leaves a queue of two behind a running
task. `MaxExec` (DB): one call in progress on each thread, one waiting and one Recordset left over.
`MaxRuns`: a second build over what the first one left. The inputs of the builder contain two names for
one vtable, skipped symbols at the beginning, middle and end, offset 0, public symbols in the first place
and later, and no PDB symbol at all. Five characters are enough for each pair of states of the tokenizer
with a character before and after, and for the keyword with a name behind it. `ElfScan`: three objects put each
kind of object before and behind each kind; the offsets put the section below and above the cut; a skipped
symbol stands before or behind one that is not. `VtableView`:
three slots are one whose answer is handled, one that is asked and one the loop has not come to. `BrowserTabs`:
two closes, an open tab on each side and one more; six tasks are those of three inputs. `SearchView`: a window is
3 to 5 elements, so six records leave some out at both ends of one; two queries give a second array over the first.

**Deadlock** is checked in every run. Where the system may stop, an action says so: `Halted` (the pool is
gone, the process is dead or hung, the wizard is closed) or `Finished`.

**Fairness.** The operating system schedules runnable threads: weak fairness of the worker, of an `AddTask`
in progress, and of a constructor or destructor in progress. Nobody has to add a task, destroy a pool, run
a query, start a build or close the wizard. In `VtableView` the workers of both pools and the script thread, which
loops over the records and runs callbacks, are fair; the user's page need not be. Weak fairness suffices for the mutex because its waiters do not
have to be served: whoever holds it leaves it in its next step, and callers are bounded. In `AsyncDb` the
worker's callback with `marshal` needs the script thread to be idle again and again; as the calls are
bounded, it is idle for good in the end.

**Exceptions inside properties.** `EveryTaskRuns` and both forms of `DestructorReturns` hold up to
`Undefined`, `crashed` and `Deadlocked`. These are states of the model that the code can reach: the
constructor's order of members, a close that overtakes the worker, and a destructor that joins a worker
whose callback waits for the same thread. `CrashOnlyWhenHasty` says when the second can happen.
So `EveryTaskRuns` says nothing of a pool whose construction went wrong, and `DestructorReturns` does not exclude the
hang of `sciter-sqlite-db.cpp:115`: both are outcomes the code has. `NothingLost` excuses the character after a colon,
which the code drops (`SymbolTokenizer.cpp:103`), and `ExportHonest` the label written while a demangling is on its
way (`vtable.html:180`). `LeakNeedsHolder` does not say that `close` closes, which is finding 1.
`Settles` holds up to `crashed`, the lambda that ends without its value. `SelectedExists` leaves out
`late = "close"`: two closes without the posted selection of the first in between; `ImplementsTabBar` leaves out
any input at that point. `WindowFaithful` leaves out `skewed`: the view grew before the list handled a scroll to
a row above its window; even then no row is left without an element (`Covered`). `Covered` leaves out a move of the
position of which no event tells, until the next one. `RowsRecovered` leaves out sections beyond the first 4 GiB of the file, and
`CrashNeedsStray` lists what else a read outside of the section needs. Each is a state of the model, and TLC reports
a violation when the exception is taken out.

**Seeded faults.** Operators called `Bug...` are never part of a specification; each is a plausible mistake
in the definition that follows it, and `PROJECT.json` pairs it with the property that detects it.

## Findings

1. `DB.close()` does not close a DB that has an open Recordset or an exec in progress on the worker
   (`sciter-sqlite-db.cpp:15-19`): sqlite answers BUSY, the answer is dropped and the handle forgotten.
2. The test "DB is already closed" (`sciter-sqlite-db.cpp:67-68`) does not protect the calls that follow it:
   the script thread, or `~DB`, closes the connection while the worker is between the test and the call.

Observations made on the way, of which no document of the repository says otherwise:

* Two closes before the first posted selection: the second starts from the index that the click on the first
  left in `selected` (`browser.html:153,157`), and the window may end without a selected tab.
* A view that grows before its scroll event is handled makes `pumpAfter` count its elements from a row above the
  window without dropping them (`vlist.tis:118-126`): rows show other records until the window is made anew.
* Export takes a symbol whose demangling is still on its way for one that failed (`vtable.html:180`).
* A slot of an imported function ends the table, since its word is zero in the file and it is not in `pureset`;
  a vtable of several parts runs on until a zero (`CLI/main.cpp:484`).

## Proofs

`TaskPoolProofs`, for any set of clients, any tasks and any bound, from `ThreadsAssumption` (the three
special threads are distinct and no clients) and `BoundAssumption`:

* `PoolInvariant`: `PoolInv` is inductive. `FifoOnce` stands alone; `NoLostWakeup` does not: that a worker
  about to wait has just seen an empty queue holds only because it has had the mutex since (`LifeInv`, clause
  of "empty"), which needs to know who holds the mutex (`MutexInv`), and that `stop` is announced to it needs
  where the owner is. `CoreStep` goes through the actions one by one.
* `TypeCorrect`, `Fifo`, `WakeupNotLost` and `Drained` follow from it.
* `PoolRefinesQueue`: each action maps to an action of `TaskQueue` or to a stutter (`StepRefines`).

`AsyncDbProofs`, for every `MaxExec` and from `MaxExecAssumption` alone:

* `DbInvariant`: `DbInv` is inductive. `CallsInv` says where each call is: the calls in the queue are newer
  than the worker's and nobody else's, so a thread has its statement to itself. `StatementsInv` ties the
  state of each statement to the frame or Recordset that holds it. `ClosingInv` says what a close that came
  in time leaves behind: an empty pool, and no thread between the test of `pDb` and the use of it. A closed
  connection under a live `pDb` exists only inside `close` or after the destructor began.
* `AnswersOnce` needs only that the task being run is the worker's call; `StatementsHaveOneOwner` follows
  from `StatementsInv`: the Recordset's `pst` tells whether it has the statement, whatever order `next`, `close` and
  the destructor come in. `LeaksExplained` needs `RefusedInv`: a connection that is open once its handle is
  forgotten or its DB dying was refused when it was to be closed, and only a statement with an owner refuses
  (`LiveIsHeld`). `CrashNeedsHaste` on `ClosingInv`. `DbTypes` is the type invariant.

The pool enters these proofs as `TaskQueue`, whose promise `PoolRefinesQueue` proves. The lemmas on queues, and on
histories that end in one, stand at the head of the modules that use them.

`VtableViewProofs`, for any items, symbols, database and number of slots, from `ItemsAssumption`,
`SymbolsAssumption` and `MaxRowsAssumption`: `PageInv` is inductive. A query on its way is the only one of its
record, about its value, and the record is empty (`AskedInv`), so an answer cannot overwrite another; a demangling
on its way is that of the symbol the record shows (`MangledInv`). `AnswersReachTheirRecord` and
`ExportNeverLies` follow; the second needs in addition that a prefix is asked for only when the whole value has no
symbol (`AnswersInv`).

`BrowserTabsProofs`, for any numbers of tabs and posted tasks, from `BoundsAssumption`: `BarInv` is inductive. That
the selected tab exists rests on the order of the queue (`Ordered`): at most one selection is posted, elements too
many are rendered before it, and none is scrolled to while it is not there unless they are to be rendered.
`TabsRefineTabBar` maps `current` to the tab that will be selected once the queue has run (`Final`).

`SearchViewProofs`, for any bounds, from `BoundsAssumption`: `ViewInv` is inductive. `WindowFaithful` alone is not:
the three fillings need that the window starts in the array and is full, or the array ends, and that the scroll
position is one the view can have, and a waiting event of a move that was told tells of it (`PlaceInv`). `LatestIsShown` needs that the queries under way are the last ones
sent, in order (`AnswersInv`).

`SymbolTokenizerProofs`, for every alphabet, keyword and set of texts, from `AlphabetAssumption` and
`TextsAssumption`: `TokensStayInText`, `TokensEndInOrder`, `RecordsInOrder` and `TokenizerTypes`. The invariant bounds the
last token's end by `i` as well as by the length, since `i` can be one past a character never looked at;
that an index is at most the length after an underscore at the end of the text is the crux. What the tokens hold needs
two invariants more. `NothingIsLost` rests on `PassedInv`: a character of a name that the loop has passed is in a
token, in the token under way, or behind a colon, where `NothingLost` excuses it. `SeparatorsStayOut` rests on
`PartsInv`, which says of the token under way where a separator in it comes from: an underscore before it, or the
keyword "operator" as the token before. Each branch of the loop is one case, split into what it emits and what it
goes on with (`PassLoop`, `PartsLoop`).

`DatabaseBuilderProofs`, for any symbol tables of any length and any number of builds, from `InputsAssumption` and
`MaxRunsAssumption`: `Inv` is inductive. `FileIsNeverPartial` alone is not: that the file goes from what it was to a
finished database in one step needs what the open transaction holds at every step of the pipeline (`WorkInv`), and
that needs which symbols have been taken and stored by then, each once (`FillInv`): the loops take the symbols in
order and skip what the decoder refuses, and sorting keeps the rows that it orders. `DoneMeansComplete` needs that a
notice of success is one of a committed build (`FileInv`); `KeysAreNames` needs the encoding of the connection under
every insertion (`KeysInv`), and holds for a file that is made anew. `BuilderTypes` is the type invariant.
`BuilderKeepsPromise` proves the refinement of `ProjectFile` from `Inv` and `WindowInv` (a build that runs has its
window open and its end has not been reported): the commit is `Store`, the opening of a file that is not there is
`Create`, failure and kill are `Break`, and the rest of the pipeline stutters (`StepKeepsPromise`).

`ElfScanProofs`, for any sections, stray symbols, symbol tables, offsets, base address and sizes of the words, from
the six assumptions of `ElfScan`: `ScanInv` is inductive. `RowsRecovered` alone speaks of the last step only; what
it needs of the steps before is that the symbols passed so far have the words, or the class and bases, of the objects
they name (`Scanned`), and of the preparation that the view is the section (`Viewed`), the class numbers are those of
the symbol table (`ClassesFound`) and the maps hold exactly the type_infos and the pure slots (`Mapping`).
`CrashNeedsStray` needs for each symbol where its reads end. The lemmas follow the file: no two objects share an
address and each word of an object is found at its place (`Places`, `ObjectWords`); a relocation at an address is that
of the entry there (`PureAt`, `ClassAt`), so the scan stops at an entry exactly when it is `Zero` (`EntryStops`) and
its first stop lies behind the readable slots, and in or right behind a closed vtable (`Scan`); the words of a
type_info give back its class, flags and bases, with the halves and bytes taken apart again (`Describes`, `Halves`,
`Bytes`); and a view below the cut is the section (`ViewIsSection`). `SectionRecovered` and `CrashExplained` are the two
properties. TLC checked `ScanInv` on the sections of up to two objects before it was proved.

Model-checked only: liveness (`EveryTaskRuns`, `EveryCallAnswered`, both `DestructorReturns`, `BuildEnds`,
`Settles`), which TLAPS does not handle here. Every invariant and every safety property of steps that a passing run
checks is a theorem.

## Not modelled

* Vendored code: sqlite, the LLVM demanglers, the Sciter SDK. Sqlite appears by its interface: each call
  atomic, BUSY from `sqlite3_close` with live statements, null handles checked except in `sqlite3_changes`,
  transactions, conversion of bound text.
* The adapter (a pure translation and its printing), the commands that only print, dialogs and windows.
* Values: numbers of changes, error messages, column contents.
* The list's handlers of ranges added to or deleted from its array: the pages of this program assign whole arrays.
  Of the current record only the scrolling; which row is marked as current is layout. Data binding of `plus.tis` beyond repeated elements.
* Moves between views of a file mapping: sequential code in which each move empties its source.

Of the lines in the repository nearly all are vendored (sqlite alone is 258000, the LLVM demanglers 9000 of 271000);
the project's own C++ is some 3100 lines and its pages and scripts, the libraries of the toolkit included, 3000. It is
these that the map covers.

## Plan

What is left, in this order:

1. `SymPrefix`: `symprefix` against a reference definition of "the name up to its parameters", over all short
   texts; depth counters and the tests for "operator(".
2. What `emit` returns, and the callback of fts5, in the tokenizer.
3. The list's handlers of ranges.
