----------------------- MODULE DatabaseBuilderProofs -----------------------
(* Whatever the inputs, and wherever a build fails or is killed, the file of  *)
(* the project holds what it held or a finished database, and "Done" means a  *)
(* finished one.                                                              *)
EXTENDS DatabaseBuilder, FiniteSetTheorems, FunctionTheorems, SequenceTheorems, TLAPS

-----------------------------------------------------------------------------
(* The invariant                                                             *)

\* The symbol a row stands for, and the symbols that some rows stand for.
Id(row) == <<row.original, row.n>>
Ids(rows) == {Id(rows[n]) : n \in DOMAIN rows}

\* The rows that the first symbols of the inputs call for, and their offsets.
ElfRows(e) == {<<2, n>> : n \in {m \in 1..e : Accepted(elf[m])}}
PdbRows(p) == {<<1, n>> : n \in {m \in 1..p : Accepted(pdb[m]) /\ (m = 1 \/ ~pdb[m].public)}}
Offsets(kind, e) ==
  {elf[n].off : n \in {m \in 1..e : Accepted(elf[m]) /\ elf[m].kind = kind}}

\* No symbol has two rows.
Once(rows) == \A m, n \in DOMAIN rows : Id(rows[m]) = Id(rows[n]) => m = n

Holds(rows, e, p) == Ids(rows) = ElfRows(e) \union PdbRows(p) /\ Once(rows)

FillInv ==
  /\ elf # <<>>
  /\ pc \in {"load", "database", "begin", "schema", "prepare"} =>
       unsorted = <<>> /\ vtables = {} /\ typeinfos = {}
  /\ pc = "elf" =>
       /\ i \in 1..Len(elf)
       /\ Holds(unsorted, i - 1, 0)
       /\ vtables = Offsets("vtable", i - 1)
       /\ typeinfos = Offsets("typeinfo", i - 1)
  /\ pc \in {"vtables", "typeinfos", "pdb"} =>
       /\ vtables = Offsets("vtable", Len(elf))
       /\ typeinfos = Offsets("typeinfo", Len(elf))
  /\ pc \in {"vtables", "typeinfos"} => i = 1 /\ Holds(unsorted, Len(elf), 0)
  /\ pc = "pdb" =>
       /\ i \in 1..Len(pdb) \/ (i = 1 /\ pdb = <<>>)
       /\ i = 1 \/ ~pdb[i].public
       /\ Holds(unsorted, Len(elf), i - 1)
  /\ pc = "sort" => Holds(unsorted, Len(elf), Len(pdb))

\* A database without its index.
Stored(c) ==
  /\ c.tag = "new"
  /\ Ids(c.symbols) = ExpectedRows
  /\ Len(c.symbols) = Cardinality(ExpectedRows)
  /\ \A n \in 2..Len(c.symbols) : c.symbols[n-1].key <= c.symbols[n].key
  /\ c.vtables = ExpectedOffsets("vtable")
  /\ c.typeinfos = ExpectedOffsets("typeinfo")

InTransaction == {"schema", "prepare", "elf", "vtables", "typeinfos", "pdb", "sort",
                  "index", "commit"}

\* What the open transaction holds at each step.
WorkInv ==
  /\ inTx <=> pc \in InTransaction
  /\ pc \in {"prepare", "elf", "vtables", "typeinfos", "pdb", "sort", "index", "commit"} =>
       work.tag = "new"
  /\ pc \in {"typeinfos", "pdb", "sort", "index", "commit"} =>
       work.vtables = ExpectedOffsets("vtable")
  /\ pc \in {"pdb", "sort", "index", "commit"} => work.typeinfos = ExpectedOffsets("typeinfo")
  /\ pc \in {"index", "commit"} => Stored(work)
  /\ pc = "commit" => Complete(work)

FileInv ==
  /\ NeverPartial
  /\ pc \in {"vacuum", "close"} \/ outcome = "ok" => Complete(file)
  /\ processDone \/ notice = "ok" => outcome = "ok"

\* The key of each row is the name of its symbol.
Faithful(rows) ==
  \A n \in DOMAIN rows :
    rows[n].key = (IF rows[n].original = 2 THEN elf ELSE pdb)[rows[n].n].key

KeysInv ==
  ~reused =>
    ~utf8 /\ Faithful(unsorted) /\ Faithful(work.symbols) /\ Faithful(file.symbols)

Inv == TypeOK /\ FillInv /\ WorkInv /\ FileInv /\ KeysInv

-----------------------------------------------------------------------------
(* Rows                                                                      *)

\* One more row for a symbol that has none yet.
LEMMA AppendRow ==
  ASSUME NEW rows \in Seq(Row), NEW row \in Row
  PROVE  /\ Append(rows, row) \in Seq(Row)
         /\ Ids(Append(rows, row)) = Ids(rows) \union {Id(row)}
         /\ Once(rows) /\ Id(row) \notin Ids(rows) => Once(Append(rows, row))
<1> DEFINE more == Append(rows, row)
<1>1. /\ more \in Seq(Row)
      /\ Len(more) = Len(rows) + 1 /\ Len(rows) \in Nat
      /\ \A n \in 1..Len(rows) : more[n] = rows[n]
      /\ more[Len(rows) + 1] = row
  BY AppendProperties, LenProperties
<1>2. DOMAIN rows = 1..Len(rows) /\ DOMAIN more = 1..Len(rows) + 1
  BY <1>1, LenProperties
<1>3. 1..Len(rows) + 1 = 1..Len(rows) \union {Len(rows) + 1} /\ Len(rows) + 1 \notin 1..Len(rows)
  BY <1>1
<1> HIDE DEF more
<1>4. Ids(more) = Ids(rows) \union {Id(row)}
  BY <1>1, <1>2, <1>3, Zenon DEF Ids
<1>5. ASSUME Once(rows), Id(row) \notin Ids(rows) PROVE Once(more)
  <2> SUFFICES ASSUME NEW m \in DOMAIN more, NEW n \in DOMAIN more, Id(more[m]) = Id(more[n])
               PROVE  m = n
    BY DEF Once
  <2>1. \A k \in 1..Len(rows) : Id(rows[k]) # Id(row)
    BY <1>2, <1>5 DEF Ids
  <2>2. CASE m \in 1..Len(rows) /\ n \in 1..Len(rows)
    BY <1>1, <1>2, <1>5, <2>2 DEF Once
  <2>3. CASE m = Len(rows) + 1 \/ n = Len(rows) + 1
    BY <1>1, <1>2, <1>3, <2>1, <2>3
  <2>. QED
    BY <1>2, <1>3, <2>2, <2>3
<1>. QED
  BY <1>1, <1>4, <1>5 DEF more

\* As many rows as symbols that have one.
LEMMA CountRows ==
  ASSUME NEW rows \in Seq(Row), Once(rows)
  PROVE  Cardinality(Ids(rows)) = Len(rows)
<1> DEFINE f == [n \in 1..Len(rows) |-> Id(rows[n])]
<1>1. Len(rows) \in Nat /\ DOMAIN rows = 1..Len(rows)
  BY LenProperties
<1>2. f \in [1..Len(rows) -> Ids(rows)]
  BY <1>1 DEF Ids
<1>3. \A m, n \in 1..Len(rows) : f[m] = f[n] => m = n
  BY <1>1 DEF Once
<1>4. \A id \in Ids(rows) : \E n \in 1..Len(rows) : f[n] = id
  BY <1>1 DEF Ids
<1>5. f \in Bijection(1..Len(rows), Ids(rows))
  BY <1>2, <1>3, <1>4, Fun_IsBij
<1>. QED
  BY <1>1, <1>5, FS_CountingElements DEF ExistsBijection

\* What sorting does: the same rows, each once, in the order of their keys.
LEMMA SortKeeps ==
  ASSUME NEW rows \in Seq(Row), NEW sorted \in ByKey(rows)
  PROVE  /\ sorted \in Seq(Row)
         /\ Len(sorted) = Len(rows)
         /\ Ids(sorted) = Ids(rows)
         /\ \A n \in 2..Len(sorted) : sorted[n-1].key <= sorted[n].key
         /\ Faithful(rows) => Faithful(sorted)
<1>1. PICK p \in Bijection(DOMAIN rows, DOMAIN rows) :
        /\ sorted = [k \in DOMAIN rows |-> rows[p[k]]]
        /\ \A m, n \in DOMAIN rows : m < n => rows[p[m]].key <= rows[p[n]].key
  BY Zenon DEF ByKey
<1>2. Len(rows) \in Nat /\ DOMAIN rows = 1..Len(rows) /\ \A n \in 1..Len(rows) : rows[n] \in Row
  BY LenProperties, ElementOfSeq
<1>3. /\ p \in [DOMAIN rows -> DOMAIN rows]
      /\ \A n \in DOMAIN rows : \E k \in DOMAIN rows : p[k] = n
  BY DEF Bijection, Surjection, Injection, IsInjective
<1>4. sorted \in [1..Len(rows) -> Row]
  BY <1>1, <1>2, <1>3
<1>5. sorted \in Seq(Row) /\ Len(sorted) = Len(rows) /\ DOMAIN sorted = DOMAIN rows
  BY <1>2, <1>4
<1>6. Ids(sorted) = Ids(rows)
  BY <1>1, <1>3, <1>5, Zenon DEF Ids
<1>7. \A n \in 2..Len(sorted) : sorted[n-1].key <= sorted[n].key
  <2> SUFFICES ASSUME NEW n \in 2..Len(sorted) PROVE sorted[n-1].key <= sorted[n].key
    OBVIOUS
  <2>1. n - 1 \in DOMAIN rows /\ n \in DOMAIN rows /\ n - 1 < n
    BY <1>2, <1>5
  <2>. QED
    BY <1>1, <2>1
<1>8. Faithful(rows) => Faithful(sorted)
  BY <1>1, <1>3, <1>5, Zenon DEF Faithful
<1>. QED
  BY <1>5, <1>6, <1>7, <1>8

-----------------------------------------------------------------------------
(* The symbols read so far                                                   *)

\* Nothing is read before the first symbol.
LEMMA NothingRead ==
  /\ ElfRows(0) = {} /\ PdbRows(0) = {}
  /\ \A kind : Offsets(kind, 0) = {}
  /\ Ids(<<>>) = {} /\ Once(<<>>) /\ Faithful(<<>>)
<1>1. 1..0 = {}
  OBVIOUS
<1>2. DOMAIN <<>> = {}
  BY EmptySeq, LenProperties
<1>. QED
  BY <1>1, <1>2, Zenon DEF ElfRows, PdbRows, Offsets, Ids, Once, Faithful

\* One more symbol of the ELF file.
LEMMA NextElf ==
  ASSUME NEW e \in Nat \ {0}
  PROVE  /\ ElfRows(e) = ElfRows(e - 1) \union (IF Accepted(elf[e]) THEN {<<2, e>>} ELSE {})
         /\ \A kind : Offsets(kind, e) = Offsets(kind, e - 1) \union
              (IF Accepted(elf[e]) /\ elf[e].kind = kind THEN {elf[e].off} ELSE {})
         /\ \A p : <<2, e>> \notin ElfRows(e - 1) \union PdbRows(p)
<1>1. 1..e = 1..e - 1 \union {e} /\ e \notin 1..e - 1
  OBVIOUS
<1>2. ElfRows(e) = ElfRows(e - 1) \union (IF Accepted(elf[e]) THEN {<<2, e>>} ELSE {})
  BY <1>1, Zenon DEF ElfRows
<1>3. ASSUME NEW kind
      PROVE  Offsets(kind, e) = Offsets(kind, e - 1) \union
              (IF Accepted(elf[e]) /\ elf[e].kind = kind THEN {elf[e].off} ELSE {})
  BY <1>1, Zenon DEF Offsets
<1>4. \A p : <<2, e>> \notin ElfRows(e - 1) \union PdbRows(p)
  BY <1>1 DEF ElfRows, PdbRows
<1>. QED
  BY <1>2, <1>3, <1>4

\* One more symbol of the PDB, and the public ones behind it.
LEMMA NextPdbRows ==
  ASSUME NEW p \in Nat \ {0}, NEW q \in Nat, p < q,
         p = 1 \/ ~pdb[p].public,
         \A m \in p + 1..q - 1 : pdb[m].public
  PROVE  /\ PdbRows(q - 1) = PdbRows(p - 1) \union (IF Accepted(pdb[p]) THEN {<<1, p>>} ELSE {})
         /\ \A e : <<1, p>> \notin ElfRows(e) \union PdbRows(p - 1)
<1> DEFINE Wanted(m) == Accepted(pdb[m]) /\ (m = 1 \/ ~pdb[m].public)
<1>1. /\ 1..q - 1 = (1..p - 1) \union {p} \union (p + 1..q - 1)
      /\ p \notin 1..p - 1
      /\ 1 \notin p + 1..q - 1
  OBVIOUS
<1>2. \A m \in p + 1..q - 1 : ~Wanted(m)
  BY <1>1
<1>3. Wanted(p) <=> Accepted(pdb[p])
  OBVIOUS
<1> HIDE DEF Wanted
<1>4. \A r : PdbRows(r) = {<<1, n>> : n \in {m \in 1..r : Wanted(m)}}
  BY DEF PdbRows, Wanted
<1>5. {m \in 1..q - 1 : Wanted(m)} =
        {m \in 1..p - 1 : Wanted(m)} \union (IF Accepted(pdb[p]) THEN {p} ELSE {})
  BY <1>1, <1>2, <1>3, Zenon
<1>6. PdbRows(q - 1) = PdbRows(p - 1) \union (IF Accepted(pdb[p]) THEN {<<1, p>>} ELSE {})
  BY <1>4, <1>5, Zenon
<1>7. \A e : <<1, p>> \notin ElfRows(e) \union PdbRows(p - 1)
  BY <1>1 DEF ElfRows, PdbRows
<1>. QED
  BY <1>6, <1>7

\* All of both inputs is what a finished database is expected to hold.
LEMMA AllRead ==
  ASSUME TypeOK
  PROVE  /\ ExpectedRows = ElfRows(Len(elf)) \union PdbRows(Len(pdb))
         /\ \A kind : ExpectedOffsets(kind) = Offsets(kind, Len(elf))
<1>1. DOMAIN elf = 1..Len(elf) /\ DOMAIN pdb = 1..Len(pdb)
  BY LenProperties DEF TypeOK
<1>. QED
  BY <1>1, Zenon DEF ExpectedRows, ExpectedOffsets, ElfRows, PdbRows, Offsets

-----------------------------------------------------------------------------
(* Types                                                                     *)

\* The constants that databases are made of.
LEMMA ContentTypes ==
  /\ Blank \in Contents /\ Absent \in Contents /\ Old \in Contents /\ New \in Contents
  /\ \A c \in Contents :
       /\ \A rows \in Seq(Row) : [c EXCEPT !.symbols = rows] \in Contents
       /\ [c EXCEPT !.indexed = c.symbols] \in Contents
       /\ \A set \in SUBSET Nat : /\ [c EXCEPT !.vtables = set] \in Contents
                                  /\ [c EXCEPT !.typeinfos = set] \in Contents
<1>1. <<>> \in Seq(Row)
  BY EmptySeq
<1>2. Blank \in Contents
  BY <1>1 DEF Blank, Contents
<1>. QED
  BY <1>1, <1>2 DEF Blank, Absent, Old, New, Contents

LEMMA InitInv == Init => Inv
<1> SUFFICES ASSUME Init PROVE Inv
  OBVIOUS
<1>1. elf \in Seq(ElfSymbol) /\ pdb \in Seq(PdbSymbol)
  BY InputsAssumption DEF Init
<1>2. /\ file \in Contents /\ file.tag # "new" /\ file.symbols = <<>>
      /\ work \in Contents /\ work.symbols = <<>>
  BY ContentTypes DEF Init, Absent, Old, Blank
<1>3. TypeOK
  <2>1. utf8 \in BOOLEAN /\ reused \in BOOLEAN
    BY Zenon DEF Init
  <2>2. unsorted \in Seq(Row) /\ runs \in 0..MaxRuns /\ i \in Nat
    BY EmptySeq, MaxRunsAssumption DEF Init
  <2>. QED
    BY <1>1, <1>2, <2>1, <2>2 DEF Init, TypeOK
<1>4. FillInv /\ WorkInv
  BY InputsAssumption DEF Init, FillInv, WorkInv, InTransaction
<1>5. FileInv
  BY <1>2 DEF Init, FileInv, NeverPartial
<1>6. KeysInv
  BY <1>2, NothingRead DEF Init, KeysInv
<1>. QED
  BY <1>3, <1>4, <1>5, <1>6 DEF Inv

\* What the two fill loops append.
LEMMA InsertTypes ==
  ASSUME TypeOK, NEW original \in {1, 2}, NEW sym, sym.key \in Nat, Insert(sym, original)
  PROVE  unsorted' \in Seq(Row)
<1>1. CASE ~Accepted(sym)
  BY <1>1 DEF Insert, TypeOK
<1>2. CASE Accepted(sym)
  <2>1. PICK key \in StoredKeys(sym) :
          unsorted' = Append(unsorted, [original |-> original, n |-> i, key |-> key])
    BY <1>2 DEF Insert
  <2>2. key \in Nat
    BY <2>1 DEF StoredKeys, Garbage
  <2>3. [original |-> original, n |-> i, key |-> key] \in Row
    BY <2>2 DEF Row, TypeOK
  <2>. QED
    BY <2>1, <2>3, AppendProperties DEF TypeOK
<1>. QED
  BY <1>1, <1>2

LEMMA TypeStep ==
  ASSUME Inv, [Next]_vars
  PROVE  TypeOK'
<1>0. TypeOK /\ FillInv /\ WorkInv /\ Seen \in Contents
  BY DEF Inv, Seen, TypeOK
<1> USE DEF Steps, vars, inputs, builderVars, wizardVars
<1>1. CASE Load
  BY <1>0, <1>1 DEF Load, TypeOK
<1>2. CASE OpenDatabase
  BY <1>0, <1>2, ContentTypes DEF OpenDatabase, TypeOK
<1>3. CASE Begin
  BY <1>0, <1>3 DEF Begin, TypeOK
<1>4. CASE Schema
  BY <1>0, <1>4, ContentTypes DEF Schema, Write, TypeOK
<1>5. CASE PrepareInserts
  BY <1>0, <1>5 DEF PrepareInserts, TypeOK
<1>6. CASE FillElf
  <2> DEFINE sym == elf[i]
             found(kind) == IF Accepted(sym) /\ sym.kind = kind THEN {sym.off} ELSE {}
  <2>1. sym \in ElfSymbol /\ pc = "elf" /\ i \in Nat
    BY <1>0, <1>6, ElementOfSeq DEF FillElf, FillInv, TypeOK
  <2>2. unsorted' \in Seq(Row)
    BY <1>0, <1>6, <2>1, InsertTypes DEF FillElf, ElfSymbol
  <2>3. vtables' \in SUBSET Nat /\ typeinfos' \in SUBSET Nat
    <3>1. found("vtable") \in SUBSET Nat /\ found("typeinfo") \in SUBSET Nat
      BY <2>1 DEF ElfSymbol
    <3>2. vtables' = vtables \union found("vtable") /\ typeinfos' = typeinfos \union found("typeinfo")
      BY <1>6 DEF FillElf
    <3>. QED
      BY <1>0, <3>1, <3>2 DEF TypeOK
  <2>4. i' \in Nat /\ pc' \in {"elf", "vtables"}
    BY <1>6, <2>1 DEF FillElf, Advance
  <2>5. UNCHANGED <<inputs, file, utf8, notice, work, inTx, outcome, wizardVars>>
    BY <1>6 DEF FillElf
  <2>. QED
    BY <1>0, <2>1, <2>2, <2>3, <2>4, <2>5 DEF TypeOK
<1>7. CASE FillVtables
  BY <1>0, <1>7, ContentTypes DEF FillVtables, Write, TypeOK
<1>8. CASE FillTypeinfos
  BY <1>0, <1>8, ContentTypes DEF FillTypeinfos, Write, TypeOK
<1>9. CASE FillPdb
  <2>1. pdb[i] \in PdbSymbol /\ pc = "pdb" /\ i \in Nat
    BY <1>0, <1>9, ElementOfSeq DEF FillPdb, FillInv, TypeOK
  <2>2. unsorted' \in Seq(Row)
    BY <1>0, <1>9, <2>1, InsertTypes DEF FillPdb, PdbSymbol
  <2>3. PICK n \in i + 1..Len(pdb) + 1 : Advance(pdb[i], n, Len(pdb), "sort")
    BY <1>9 DEF FillPdb
  <2>4. i' \in Nat /\ pc' \in {"pdb", "sort"}
    BY <2>1, <2>3 DEF Advance
  <2>5. UNCHANGED <<inputs, file, utf8, notice, work, inTx, vtables, typeinfos,
                    outcome, wizardVars>>
    BY <1>9 DEF FillPdb
  <2>. QED
    BY <1>0, <2>1, <2>2, <2>4, <2>5 DEF TypeOK
<1>10. CASE NoPdbSymbol
  BY <1>0, <1>10 DEF NoPdbSymbol, End, TypeOK
<1>11. CASE Sort
  <2>1. PICK rows \in ByKey(unsorted) : Write([Seen EXCEPT !.symbols = rows])
    BY <1>11 DEF Sort
  <2>2. rows \in Seq(Row)
    BY <1>0, <2>1, SortKeeps DEF TypeOK
  <2>3. file' \in Contents /\ work' \in Contents
    BY <1>0, <2>1, <2>2, ContentTypes DEF Write, TypeOK
  <2>4. /\ pc = "sort" /\ unsorted' = <<>> /\ pc' = "index"
        /\ UNCHANGED <<inputs, utf8, notice, inTx, vtables, typeinfos, i, outcome, wizardVars>>
    BY <1>11 DEF Sort
  <2>. QED
    BY <1>0, <2>3, <2>4, EmptySeq DEF TypeOK
<1>12. CASE RebuildIndex
  BY <1>0, <1>12, ContentTypes DEF RebuildIndex, Write, TypeOK
<1>13. CASE Commit
  BY <1>0, <1>13 DEF Commit, TypeOK
<1>14. CASE Vacuum
  BY <1>0, <1>14 DEF Vacuum, TypeOK
<1>15. CASE Close
  BY <1>0, <1>15 DEF Close, End, TypeOK
<1>16. CASE Fail
  BY <1>0, <1>16 DEF Fail, FailureOf, End, TypeOK
<1>17. CASE StartBuild
  <2>1. runs' \in 0..MaxRuns
    BY <1>0, <1>17, MaxRunsAssumption DEF StartBuild, TypeOK
  <2>. QED
    BY <1>0, <1>17, <2>1, EmptySeq, ContentTypes DEF StartBuild, TypeOK
<1>18. CASE Terminated
  BY <1>0, <1>18 DEF Terminated, TypeOK
<1>19. CASE Closing
  <2>1. /\ window' \in {"open", "closed"}
        /\ UNCHANGED <<inputs, file, utf8, work, unsorted, vtables, typeinfos, i, proc,
                       processDone, runs>>
    BY <1>19 DEF Closing
  <2>2. /\ outcome' \in {"none", "running", "ok", "error", "aborted", "killed"}
        /\ pc' \in Steps \union {"ended"}
        /\ inTx' \in BOOLEAN
        /\ notice' \in {"none", "ok", "error", "aborted", "killed"}
        /\ (pc' = "ended") <=> (outcome' # "running")
    <3>1. CASE proc /\ outcome = "running"
      <4>1. outcome' = "killed" /\ pc' = "ended" /\ inTx' = FALSE /\ notice' = "killed"
        BY <1>19, <3>1 DEF Closing, End
      <4>. QED
        BY <4>1
    <3>2. CASE ~(proc /\ outcome = "running")
      <4>1. UNCHANGED <<outcome, pc, inTx, notice>>
        BY <1>19, <3>2 DEF Closing
      <4>. QED
        BY <1>0, <4>1 DEF TypeOK
    <3>. QED
      BY <3>1, <3>2
  <2>. QED
    BY <1>0, <2>1, <2>2 DEF TypeOK
<1>20. CASE UNCHANGED vars
  BY <1>0, <1>20 DEF TypeOK
<1>. QED
  BY <1>1, <1>2, <1>3, <1>4, <1>5, <1>6, <1>7, <1>8, <1>9, <1>10, <1>11, <1>12, <1>13,
     <1>14, <1>15, <1>16, <1>17, <1>18, <1>19, <1>20
     DEF Next, Build, Progress, Halted

-----------------------------------------------------------------------------
(* What is filled                                                            *)

\* The inputs stay, and with them what they call for.
LEMMA SameInputs ==
  ASSUME UNCHANGED <<elf, pdb>>
  PROVE  /\ \A e : ElfRows(e)' = ElfRows(e) /\ PdbRows(e)' = PdbRows(e)
         /\ \A kind, e : Offsets(kind, e)' = Offsets(kind, e)
         /\ \A rows, e, p : Holds(rows, e, p)' <=> Holds(rows, e, p)
<1>1. \A e : ElfRows(e)' = ElfRows(e)
  BY DEF ElfRows
<1>2. \A e : PdbRows(e)' = PdbRows(e)
  BY DEF PdbRows
<1>3. \A kind, e : Offsets(kind, e)' = Offsets(kind, e)
  BY DEF Offsets
<1>4. \A rows, e, p : Holds(rows, e, p)' <=> Holds(rows, e, p)
  BY <1>1, <1>2, Zenon DEF Holds
<1>. QED
  BY <1>1, <1>2, <1>3, <1>4, Zenon

\* No step changes the inputs.
LEMMA InputsStay ==
  ASSUME [Next]_vars
  PROVE  UNCHANGED <<elf, pdb, reused>>
BY DEF Next, Build, Progress, Load, OpenDatabase, Begin, Schema, PrepareInserts, FillElf,
       FillVtables, FillTypeinfos, FillPdb, NoPdbSymbol, Sort, RebuildIndex, Commit, Vacuum,
       Close, Fail, StartBuild, Terminated, Closing, Halted, vars, inputs

\* What the two fill loops add: a row for the symbol if it is accepted.
LEMMA InsertIds ==
  ASSUME TypeOK, NEW original \in {1, 2}, NEW sym, sym.key \in Nat, Insert(sym, original),
         Once(unsorted), <<original, i>> \notin Ids(unsorted)
  PROVE  /\ Ids(unsorted') = Ids(unsorted) \union
              (IF Accepted(sym) THEN {<<original, i>>} ELSE {})
         /\ Once(unsorted')
<1>1. CASE ~Accepted(sym)
  BY <1>1 DEF Insert
<1>2. CASE Accepted(sym)
  <2> DEFINE row(key) == [original |-> original, n |-> i, key |-> key]
  <2>1. PICK key \in StoredKeys(sym) : unsorted' = Append(unsorted, row(key))
    BY <1>2 DEF Insert
  <2>2. key \in Nat
    BY <2>1 DEF StoredKeys, Garbage
  <2>3. row(key) \in Row /\ Id(row(key)) = <<original, i>>
    BY <2>2 DEF Row, TypeOK, Id
  <2>4. unsorted \in Seq(Row)
    BY DEF TypeOK
  <2> HIDE DEF row
  <2>. QED
    BY <1>2, <2>1, <2>3, <2>4, AppendRow
<1>. QED
  BY <1>1, <1>2

\* One more symbol of the ELF file.
LEMMA FillElfStep ==
  ASSUME Inv, FillElf
  PROVE  FillInv'
<1> DEFINE sym == elf[i]
           found(kind) == IF Accepted(sym) /\ sym.kind = kind THEN {sym.off} ELSE {}
<1>0. /\ TypeOK /\ elf # <<>> /\ UNCHANGED <<elf, pdb>>
      /\ pc = "elf" /\ i \in 1..Len(elf) /\ i \in Nat \ {0} /\ Len(elf) \in Nat
      /\ Holds(unsorted, i - 1, 0)
      /\ vtables = Offsets("vtable", i - 1)
      /\ typeinfos = Offsets("typeinfo", i - 1)
  BY LenProperties DEF FillElf, Inv, FillInv, TypeOK, inputs
<1>1. sym.key \in Nat
  <2>1. sym \in ElfSymbol
    BY <1>0, ElementOfSeq DEF TypeOK
  <2>. QED
    BY <2>1 DEF ElfSymbol
<1>2. /\ Insert(sym, 2)
      /\ vtables' = vtables \union found("vtable")
      /\ typeinfos' = typeinfos \union found("typeinfo")
      /\ Advance(sym, i + 1, Len(elf), "vtables")
  BY DEF FillElf
<1>3. Holds(unsorted', i, 0)
  <2>1. <<2, i>> \notin Ids(unsorted) /\ Once(unsorted)
    BY <1>0, NextElf DEF Holds
  <2>2. /\ Ids(unsorted') = Ids(unsorted) \union (IF Accepted(sym) THEN {<<2, i>>} ELSE {})
        /\ Once(unsorted')
    BY <1>0, <1>1, <1>2, <2>1, InsertIds
  <2>3. ElfRows(i) = ElfRows(i - 1) \union (IF Accepted(sym) THEN {<<2, i>>} ELSE {})
    BY <1>0, NextElf
  <2>. QED
    BY <1>0, <2>2, <2>3, Zenon DEF Holds
<1>4. vtables' = Offsets("vtable", i) /\ typeinfos' = Offsets("typeinfo", i)
  BY <1>0, <1>2, NextElf, Zenon
<1>5. CASE i + 1 <= Len(elf)
  <2>1. i' = i + 1 /\ pc' = "elf" /\ i' - 1 = i /\ i' \in 1..Len(elf)
    BY <1>0, <1>2, <1>5 DEF Advance
  <2>. QED
    BY <1>0, <1>3, <1>4, <2>1, SameInputs DEF FillInv
<1>6. CASE ~(i + 1 <= Len(elf))
  <2>1. i' = 1 /\ pc' = "vtables" /\ i = Len(elf)
    BY <1>0, <1>2, <1>6 DEF Advance
  <2>. QED
    BY <1>0, <1>3, <1>4, <2>1, SameInputs DEF FillInv
<1>. QED
  BY <1>5, <1>6

\* One more symbol of the PDB.
LEMMA FillPdbStep ==
  ASSUME Inv, FillPdb
  PROVE  FillInv'
<1> DEFINE sym == pdb[i]
<1>0. /\ TypeOK /\ elf # <<>> /\ UNCHANGED <<elf, pdb, vtables, typeinfos>>
      /\ pc = "pdb" /\ i \in 1..Len(pdb) /\ i \in Nat \ {0} /\ Len(pdb) \in Nat
      /\ i = 1 \/ ~sym.public
      /\ Holds(unsorted, Len(elf), i - 1)
      /\ vtables = Offsets("vtable", Len(elf))
      /\ typeinfos = Offsets("typeinfo", Len(elf))
  BY LenProperties DEF FillPdb, Inv, FillInv, TypeOK, inputs
<1>1. sym.key \in Nat
  <2>1. sym \in PdbSymbol
    BY <1>0, ElementOfSeq DEF TypeOK
  <2>. QED
    BY <2>1 DEF PdbSymbol
<1>2. PICK n \in i + 1..Len(pdb) + 1 : NextPdb(n) /\ Advance(sym, n, Len(pdb), "sort")
  BY DEF FillPdb
<1>3. n \in Nat /\ i < n
  BY <1>0, <1>2
<1>4. Holds(unsorted', Len(elf), n - 1)
  <2>1. /\ PdbRows(n - 1) = PdbRows(i - 1) \union (IF Accepted(sym) THEN {<<1, i>>} ELSE {})
        /\ \A e : <<1, i>> \notin ElfRows(e) \union PdbRows(i - 1)
    BY <1>0, <1>2, <1>3, NextPdbRows DEF NextPdb
  <2>2. Insert(sym, 1)
    BY DEF FillPdb
  <2>3. <<1, i>> \notin Ids(unsorted) /\ Once(unsorted)
    BY <1>0, <2>1 DEF Holds
  <2>4. /\ Ids(unsorted') = Ids(unsorted) \union (IF Accepted(sym) THEN {<<1, i>>} ELSE {})
        /\ Once(unsorted')
    BY <1>0, <1>1, <2>2, <2>3, InsertIds
  <2>. QED
    BY <1>0, <2>1, <2>4, Zenon DEF Holds
<1>5. CASE n <= Len(pdb)
  <2>1. i' = n /\ pc' = "pdb" /\ n \in 1..Len(pdb) /\ ~pdb[n].public
    BY <1>0, <1>2, <1>3, <1>5 DEF Advance, NextPdb
  <2>. QED
    BY <1>0, <1>4, <2>1, SameInputs DEF FillInv
<1>6. CASE ~(n <= Len(pdb))
  <2>1. i' = 1 /\ pc' = "sort" /\ n - 1 = Len(pdb)
    BY <1>0, <1>2, <1>3, <1>6 DEF Advance
  <2>. QED
    BY <1>0, <1>4, <2>1, SameInputs DEF FillInv
<1>. QED
  BY <1>5, <1>6

LEMMA FillStep ==
  ASSUME Inv, [Next]_vars
  PROVE  FillInv'
<1>0. TypeOK /\ FillInv
  BY DEF Inv
<1>1. UNCHANGED <<elf, pdb>>
  BY InputsStay
<1>2. CASE Load \/ OpenDatabase \/ Begin \/ Schema
  BY <1>0, <1>1, <1>2 DEF Load, OpenDatabase, Begin, Schema, FillInv
<1>3. CASE PrepareInserts
  <2>1. Holds(<<>>, 0, 0) /\ 1 \in 1..Len(elf)
    BY <1>0, NothingRead, EmptySeq DEF Holds, TypeOK, FillInv
  <2>2. /\ pc' = "elf" /\ i' = 1 /\ i' - 1 = 0
        /\ unsorted' = <<>> /\ vtables' = {} /\ typeinfos' = {}
    BY <1>0, <1>3 DEF PrepareInserts, FillInv
  <2>. QED
    BY <1>0, <1>1, <2>1, <2>2, NothingRead, SameInputs DEF FillInv
<1>4. CASE FillElf
  BY <1>4, FillElfStep
<1>5. CASE FillVtables
  BY <1>0, <1>1, <1>5, SameInputs DEF FillVtables, FillInv
<1>6. CASE FillTypeinfos
  <2>1. i = 1 /\ i - 1 = 0 /\ Len(pdb) \in Nat /\ (pdb = <<>> \/ 1 \in 1..Len(pdb))
    BY <1>0, <1>6, EmptySeq, LenProperties DEF FillTypeinfos, FillInv, TypeOK
  <2>2. /\ pc = "typeinfos" /\ pc' = "pdb" /\ i' - 1 = 0
        /\ UNCHANGED <<unsorted, vtables, typeinfos, i>>
    BY <1>6, <2>1 DEF FillTypeinfos
  <2>. QED
    BY <1>0, <1>1, <2>1, <2>2, SameInputs DEF FillInv
<1>7. CASE FillPdb
  BY <1>7, FillPdbStep
<1>8. CASE Sort \/ RebuildIndex \/ Commit \/ Vacuum
  BY <1>0, <1>1, <1>8 DEF Sort, RebuildIndex, Commit, Vacuum, FillInv
<1>9. CASE NoPdbSymbol \/ Close \/ Fail
  <2>1. pc' = "ended"
    BY <1>9 DEF NoPdbSymbol, Close, Fail, End
  <2>. QED
    BY <1>0, <1>1, <2>1 DEF FillInv
<1>10. CASE StartBuild
  BY <1>0, <1>1, <1>10 DEF StartBuild, FillInv
<1>11. CASE Closing
  <2>1. pc' = "ended" \/ UNCHANGED pc
    BY <1>11 DEF Closing, End
  <2>2. UNCHANGED <<unsorted, vtables, typeinfos, i>>
    BY <1>11 DEF Closing
  <2>. QED
    BY <1>0, <1>1, <2>1, <2>2, SameInputs DEF FillInv
<1>12. CASE Terminated \/ UNCHANGED vars
  <2>1. UNCHANGED <<unsorted, vtables, typeinfos, i, pc>>
    BY <1>12 DEF Terminated, vars, builderVars
  <2>. QED
    BY <1>0, <1>1, <2>1, SameInputs DEF FillInv
<1>. QED
  BY <1>2, <1>3, <1>4, <1>5, <1>6, <1>7, <1>8, <1>9, <1>10, <1>11, <1>12
     DEF Next, Build, Progress, Halted

-----------------------------------------------------------------------------
(* What is stored                                                            *)

\* A finished database is one without its index and the index of its rows.
LEMMA CompleteIsIndexed ==
  \A c : Complete(c) <=> Stored(c) /\ c.indexed = c.symbols
BY Zenon DEF Complete, Stored, Ids, Id

\* The inputs stay, and with them what a finished database is.
LEMMA SameExpected ==
  ASSUME UNCHANGED <<elf, pdb>>
  PROVE  /\ \A kind : ExpectedOffsets(kind)' = ExpectedOffsets(kind)
         /\ \A c : Stored(c)' <=> Stored(c)
         /\ \A c : Complete(c)' <=> Complete(c)
<1>1. ExpectedRows' = ExpectedRows
  BY DEF ExpectedRows, Accepted
<1>2. \A kind : ExpectedOffsets(kind)' = ExpectedOffsets(kind)
  BY DEF ExpectedOffsets, Accepted
<1>. QED
  BY <1>1, <1>2, Zenon DEF Stored, Complete

\* The sorted rows are those of a finished database.
LEMMA SortStores ==
  ASSUME Inv, pc = "sort", NEW rows \in ByKey(unsorted)
  PROVE  Stored([work EXCEPT !.symbols = rows])
<1> DEFINE c == [work EXCEPT !.symbols = rows]
<1>1. TypeOK /\ unsorted \in Seq(Row) /\ Holds(unsorted, Len(elf), Len(pdb))
  BY DEF Inv, TypeOK, FillInv
<1>2. Ids(unsorted) = ExpectedRows /\ Once(unsorted)
  BY <1>1, AllRead DEF Holds
<1>3. /\ Ids(rows) = ExpectedRows
      /\ Len(rows) = Cardinality(ExpectedRows)
      /\ \A n \in 2..Len(rows) : rows[n-1].key <= rows[n].key
  BY <1>1, <1>2, SortKeeps, CountRows
<1>4. /\ work.tag = "new"
      /\ work.vtables = ExpectedOffsets("vtable")
      /\ work.typeinfos = ExpectedOffsets("typeinfo")
  BY DEF Inv, WorkInv
<1>5. /\ c.tag = work.tag /\ c.vtables = work.vtables /\ c.typeinfos = work.typeinfos
      /\ c.symbols = rows
  BY <1>1 DEF TypeOK, Contents
<1> HIDE DEF c
<1>6. Stored(c)
  BY <1>3, <1>4, <1>5 DEF Stored
<1>. QED
  BY <1>6 DEF c

LEMMA WorkStep ==
  ASSUME Inv, [Next]_vars
  PROVE  WorkInv'
<1>0. TypeOK /\ WorkInv /\ work \in Contents
  BY DEF Inv, TypeOK
<1>1. UNCHANGED <<elf, pdb>>
  BY InputsStay
<1> USE DEF InTransaction
<1>2. CASE Load \/ OpenDatabase \/ Begin
  BY <1>0, <1>1, <1>2 DEF Load, OpenDatabase, Begin, WorkInv
<1>3. CASE Schema
  BY <1>0, <1>1, <1>3 DEF Schema, Write, WorkInv, New, Blank
<1>4. CASE PrepareInserts \/ FillElf
  <2>1. UNCHANGED <<work, inTx>> /\ pc \in {"prepare", "elf"} /\ pc' \in {"elf", "vtables"}
    BY <1>4 DEF PrepareInserts, FillElf, Advance
  <2>. QED
    BY <1>0, <1>1, <2>1 DEF WorkInv
<1>5. CASE FillVtables
  <2>1. vtables = ExpectedOffsets("vtable") /\ inTx /\ work.tag = "new"
    BY <1>5, AllRead DEF Inv, FillInv, WorkInv, FillVtables
  <2>2. /\ pc = "vtables" /\ pc' = "typeinfos" /\ inTx' = inTx
        /\ work' = [work EXCEPT !.vtables = vtables]
    BY <1>5, <2>1 DEF FillVtables, Write, Seen
  <2>3. work'.tag = "new" /\ work'.vtables = ExpectedOffsets("vtable")
    BY <1>0, <2>1, <2>2 DEF Contents
  <2>. QED
    BY <1>1, <2>1, <2>2, <2>3, SameExpected DEF WorkInv
<1>6. CASE FillTypeinfos
  <2>1. /\ typeinfos = ExpectedOffsets("typeinfo") /\ inTx
        /\ work.tag = "new" /\ work.vtables = ExpectedOffsets("vtable")
    BY <1>6, AllRead DEF Inv, FillInv, WorkInv, FillTypeinfos
  <2>2. /\ pc = "typeinfos" /\ pc' = "pdb" /\ inTx' = inTx
        /\ work' = [work EXCEPT !.typeinfos = typeinfos]
    BY <1>6, <2>1 DEF FillTypeinfos, Write, Seen
  <2>3. /\ work'.tag = "new" /\ work'.vtables = ExpectedOffsets("vtable")
        /\ work'.typeinfos = ExpectedOffsets("typeinfo")
    BY <1>0, <2>1, <2>2 DEF Contents
  <2>. QED
    BY <1>1, <2>1, <2>2, <2>3, SameExpected DEF WorkInv
<1>7. CASE FillPdb
  <2>1. UNCHANGED <<work, inTx>> /\ pc = "pdb" /\ pc' \in {"pdb", "sort"}
    BY <1>7 DEF FillPdb, Advance
  <2>. QED
    BY <1>0, <1>1, <2>1, SameExpected DEF WorkInv
<1>8. CASE Sort
  <2>1. PICK rows \in ByKey(unsorted) : Write([Seen EXCEPT !.symbols = rows])
    BY <1>8 DEF Sort
  <2>2. pc = "sort" /\ pc' = "index" /\ inTx /\ inTx' = inTx
    BY <1>0, <1>8 DEF Sort, WorkInv
  <2>3. work' = [work EXCEPT !.symbols = rows]
    BY <2>1, <2>2 DEF Write, Seen
  <2>4. Stored(work')
    BY <2>2, <2>3, SortStores
  <2>. QED
    BY <1>1, <2>2, <2>4, SameExpected DEF WorkInv, Stored
<1>9. CASE RebuildIndex
  <2>1. pc = "index" /\ pc' = "commit" /\ inTx /\ inTx' = inTx /\ Stored(work)
    BY <1>0, <1>9 DEF RebuildIndex, WorkInv
  <2>2. work' = [work EXCEPT !.indexed = work.symbols]
    BY <1>9, <2>1 DEF RebuildIndex, Write, Seen
  <2>3. /\ work'.tag = work.tag /\ work'.symbols = work.symbols /\ work'.indexed = work.symbols
        /\ work'.vtables = work.vtables /\ work'.typeinfos = work.typeinfos
    BY <1>0, <2>2 DEF Contents
  <2>4. Stored(work')
    BY <2>1, <2>3 DEF Stored
  <2>5. Complete(work')
    BY <2>3, <2>4, CompleteIsIndexed
  <2>. QED
    BY <1>1, <2>1, <2>4, <2>5, SameExpected DEF WorkInv, Stored
<1>10. CASE Commit \/ Vacuum
  BY <1>0, <1>1, <1>10 DEF Commit, Vacuum, WorkInv
<1>11. CASE NoPdbSymbol \/ Close \/ Fail
  <2>1. pc' = "ended" /\ inTx' = FALSE
    BY <1>11 DEF NoPdbSymbol, Close, Fail, End
  <2>. QED
    BY <2>1 DEF WorkInv
<1>12. CASE StartBuild
  BY <1>12 DEF StartBuild, WorkInv
<1>13. CASE Closing
  <2>1. UNCHANGED work /\ (UNCHANGED <<pc, inTx>> \/ (pc' = "ended" /\ inTx' = FALSE))
    BY <1>13 DEF Closing, End
  <2>. QED
    BY <1>0, <1>1, <2>1, SameExpected DEF WorkInv
<1>14. CASE Terminated \/ UNCHANGED vars
  <2>1. UNCHANGED <<work, inTx, pc>>
    BY <1>14 DEF Terminated, vars, builderVars
  <2>. QED
    BY <1>0, <1>1, <2>1, SameExpected DEF WorkInv
<1>. QED
  BY <1>2, <1>3, <1>4, <1>5, <1>6, <1>7, <1>8, <1>9, <1>10, <1>11, <1>12, <1>13, <1>14
     DEF Next, Build, Progress, Halted

-----------------------------------------------------------------------------
(* What is in the file, and what the wizard is told                          *)

LEMMA FileStep ==
  ASSUME Inv, [Next]_vars
  PROVE  FileInv'
<1>0. TypeOK /\ FileInv /\ WorkInv
  BY DEF Inv
<1>1. UNCHANGED <<elf, pdb>>
  BY InputsStay
<1>2. UNCHANGED file => (NeverPartial' <=> NeverPartial) /\ (Complete(file)' <=> Complete(file))
  BY <1>1, SameExpected DEF NeverPartial
<1>3. pc # "ended" => outcome = "running" /\ ~processDone /\ notice # "ok"
  BY <1>0 DEF TypeOK, FileInv
<1> USE DEF Steps
<1>4. CASE OpenDatabase
  <2>1. file' = file \/ file'.tag # "new"
    BY <1>4 DEF OpenDatabase, Blank
  <2>2. pc # "ended" /\ pc' = "begin" /\ UNCHANGED <<outcome, processDone, notice>>
    BY <1>4 DEF OpenDatabase, wizardVars
  <2>. QED
    BY <1>0, <1>2, <1>3, <2>1, <2>2 DEF FileInv, NeverPartial
<1>5. CASE Load \/ Begin \/ PrepareInserts \/ FillElf \/ FillPdb
  <2>1. /\ pc # "ended" /\ pc' \notin {"vacuum", "close"}
        /\ UNCHANGED <<file, outcome, processDone, notice>>
    BY <1>5 DEF Load, Begin, PrepareInserts, FillElf, FillPdb, Advance, wizardVars
  <2>. QED
    BY <1>0, <1>2, <1>3, <2>1 DEF FileInv
<1>6. CASE Schema \/ FillVtables \/ FillTypeinfos \/ Sort \/ RebuildIndex
  <2>1. pc \in InTransaction
    BY <1>6 DEF Schema, FillVtables, FillTypeinfos, Sort, RebuildIndex, InTransaction
  <2>2. inTx
    BY <1>0, <2>1 DEF WorkInv
  <2>3. /\ pc # "ended" /\ pc' \notin {"vacuum", "close"}
        /\ UNCHANGED <<file, outcome, processDone, notice>>
    BY <1>6, <2>2 DEF Schema, FillVtables, FillTypeinfos, Sort, RebuildIndex, Write, wizardVars
  <2>. QED
    BY <1>0, <1>2, <1>3, <2>3 DEF FileInv
<1>7. CASE Commit
  <2>1. /\ pc = "commit" /\ pc' = "vacuum" /\ file' = work
        /\ UNCHANGED <<outcome, processDone, notice>>
    BY <1>7 DEF Commit, wizardVars
  <2>2. Complete(work)
    BY <1>0, <2>1 DEF WorkInv
  <2>3. Complete(file)'
    BY <1>1, <2>1, <2>2, SameExpected
  <2>. QED
    BY <1>3, <2>1, <2>3 DEF FileInv, NeverPartial
<1>8. CASE Vacuum
  <2>1. /\ pc = "vacuum" /\ pc' = "close"
        /\ UNCHANGED <<file, outcome, processDone, notice>>
    BY <1>8 DEF Vacuum, wizardVars
  <2>. QED
    BY <1>0, <1>2, <1>3, <2>1 DEF FileInv
<1>9. CASE Close
  <2>1. /\ pc = "close" /\ pc' = "ended" /\ outcome' = "ok"
        /\ UNCHANGED file
    BY <1>9 DEF Close, End
  <2>. QED
    BY <1>0, <1>2, <2>1 DEF FileInv
<1>10. CASE NoPdbSymbol \/ Fail
  <2>1. /\ pc # "ended" /\ pc' = "ended" /\ outcome' # "ok" /\ notice' # "ok"
        /\ UNCHANGED <<file, processDone>>
    BY <1>10 DEF NoPdbSymbol, Fail, FailureOf, End, wizardVars
  <2>. QED
    BY <1>0, <1>2, <1>3, <2>1 DEF FileInv
<1>11. CASE StartBuild
  <2>1. /\ pc' = "load" /\ outcome' = "running" /\ ~processDone' /\ notice' = "none"
        /\ UNCHANGED file
    BY <1>11 DEF StartBuild
  <2>. QED
    BY <1>0, <1>2, <2>1 DEF FileInv
<1>12. CASE Terminated
  <2>1. /\ processDone' => processDone \/ notice = "ok"
        /\ notice' = "none"
        /\ UNCHANGED <<file, outcome, pc>>
    BY <1>12 DEF Terminated, builderVars
  <2>. QED
    BY <1>0, <1>2, <2>1 DEF FileInv
<1>13. CASE Closing
  <2>1. CASE outcome = "running" /\ pc' = "ended"
    <3>1. outcome' = "killed" /\ notice' = "killed" /\ UNCHANGED <<file, processDone>>
      BY <1>0, <1>13, <2>1 DEF Closing, End, TypeOK
    <3>. QED
      BY <1>0, <1>2, <2>1, <3>1 DEF FileInv
  <2>2. CASE UNCHANGED <<outcome, pc, notice>>
    <3>1. UNCHANGED <<file, processDone>>
      BY <1>13 DEF Closing
    <3>. QED
      BY <1>0, <1>2, <2>2, <3>1 DEF FileInv
  <2>. QED
    BY <1>13, <2>1, <2>2 DEF Closing, End
<1>14. CASE UNCHANGED vars
  <2>1. UNCHANGED <<file, outcome, pc, processDone, notice>>
    BY <1>14 DEF vars, builderVars, wizardVars
  <2>. QED
    BY <1>0, <1>2, <2>1 DEF FileInv
<1>. QED
  BY <1>4, <1>5, <1>6, <1>7, <1>8, <1>9, <1>10, <1>11, <1>12, <1>13, <1>14
     DEF Next, Build, Progress, Halted

-----------------------------------------------------------------------------
(* Keys                                                                      *)

\* The inputs stay, and with them the names of the symbols.
LEMMA SameKeys ==
  ASSUME UNCHANGED <<elf, pdb>>
  PROVE  \A rows : Faithful(rows)' <=> Faithful(rows)
BY DEF Faithful

\* In a database that is not UTF-8 a symbol gets the key it has.
LEMMA InsertFaithful ==
  ASSUME TypeOK, ~utf8, Faithful(unsorted), NEW original \in {1, 2},
         NEW sym, sym = (IF original = 2 THEN elf ELSE pdb)[i], sym.key \in Nat,
         Insert(sym, original)
  PROVE  Faithful(unsorted')
<1>1. CASE ~Accepted(sym)
  BY <1>1 DEF Insert
<1>2. CASE Accepted(sym)
  <2> DEFINE row == [original |-> original, n |-> i, key |-> sym.key]
  <2>1. unsorted' = Append(unsorted, row)
    BY <1>2 DEF Insert, StoredKeys
  <2>2. row \in Row /\ unsorted \in Seq(Row)
    BY DEF Row, TypeOK
  <2>3. row.key = (IF row.original = 2 THEN elf ELSE pdb)[row.n].key
    OBVIOUS
  <2> HIDE DEF row
  <2>4. /\ DOMAIN unsorted = 1..Len(unsorted) /\ DOMAIN unsorted' = 1..Len(unsorted) + 1
        /\ 1..Len(unsorted) + 1 = 1..Len(unsorted) \union {Len(unsorted) + 1}
        /\ \A n \in 1..Len(unsorted) : unsorted'[n] = unsorted[n]
        /\ unsorted'[Len(unsorted) + 1] = row
    <3>1. /\ unsorted' \in Seq(Row) /\ Len(unsorted') = Len(unsorted) + 1
          /\ \A n \in 1..Len(unsorted) : unsorted'[n] = unsorted[n]
          /\ unsorted'[Len(unsorted) + 1] = row
      BY <2>1, <2>2, AppendProperties
    <3>2. Len(unsorted) \in Nat /\ DOMAIN unsorted = 1..Len(unsorted)
      BY <2>2, LenProperties
    <3>. QED
      BY <3>1, <3>2, LenProperties
  <2>. QED
    BY <2>3, <2>4 DEF Faithful
<1>. QED
  BY <1>1, <1>2

LEMMA KeysStep ==
  ASSUME Inv, [Next]_vars
  PROVE  KeysInv'
<1>1. UNCHANGED <<elf, pdb, reused>>
  BY InputsStay
<1> SUFFICES ASSUME ~reused
             PROVE  /\ ~utf8'
                    /\ Faithful(unsorted') /\ Faithful(work'.symbols) /\ Faithful(file'.symbols)
  BY <1>1, SameKeys DEF KeysInv
<1>0. /\ TypeOK /\ FillInv /\ work \in Contents /\ file \in Contents /\ unsorted \in Seq(Row)
      /\ ~utf8 /\ Faithful(unsorted) /\ Faithful(work.symbols) /\ Faithful(file.symbols)
  BY DEF Inv, TypeOK, KeysInv
<1>2. Faithful(<<>>) /\ New.symbols = <<>> /\ Blank.symbols = <<>>
  BY NothingRead DEF New, Blank
<1>3. CASE OpenDatabase
  BY <1>0, <1>2, <1>3 DEF OpenDatabase
<1>4. CASE Begin \/ Commit
  BY <1>0, <1>4 DEF Begin, Commit, inputs
<1>5. CASE Schema
  BY <1>0, <1>2, <1>5 DEF Schema, Write, inputs
<1>6. CASE FillElf
  <2>1. elf[i].key \in Nat
    <3>1. elf[i] \in ElfSymbol
      BY <1>0, <1>6, ElementOfSeq DEF FillElf, FillInv, TypeOK
    <3>. QED
      BY <3>1 DEF ElfSymbol
  <2>2. Insert(elf[i], 2) /\ UNCHANGED <<file, utf8, work>>
    BY <1>6 DEF FillElf
  <2>. QED
    BY <1>0, <2>1, <2>2, InsertFaithful
<1>7. CASE FillPdb
  <2>1. pdb[i].key \in Nat
    <3>1. pdb[i] \in PdbSymbol
      BY <1>0, <1>7, ElementOfSeq DEF FillPdb, FillInv, TypeOK
    <3>. QED
      BY <3>1 DEF PdbSymbol
  <2>2. Insert(pdb[i], 1) /\ UNCHANGED <<file, utf8, work>>
    BY <1>7 DEF FillPdb
  <2>. QED
    BY <1>0, <2>1, <2>2, InsertFaithful
<1>8. CASE FillVtables \/ FillTypeinfos \/ RebuildIndex
  <2>1. \A c \in Contents : /\ [c EXCEPT !.vtables = vtables].symbols = c.symbols
                            /\ [c EXCEPT !.typeinfos = typeinfos].symbols = c.symbols
                            /\ [c EXCEPT !.indexed = c.symbols].symbols = c.symbols
    BY DEF Contents
  <2>2. Seen \in Contents /\ Faithful(Seen.symbols)
    BY <1>0 DEF Seen
  <2>3. UNCHANGED <<utf8, unsorted>>
    BY <1>8 DEF FillVtables, FillTypeinfos, RebuildIndex
  <2>4. PICK c : Write(c) /\ c.symbols = Seen.symbols
    BY <1>8, <2>1, <2>2 DEF FillVtables, FillTypeinfos, RebuildIndex
  <2>. QED
    BY <1>0, <2>2, <2>3, <2>4 DEF Write
<1>9. CASE Sort
  <2>1. PICK rows \in ByKey(unsorted) : Write([Seen EXCEPT !.symbols = rows])
    BY <1>9 DEF Sort
  <2>2. Faithful(rows)
    BY <1>0, <2>1, SortKeeps
  <2>3. [Seen EXCEPT !.symbols = rows].symbols = rows
    BY <1>0 DEF Seen, Contents
  <2>4. unsorted' = <<>> /\ UNCHANGED utf8
    BY <1>9 DEF Sort
  <2>. QED
    BY <1>0, <1>2, <2>1, <2>2, <2>3, <2>4 DEF Write
<1>10. CASE StartBuild
  BY <1>0, <1>2, <1>10 DEF StartBuild
<1>11. CASE \/ Load \/ PrepareInserts \/ Vacuum \/ NoPdbSymbol \/ Close \/ Fail
            \/ Terminated \/ Closing \/ UNCHANGED vars
  BY <1>0, <1>11 DEF Load, PrepareInserts, Vacuum, NoPdbSymbol, Close, Fail, Terminated, Closing,
                     vars, builderVars
<1>. QED
  BY <1>3, <1>4, <1>5, <1>6, <1>7, <1>8, <1>9, <1>10, <1>11
     DEF Next, Build, Progress, Halted

\* The invariant holds in every state of every behaviour.
LEMMA Invariance == Spec => []Inv
<1>1. Inv /\ [Next]_vars => Inv'
  BY TypeStep, FillStep, WorkStep, FileStep, KeysStep DEF Inv
<1>. QED
  BY <1>1, InitInv, PTL DEF Spec

-----------------------------------------------------------------------------
(* The promise of ProjectFile                                                *)

\* A build that runs has its window, which knows its process and has not heard of its
\* end: closing the window kills it.
WindowInv == outcome = "running" => window = "open" /\ proc /\ notice = "none"

\* What a failed step does to the process.
LEMMA FailsAs ==
  ASSUME TypeOK, Fail
  PROVE  /\ outcome' \in {"error", "aborted"} /\ pc' = "ended" /\ pc # "ended"
         /\ UNCHANGED <<file, processDone>>
BY DEF Fail, FailureOf, End, TypeOK, wizardVars

LEMMA WindowStep ==
  ASSUME TypeOK, WindowInv, [Next]_vars
  PROVE  WindowInv'
<1> USE DEF WindowInv, wizardVars
<1>1. CASE Load \/ OpenDatabase \/ Begin \/ Schema \/ PrepareInserts \/ FillElf \/ FillVtables
            \/ FillTypeinfos \/ FillPdb \/ Sort \/ RebuildIndex \/ Commit \/ Vacuum
  BY <1>1 DEF Load, OpenDatabase, Begin, Schema, PrepareInserts, FillElf, FillVtables,
              FillTypeinfos, FillPdb, Sort, RebuildIndex, Commit, Vacuum
<1>2. CASE NoPdbSymbol \/ Close \/ Fail
  <2>1. CASE NoPdbSymbol \/ Close
    BY <2>1 DEF NoPdbSymbol, Close, End
  <2>2. CASE Fail
    BY <2>2, FailsAs DEF Fail
  <2>. QED
    BY <1>2, <2>1, <2>2
<1>3. CASE StartBuild
  BY <1>3 DEF StartBuild
<1>4. CASE Closing
  BY <1>4 DEF Closing, End
<1>5. CASE Terminated
  BY <1>5 DEF Terminated, builderVars
<1>6. CASE UNCHANGED vars
  BY <1>6 DEF vars, builderVars
<1>. QED
  BY <1>1, <1>2, <1>3, <1>4, <1>5, <1>6 DEF Next, Build, Progress, Halted

\* Without a change of the file it is the same to whoever opens it.
LEMMA SameHeld ==
  ASSUME UNCHANGED <<elf, pdb, file>>
  PROVE  UNCHANGED Held
<1>1. Complete(file)' <=> Complete(file)
  BY SameExpected
<1>. QED
  BY <1>1 DEF Held

\* The stage of a build from its outcome.
LEMMA Stages ==
  ASSUME TypeOK
  PROVE  /\ outcome = "running" /\ pc \notin {"vacuum", "close"} => Stage = "running"
         /\ pc \in {"vacuum", "close"} => Stage = "stored"
         /\ outcome = "none" => Stage = "none"
         /\ outcome = "ok" => Stage = "ok"
         /\ outcome \in {"error", "aborted", "killed"} => Stage = "failed"
<1>1. outcome # "running" => pc = "ended"
  BY DEF TypeOK
<1>. QED
  BY <1>1 DEF Stage

LEMMA StepKeepsPromise ==
  ASSUME Inv, Inv', WindowInv, [Next]_vars
  PROVE  Promise!Next \/ UNCHANGED Promise!vars
<1>0. TypeOK /\ TypeOK' /\ WorkInv /\ FileInv /\ FileInv' /\ file \in Contents
  BY DEF Inv, TypeOK
<1>1. UNCHANGED <<elf, pdb>>
  BY InputsStay
<1>2. UNCHANGED file => UNCHANGED Held
  BY <1>1, SameHeld
<1>3. /\ outcome = "running" /\ pc \notin {"vacuum", "close"} => Stage = "running"
      /\ pc \in {"vacuum", "close"} => Stage = "stored"
      /\ outcome = "none" => Stage = "none"
      /\ outcome = "ok" => Stage = "ok"
      /\ outcome \in {"error", "aborted", "killed"} => Stage = "failed"
  BY <1>0, Stages
<1>4. /\ (outcome = "running" /\ pc \notin {"vacuum", "close"})' => Stage' = "running"
      /\ (pc \in {"vacuum", "close"})' => Stage' = "stored"
      /\ outcome' = "none" => Stage' = "none"
      /\ outcome' = "ok" => Stage' = "ok"
      /\ outcome' \in {"error", "aborted", "killed"} => Stage' = "failed"
  BY <1>0 DEF Stage, TypeOK
<1>5. pc # "ended" <=> outcome = "running"
  BY <1>0 DEF TypeOK
<1> USE DEF Promise!vars, wizardVars, InTransaction
<1>6. CASE \/ Load \/ Begin \/ Schema \/ PrepareInserts \/ FillElf \/ FillVtables
           \/ FillTypeinfos \/ FillPdb \/ Sort \/ RebuildIndex
  <2>1. UNCHANGED <<file, outcome, processDone>>
    BY <1>0, <1>6 DEF Load, Begin, Schema, PrepareInserts, FillElf, FillVtables,
        FillTypeinfos, FillPdb, Sort, RebuildIndex, Write, WorkInv
  <2>2. pc \notin {"ended", "vacuum", "close"} /\ pc' \notin {"ended", "vacuum", "close"}
    BY <1>6 DEF Load, Begin, Schema, PrepareInserts, FillElf, FillVtables,
        FillTypeinfos, FillPdb, Sort, RebuildIndex, Advance
  <2>. QED
    BY <1>2, <1>3, <1>4, <1>5, <2>1, <2>2
<1>7. CASE OpenDatabase
  <2>1. pc = "database" /\ pc' = "begin" /\ UNCHANGED <<outcome, processDone>>
    BY <1>7 DEF OpenDatabase
  <2>2. Stage = "running" /\ Stage' = "running"
    BY <1>3, <1>4, <1>5, <2>1
  <2>3. CASE file.tag = "absent"
    <3>1. Held = "none"
      BY <2>3 DEF Held
    <3>2. Held' = "empty"
      <4>1. file'.tag = "blank"
        BY <1>7, <2>3 DEF OpenDatabase, Blank
      <4>. QED
        BY <4>1 DEF Held
    <3>3. Promise!Create
      BY <2>1, <2>2, <3>1, <3>2 DEF Promise!Create
    <3>. QED
      BY <3>3 DEF Promise!Next
  <2>4. CASE file.tag # "absent"
    BY <1>2, <1>7, <2>1, <2>2, <2>4 DEF OpenDatabase
  <2>. QED
    BY <2>3, <2>4
<1>8. CASE Commit
  <2>1. pc = "commit" /\ pc' = "vacuum" /\ UNCHANGED <<outcome, processDone>>
    BY <1>8 DEF Commit
  <2>2. Stage = "running" /\ Stage' = "stored"
    BY <1>3, <1>4, <1>5, <2>1
  <2>3. Held' = "finished"
    <3>1. Complete(file)'
      BY <1>0, <2>1 DEF FileInv
    <3>2. file'.tag = "new"
      BY <3>1 DEF Complete
    <3>. QED
      BY <3>1, <3>2 DEF Held
  <2>4. Promise!Store
    BY <2>1, <2>2, <2>3 DEF Promise!Store
  <2>. QED
    BY <2>4 DEF Promise!Next
<1>9. CASE Vacuum
  <2>1. /\ pc = "vacuum" /\ pc' = "close" /\ UNCHANGED <<file, processDone>>
    BY <1>9 DEF Vacuum
  <2>. QED
    BY <1>2, <1>3, <1>4, <2>1
<1>10. CASE Close
  <2>1. pc = "close" /\ outcome' = "ok" /\ UNCHANGED <<file, processDone>>
    BY <1>10 DEF Close, End
  <2>2. Promise!Succeed
    BY <1>2, <1>3, <1>4, <2>1 DEF Promise!Succeed
  <2>. QED
    BY <2>2 DEF Promise!Next
<1>11. CASE NoPdbSymbol \/ Fail \/ (Closing /\ proc /\ outcome = "running")
  <2>1. /\ outcome = "running" /\ outcome' \in {"error", "aborted", "killed"}
        /\ UNCHANGED <<file, processDone>>
    BY <1>0, <1>5, <1>11, FailsAs DEF NoPdbSymbol, Closing, End
  <2>2. Stage \in {"running", "stored"} /\ Stage' = "failed"
    BY <1>3, <1>4, <2>1
  <2>3. Promise!Break
    BY <1>2, <2>1, <2>2 DEF Promise!Break, Promise!Underway
  <2>. QED
    BY <2>3 DEF Promise!Next
<1>12. CASE StartBuild
  <2>1. /\ outcome # "running" /\ pc' = "load" /\ outcome' = "running" /\ processDone' = FALSE
        /\ UNCHANGED file
    BY <1>12 DEF StartBuild, WindowInv
  <2>2. Stage \notin {"running", "stored"} /\ Stage' = "running"
    BY <1>0, <1>3, <1>4, <1>5, <2>1 DEF TypeOK
  <2>3. Promise!Start
    BY <1>2, <2>1, <2>2 DEF Promise!Start, Promise!Underway
  <2>. QED
    BY <2>3 DEF Promise!Next
<1>13. CASE Terminated
  <2>1. UNCHANGED <<file, outcome, pc>> /\ (processDone' = (processDone \/ notice = "ok"))
    BY <1>13 DEF Terminated, builderVars
  <2>2. UNCHANGED Stage
    BY <2>1 DEF Stage
  <2>3. CASE processDone' = processDone
    BY <1>2, <2>1, <2>2, <2>3
  <2>4. CASE processDone' # processDone
    <3>1. processDone' = TRUE /\ notice = "ok"
      BY <1>0, <2>1, <2>4 DEF TypeOK
    <3>2. Stage = "ok"
      BY <1>0, <1>3, <3>1 DEF FileInv
    <3>3. Promise!Offer
      BY <1>2, <2>1, <2>2, <3>1, <3>2 DEF Promise!Offer
    <3>. QED
      BY <3>3 DEF Promise!Next
  <2>. QED
    BY <2>3, <2>4
<1>14. CASE (Closing /\ ~(proc /\ outcome = "running")) \/ UNCHANGED vars
  <2>1. UNCHANGED <<file, outcome, pc, processDone>>
    BY <1>14 DEF Closing, vars, builderVars
  <2>2. UNCHANGED Stage
    BY <2>1 DEF Stage
  <2>. QED
    BY <1>2, <2>1, <2>2
<1>. QED
  BY <1>6, <1>7, <1>8, <1>9, <1>10, <1>11, <1>12, <1>13, <1>14
     DEF Next, Build, Progress, Halted

-----------------------------------------------------------------------------
(* The guarantees                                                            *)

\* Every variable keeps its type.
THEOREM BuilderTypes == Spec => []TypeOK
<1>1. Inv => TypeOK
  BY DEF Inv
<1>. QED
  BY <1>1, Invariance, PTL

\* The builder's types, what it has filled in at each step, what its transaction
\* holds, and what the file and the wizard may show.
THEOREM BuildInvariant == Spec => [](FillInv /\ WorkInv /\ FileInv /\ KeysInv)
<1>1. Inv => FillInv /\ WorkInv /\ FileInv /\ KeysInv
  BY DEF Inv
<1>. QED
  BY <1>1, Invariance, PTL

\* The file never holds a part of a build, wherever builds fail or are killed and
\* however often they are repeated (main.cpp:425 to 411).
THEOREM FileIsNeverPartial == Spec => []NeverPartial
<1>1. Inv => NeverPartial
  BY DEF Inv, FileInv
<1>. QED
  BY <1>1, Invariance, PTL

\* "Done", and exit code 0, mean a finished database (process.html:31,
\* main.cpp:405-414).
THEOREM DoneMeansComplete == Spec => []DoneIsComplete
<1>1. Inv => DoneIsComplete
  BY DEF Inv, FileInv, DoneIsComplete
<1>. QED
  BY <1>1, Invariance, PTL

\* Every stored key is the name of its symbol, unless the first build overwrote a
\* UTF-8 database (main.cpp:420, 571).
THEOREM KeysAreNames == Spec => []KeysFaithful
<1>1. Inv => KeysFaithful
  BY DEF Inv, KeysInv, Faithful, KeysFaithful
<1>. QED
  BY <1>1, Invariance, PTL

\* Pipeline, process and wizard implement the promise of ProjectFile: the file changes
\* to a finished database in the one step of COMMIT or not at all, a finished one is
\* never lost, builds come one at a time, and Done is offered after success
\* (main.cpp:410-411, wizard.html:47-59).
THEOREM BuilderKeepsPromise == Spec => ImplementsProjectFile
<1>1. Init => Promise!Init
  <2> SUFFICES ASSUME Init PROVE Promise!Init
    OBVIOUS
  <2>1. Held \in {"none", "other"}
    BY DEF Init, Held, Absent, Old, Blank
  <2>2. Stage = "none" /\ processDone = FALSE
    BY DEF Init, Stage
  <2>. QED
    BY <2>1, <2>2 DEF Promise!Init
<1>2. Init => WindowInv
  BY DEF Init, WindowInv
<1>3. Inv /\ WindowInv /\ [Next]_vars => WindowInv'
  BY WindowStep DEF Inv
<1>4. Inv /\ Inv' /\ WindowInv /\ [Next]_vars => [Promise!Next]_(Promise!vars)
  BY StepKeepsPromise
<1>. QED
  BY <1>1, <1>2, <1>3, <1>4, Invariance, PTL DEF Spec, ImplementsProjectFile, Promise!Spec
=============================================================================
