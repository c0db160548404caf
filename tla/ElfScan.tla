------------------------------ MODULE ElfScan ------------------------------
(***************************************************************************)
(* What the database builder reads from the ELF file (CLI/main.cpp,        *)
(* ELF/): it finds .data.rel.ro and the relocations against the classes of *)
(* the C++ runtime, and at each vtable and type_info symbol reads the      *)
(* words of the section until a word that ends the table.  This is the     *)
(* part that DatabaseBuilder!FillElf reduces to the offset of the symbol.  *)
(*                                                                         *)
(* The section comes with the objects that are laid out in it, so that     *)
(* what the scan recovers can be compared with what was there.  Addresses, *)
(* offsets and sizes are counted in words of 8 bytes.  A read outside of   *)
(* the section ends the process or yields garbage.                         *)
(***************************************************************************)
EXTENDS Integers, Sequences

CONSTANTS
  Sections,             \* contents of .data.rel.ro: [objects, at, words]
  Strays,               \* further symbols: sequences of [kind, class, addr]
  Skips,                \* sets of symbols (by number) whose name is not demangled, or
                        \*   begins as one of those isSkiped drops
  Dynsyms,              \* the symbol tables the runtime's classes are looked up in
  Base,                 \* the address of .data.rel.ro
  FileOffsets,          \* where the section may begin in the file
  Dword,                \* 2^32 in the code: offsets and sizes of a view
  Half,                 \* 2^32 in the code: the two halves of a word
  Garbage,              \* a word read from outside the section
  MaxGarbage            \* bound: as many of them are read before a zero

VARIABLES
  section, strays, skipped, dynsym, sh_offset,  \* the input, chosen once
  rodata,               \* the words seen through rodata->data
  index,                \* the symbol numbers found: class -> index, 0 if none
  relocmap,             \* address -> class of the type_info there
  pureset,              \* addresses of pure virtual slots
  pc, n,                \* the step, and the symbol it stands on
  vtables,              \* address -> the words of the span
  typeinfos,            \* address -> [type, flags, bases]
  tables                \* the rows written: vtables, typeinfo_roots, typeinfo_defs

input == <<section, strays, skipped, dynsym, sh_offset>>
vars == <<input, rodata, index, relocmap, pureset, pc, n, vtables, typeinfos, tables>>

Classes == {"ni", "si", "vmi", "pure"}
NoRows == [vtables |-> {}, roots |-> {}, defs |-> {}]

-----------------------------------------------------------------------------
(* The file: objects as words (Itanium C++ ABI, linked without addends for  *)
(* the symbols of the runtime).                                             *)

Pure == 0               \* a slot of __cxa_pure_virtual
Zero == -1              \* any other zero: a slot of an imported function, a number

Vtables == [kind : {"vtable"}, slots : Seq(Nat \union {Zero}), more : Seq(Int)]

Typeinfos == [kind : {"typeinfo"}, class : {"ni", "si", "vmi"}, flags : 0..Half - 1,
              bases : Seq([base : Int, offset : Int, flags : 0..255])]

\* What a class inherits goes with the class that describes it.
Consistent(info) ==
  CASE info.class = "ni" -> info.flags = 0 /\ info.bases = <<>>
    [] info.class = "si" -> /\ info.flags = 0
                            /\ Len(info.bases) = 1
                            /\ info.bases[1].offset = 0 /\ info.bases[1].flags = 0
    [] info.class = "vmi" -> TRUE

Data == [kind : {"data"}, words : Seq(Int)]

\* The entries of a table: those of a vtable are its slots and its further parts
\* (of other bases), those of data may be the slots of a construction vtable.
Entries(obj) ==
  CASE obj.kind = "vtable" -> obj.slots \o obj.more
    [] obj.kind = "data" -> obj.words
    [] obj.kind = "typeinfo" -> <<>>

\* The words before them.
Header(obj) == IF obj.kind = "vtable" THEN <<0, 7>> ELSE <<>>

Written(entry) == IF entry = Zero THEN 0 ELSE entry

\* A type_info is the vtable of its class, its name and what it inherits.
Words(obj) ==
  CASE obj.kind \in {"vtable", "data"} ->
         Header(obj) \o [s \in DOMAIN Entries(obj) |-> Written(Entries(obj)[s])]
    [] obj.kind = "typeinfo" ->
         <<0, 9>> \o
         CASE obj.class = "ni" -> <<>>
           [] obj.class = "si" -> <<obj.bases[1].base>>
           [] obj.class = "vmi" ->
                <<obj.flags + Half * Len(obj.bases)>> \o
                [w \in 1..2 * Len(obj.bases) |->
                   LET b == obj.bases[(w + 1) \div 2] IN
                     IF w % 2 = 1 THEN b.base ELSE b.offset * 256 + b.flags]

\* One object right behind the other, up to the end of the section.
LaidOut(sec) ==
  LET size(k) == Len(Words(sec.objects[k])) IN
    \A k \in DOMAIN sec.objects :
      /\ sec.at[k] \in Nat /\ sec.at[k] >= Base
      /\ sec.at[k] + size(k) =
           IF k < Len(sec.objects) THEN sec.at[k + 1] ELSE Base + Len(sec.words)
      /\ \A j \in 1..k - 1 : sec.at[j] + size(j) <= sec.at[k]
      /\ \A w \in 1..size(k) : sec.words[sec.at[k] - Base + w] = Words(sec.objects[k])[w]

ASSUME SizesAssumption == Base \in Nat /\ Dword \in Nat \ {0} /\ Half \in Nat \ {0}

ASSUME OffsetsAssumption == FileOffsets \subseteq Nat

ASSUME MaxGarbageAssumption == MaxGarbage \in Nat

\* The sections a linker makes of vtables, type_infos and other data.
ASSUME SectionsAssumption ==
  \A sec \in Sections :
    /\ sec.objects \in Seq(Vtables \union Typeinfos \union Data)
    /\ \A k \in DOMAIN sec.objects :
         sec.objects[k].kind = "typeinfo" => Consistent(sec.objects[k])
    /\ sec.words \in Seq(Int)
    /\ LaidOut(sec)

\* Symbols of other sections.
ASSUME StraysAssumption ==
  \A others \in Strays :
    /\ others \in Seq([kind : {"typeinfo"}, class : {"ni", "si", "vmi"}, addr : Nat] \union
                      [kind : {"vtable", "data"}, class : {"none"}, addr : Nat])
    /\ \A sec \in Sections, k \in DOMAIN others :
         others[k].addr \notin Base..Base + Len(sec.words) - 1

ASSUME DynsymsAssumption == \A dyn \in Dynsyms : dyn \in Seq([name : STRING, value : Nat])

Object(k) == section.objects[k]
Objects(kind) == {k \in DOMAIN section.objects : Object(k).kind = kind}
Addr(k) == section.at[k]
Section == section.words

\* Code, the section, and more code.
File == [w \in 1..sh_offset |-> 5] \o Section \o <<5, 5>>

\* The relocation of the word at a against a symbol of that name.
Against(name, a) ==
  {[type |-> 1, sym |-> s, off |-> a] : s \in {t \in DOMAIN dynsym : dynsym[t].name = name}}

\* That of an entry: against a symbol if it is pure or imported, of another type (8)
\* for a function of the file's own.
EntryRelocation(entry, a) ==
  CASE entry = Pure -> Against("pure", a)
    [] entry = Zero -> Against("other", a)
    [] OTHER -> {[type |-> 8, sym |-> 0, off |-> a]}

EntryAddr(k, s) == Addr(k) + Len(Header(Object(k))) + s - 1

\* .rela.dyn: the entries of tables, and the first word of each type_info.
Relocations ==
  (UNION {Against(Object(k).class, Addr(k)) : k \in Objects("typeinfo")}) \union
  (UNION {Against(strays[k].class, strays[k].addr) : k \in DOMAIN strays}) \union
  (UNION {UNION {EntryRelocation(Entries(Object(k))[s], EntryAddr(k, s)) : s \in DOMAIN Entries(Object(k))}
            : k \in DOMAIN section.objects})

\* .dynsym as far as it names objects.
Symbols ==
  [s \in 1..Len(section.objects) + Len(strays) |->
     IF s \in DOMAIN section.objects THEN [kind |-> Object(s).kind, addr |-> Addr(s)]
     ELSE LET stray == strays[s - Len(section.objects)] IN
            [kind |-> stray.kind, addr |-> stray.addr]]

Init ==
  /\ section \in Sections
  /\ strays \in Strays
  /\ skipped \in Skips
  /\ dynsym \in Dynsyms
  /\ sh_offset \in FileOffsets
  /\ rodata = <<>>
  /\ index = [c \in Classes |-> 0]
  /\ relocmap = << >>
  /\ pureset = {}
  /\ pc = "section"
  /\ n = 1
  /\ vtables = << >>
  /\ typeinfos = << >>
  /\ tables = NoRows

-----------------------------------------------------------------------------
(* Preparation.                                                             *)

\* MappingView: offset and size are cut to a DWORD.
View(offset, size) ==
  SubSeq(File, (offset % Dword) + 1, (offset % Dword) + (size % Dword))

GetSection ==
  /\ pc = "section"
  /\ rodata' = View(sh_offset, Len(Section))
  /\ pc' = "classes"
  /\ UNCHANGED <<input, index, relocmap, pureset, n, vtables, typeinfos, tables>>

\* The undefined symbols (value 0) of the runtime; the last of several counts.
Found(class) ==
  LET at == {s \in DOMAIN dynsym : dynsym[s].name = class /\ dynsym[s].value = 0}
  IN  IF at = {} THEN 0 ELSE CHOOSE s \in at : \A t \in at : t <= s

FindClasses ==
  /\ pc = "classes"
  /\ index' = [c \in Classes |-> Found(c)]
  /\ pc' = IF \E c \in Classes : Found(c) = 0 THEN "failed" ELSE "relocations"
  /\ UNCHANGED <<input, rodata, relocmap, pureset, n, vtables, typeinfos, tables>>

OfClass(r, class) == r.type = 1 /\ r.sym = index[class]

ReadRelocations ==
  /\ pc = "relocations"
  /\ LET at(class) == {r.off : r \in {q \in Relocations : OfClass(q, class)}} IN
       /\ relocmap' = [a \in at("ni") \union at("si") \union at("vmi") |->
                         CHOOSE c \in {"ni", "si", "vmi"} : a \in at(c)]
       /\ pureset' = at("pure")
  /\ pc' = "symbols"
  /\ UNCHANGED <<input, rodata, index, n, vtables, typeinfos, tables>>

-----------------------------------------------------------------------------
(* SectionData, and what elfsymbol does with it.                            *)

End == Base + Len(rodata)
Inside(a) == a >= Base /\ a < End
Word(a) == rodata[a - Base + 1]

\* The end not checked either.
BugMapped(a) == TRUE

\* GetMapped has no lower bound: only an address past the end gives a null.
Mapped(a) == a < End

\* A slot that is zero ends the scan.
BugStops(a) == ~Inside(a) \/ Word(a) = 0

\* The scan stops at a zero that is not a pure virtual slot, or where its words
\* end and it reads whatever follows.
Stops(a) == ~Inside(a) \/ (Word(a) = 0 /\ a \notin pureset)

FirstStop(a) == {e \in a..a + Len(rodata) : Stops(e) /\ \A b \in a..e - 1 : ~Stops(b)}

Symbol(kind) ==
  pc = "symbols" /\ n \in DOMAIN Symbols /\ n \notin skipped /\ Symbols[n].kind = kind

NextSymbol == n' = n + 1 /\ UNCHANGED <<input, rodata, index, relocmap, pureset, tables>>

\* What may be read behind the section before a zero ends it.
Tails == {[w \in 1..len |-> Garbage] : len \in 0..MaxGarbage}

Crash ==
  /\ pc' = "crashed"
  /\ UNCHANGED <<vtables, typeinfos>>

ScanVtable ==
  LET a == Symbols[n].addr
      Span(stop) == [w \in 1..stop - a - 2 |-> Word(a + 1 + w)]
      Keep(words) == vtables' = [b \in DOMAIN vtables \union {a} |->
                                   IF b = a THEN words ELSE vtables[b]]
  IN  /\ Symbol("vtable")
      /\ \/ ~Mapped(a) /\ UNCHANGED <<vtables, typeinfos, pc>>
         \/ /\ Mapped(a)
            /\ \E stop \in FirstStop(a + 2), tail \in Tails :
                 \/ /\ Inside(stop) => tail = <<>>
                    /\ Keep(Span(stop) \o tail)
                    /\ UNCHANGED <<typeinfos, pc>>
                 \/ ~Inside(stop) /\ Crash
      /\ NextSymbol

\* Two words of a base, the second of which holds an offset and 8 bits of flags.
BaseAt(a) == [base |-> Word(a), offset |-> Word(a + 1) \div 256, flags |-> Word(a + 1) % 256]

\* Where the words of a type_info end.
InfoEnd(a, class) ==
  CASE class = "ni" -> a
    [] class = "si" -> a + 3
    [] class = "vmi" -> IF Inside(a + 2) THEN a + 3 + 2 * (Word(a + 2) \div Half) ELSE a + 3

Info(a, class) ==
  CASE class = "ni" -> [type |-> 0, flags |-> 0, bases |-> {}]
    [] class = "si" ->
         [type |-> 1, flags |-> 0, bases |-> {[base |-> Word(a + 2), offset |-> 0, flags |-> 0]}]
    [] class = "vmi" ->
         [type |-> 2, flags |-> Word(a + 2) % Half,
          bases |-> {BaseAt(a + 1 + 2 * b) : b \in 1..Word(a + 2) \div Half}]

\* No class, and nothing is read: neither does the pointer matter, null or not.
\* Otherwise a null pointer is advanced and read.
ScanTypeinfo ==
  LET a == Symbols[n].addr
      class == relocmap[a]
      legal == class = "ni" \/ (Inside(a + 2) /\ Inside(InfoEnd(a, class) - 1))
      Keep(info) == typeinfos' = [b \in DOMAIN typeinfos \union {a} |->
                                    IF b \in DOMAIN typeinfos THEN typeinfos[b] ELSE info]
  IN  /\ Symbol("typeinfo")
      /\ \/ a \notin DOMAIN relocmap /\ UNCHANGED <<vtables, typeinfos, pc>>
         \/ /\ a \in DOMAIN relocmap /\ legal
            /\ Keep(Info(a, class))
            /\ UNCHANGED <<vtables, pc>>
         \/ /\ a \in DOMAIN relocmap /\ ~legal /\ Mapped(a)
            /\ Keep([type |-> Garbage, flags |-> Garbage, bases |-> {}])
            /\ UNCHANGED <<vtables, pc>>
         \/ a \in DOMAIN relocmap /\ ~legal /\ Crash
      /\ NextSymbol

\* A symbol that is skipped, or any other.
ScanOther ==
  /\ Symbol("data") \/ (pc = "symbols" /\ n \in DOMAIN Symbols /\ n \in skipped)
  /\ NextSymbol
  /\ UNCHANGED <<vtables, typeinfos, pc>>

-----------------------------------------------------------------------------
(* fillVtables, fillTypeinfos.                                              *)

Fill ==
  /\ pc = "symbols"
  /\ n \notin DOMAIN Symbols
  /\ tables' =
       [vtables |-> UNION {{<<a, idx, vtables[a][idx + 1]>> : idx \in 0..Len(vtables[a]) - 1}
                             : a \in DOMAIN vtables},
        roots   |-> {<<a, typeinfos[a].type, typeinfos[a].flags>> : a \in DOMAIN typeinfos},
        defs    |-> UNION {{<<a, b.base, b.offset, b.flags>> : b \in typeinfos[a].bases}
                             : a \in DOMAIN typeinfos}]
  /\ pc' = "done"
  /\ UNCHANGED <<input, rodata, index, relocmap, pureset, n, vtables, typeinfos>>

Ended ==
  /\ pc \in {"done", "failed", "crashed"}
  /\ UNCHANGED vars

Next ==
  \/ GetSection
  \/ FindClasses
  \/ ReadRelocations
  \/ ScanVtable
  \/ ScanTypeinfo
  \/ ScanOther
  \/ Fill
  \/ Ended

Spec == Init /\ [][Next]_vars

-----------------------------------------------------------------------------
(* What the scan recovers.                                                  *)

Rows(table, a) == {row \in table : row[1] = a}

\* The slots before the first imported one: that one is a zero as well, and no
\* pure virtual slot, so the scan takes it for the end.
Readable(k) ==
  {s \in DOMAIN Object(k).slots : \A t \in 1..s : Object(k).slots[t] # Zero}

SlotRows(k) == {<<Addr(k), s - 1, Object(k).slots[s]>> : s \in Readable(k)}

\* Nothing follows but words that are not zero and pure virtual slots.
RunsOut(k) ==
  \A j \in k + 1..Len(section.objects) :
    Object(j).kind = "data" /\ \A w \in DOMAIN Object(j).words : Object(j).words[w] # Zero

\* A vtable the scan ends in, or right behind: it has an imported slot, or one
\* part only and an object behind it that begins with a zero.
Closed(k) ==
  \/ Readable(k) # DOMAIN Object(k).slots
  \/ Object(k).more = <<>> /\ k < Len(section.objects) /\ Object(k + 1).kind # "data"

BaseRows(k) ==
  {<<Addr(k), Object(k).bases[b].base, Object(k).bases[b].offset, Object(k).bases[b].flags>>
     : b \in DOMAIN Object(k).bases}

RootRow(k) ==
  <<Addr(k), [ni |-> 0, si |-> 1, vmi |-> 2][Object(k).class], Object(k).flags>>

\* The section lies in the first 4 GiB of its file, and so does its view.
Within == sh_offset < Dword /\ Len(Section) < Dword

\* Every slot of every vtable, up to an imported one, becomes a row with its
\* index, pure virtual ones included, and every type_info the rows of its class
\* and bases, unless its own symbol is skipped.  A vtable that is closed has no
\* other row; one that is not runs on into what follows it (CLI/main.cpp:470-516,
\* for a section in the first 4 GiB of its file).
RowsRecovered ==
  pc = "done" /\ Within =>
    /\ \A k \in Objects("vtable") \ skipped :
         /\ SlotRows(k) \subseteq tables.vtables
         /\ Closed(k) => Rows(tables.vtables, Addr(k)) = SlotRows(k)
    /\ \A k \in Objects("typeinfo") \ skipped :
         /\ Rows(tables.defs, Addr(k)) = BaseRows(k)
         /\ Rows(tables.roots, Addr(k)) = {RootRow(k)}

\* A symbol that the checks of the code let through although it lies outside.
Outside(s) ==
  \/ s.kind = "vtable" /\ s.addr < Base
  \/ s.kind = "typeinfo" /\ s.class # "ni" /\ (s.addr < Base \/ s.addr >= Base + Len(Section))

\* The builder reads beyond the section only for such a symbol, for a vtable with
\* no zero behind it but pure virtual slots, and when the view was cut off
\* to another place in the file (CLI/main.cpp:484, 490, elf.h:26, windowscommon.h:72).
CrashNeedsStray ==
  pc = "crashed" =>
    \/ \E k \in DOMAIN strays : Outside(strays[k])
    \/ \E k \in Objects("vtable") : ~Closed(k) /\ RunsOut(k)
    \/ ~Within
=============================================================================
