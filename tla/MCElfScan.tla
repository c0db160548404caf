----------------------------- MODULE MCElfScan -----------------------------
(* Sections of up to three objects: vtables with functions, pure slots and   *)
(* imported slots, of one part or two, the three kinds of type_info, one     *)
(* with a base at a negative offset, and plain words; symbols outside of the *)
(* section, symbols that are skipped, and symbol tables that lack a class or *)
(* define it.                                                                *)
EXTENDS ElfScan, SequencesExt

MCBase == 40

Vt(slots, more) == [kind |-> "vtable", slots |-> slots, more |-> more]
Ti(class, flags, bases) ==
  [kind |-> "typeinfo", class |-> class, flags |-> flags, bases |-> bases]
B(base, offset, flags) == [base |-> base, offset |-> offset, flags |-> flags]

MCObjects == {
  Vt(<<11>>, <<>>), Vt(<<0, 12, 0>>, <<>>), Vt(<<>>, <<>>), Vt(<<11, 0>>, <<-2, 7, 0, 13>>),
  Vt(<<11, -1, 12>>, <<>>),
  Ti("ni", 0, <<>>), Ti("si", 0, <<B(41, 0, 0)>>),
  Ti("vmi", 3, <<B(41, 0, 2), B(43, 1, 2)>>), Ti("vmi", 1, <<B(41, -3, 3)>>),
  [kind |-> "data", words |-> <<6, 6>>], [kind |-> "data", words |-> <<6, -1>>],
  [kind |-> "data", words |-> <<0, 6>>]}

Joined(objects) == FlattenSeq([k \in DOMAIN objects |-> Words(objects[k])])

MCSections ==
  {[objects |-> objects,
    at |-> [k \in DOMAIN objects |-> Base + Len(Joined(SubSeq(objects, 1, k - 1)))],
    words |-> Joined(objects)] : objects \in UNION {[1..len -> MCObjects] : len \in 1..3}}

Stray(kind, class, addr) == [kind |-> kind, class |-> class, addr |-> addr]

MCStrays == {<<>>,
  <<Stray("vtable", "none", 37)>>, <<Stray("vtable", "none", 90)>>,
  <<Stray("typeinfo", "ni", 90)>>, <<Stray("typeinfo", "vmi", 90)>>,
  <<Stray("typeinfo", "si", 36)>>}

Null == [name |-> "", value |-> 0]
S(name) == [name |-> name, value |-> 0]
Defined(name) == [name |-> name, value |-> 3]

MCDynsyms == {
  <<S("vmi"), S("ni"), S("other"), S("pure"), S("si")>>,
  <<S("vmi"), S("ni"), S("si")>>,
  <<S("vmi"), Defined("ni"), S("pure"), S("si")>>}

MCSkips == {{}, {1}, {2}}

MCFileOffsets == {2, 66}
=============================================================================
