--------------------------- MODULE ElfScanProofs ---------------------------
(* The scan recovers every vtable and type_info of every section that is laid *)
(* out from them, and reads beyond the section only where CrashNeedsStray     *)
(* says so.                                                                   *)
EXTENDS ElfScan, SequenceTheorems, WellFoundedInduction, TLAPS

-----------------------------------------------------------------------------
(* The words of an object.                                                   *)

\* A function on the indices of a sequence is a sequence of that length.
LEMMA Indexed ==
  ASSUME NEW m \in Nat, NEW S, NEW s, s \in [1..m -> S]
  PROVE  s \in Seq(S) /\ Len(s) = m /\ DOMAIN s = 1..m
<1>1. s \in Seq(S)
  BY SeqDef
<1>. QED
  BY <1>1, LenProperties

LEMMA Joined ==
  ASSUME NEW s \in Seq(Int), NEW t \in Seq(Int)
  PROVE  /\ s \o t \in Seq(Int)
         /\ Len(s) \in Nat /\ Len(t) \in Nat /\ Len(s \o t) = Len(s) + Len(t)
         /\ \A w \in 1..Len(s) : (s \o t)[w] = s[w]
         /\ \A w \in 1..Len(t) : (s \o t)[Len(s) + w] = t[w]
<1>1. Len(s) \in Nat /\ Len(t) \in Nat
  BY LenProperties
<1>2. /\ s \o t \in Seq(Int)
      /\ Len(s \o t) = Len(s) + Len(t)
      /\ \A w \in 1..Len(s) + Len(t) :
           (s \o t)[w] = IF w <= Len(s) THEN s[w] ELSE t[w - Len(s)]
  BY ConcatProperties
<1>. QED
  BY <1>1, <1>2

\* Vtables and data are a header and what their entries are in the file.
LEMMA TableWords ==
  ASSUME NEW obj \in Vtables \union Data
  PROVE  /\ Words(obj) \in Seq(Int) /\ Entries(obj) \in Seq(Int)
         /\ Len(Entries(obj)) \in Nat /\ DOMAIN Entries(obj) = 1..Len(Entries(obj))
         /\ Len(Header(obj)) = IF obj.kind = "vtable" THEN 2 ELSE 0
         /\ Len(Words(obj)) = Len(Header(obj)) + Len(Entries(obj))
         /\ obj.kind = "vtable" => Words(obj)[1] = 0
         /\ \A s \in DOMAIN Entries(obj) : Words(obj)[Len(Header(obj)) + s] = Written(Entries(obj)[s])
<1> DEFINE entries == Entries(obj)
           header == Header(obj)
           written == [s \in DOMAIN entries |-> Written(entries[s])]
<1>1. obj.kind \in {"vtable", "data"}
  BY DEF Vtables, Data
<1>2. entries \in Seq(Int)
  <2>1. CASE obj \in Vtables
    <3>1. obj.kind = "vtable" /\ obj.slots \in Seq(Nat \union {Zero}) /\ obj.more \in Seq(Int)
      BY <2>1 DEF Vtables
    <3>2. obj.slots \in Seq(Int)
      <4>1. /\ Len(obj.slots) \in Nat /\ DOMAIN obj.slots = 1..Len(obj.slots)
            /\ obj.slots \in [1..Len(obj.slots) -> Nat \union {Zero}]
        BY <3>1, LenProperties
      <4>2. obj.slots \in [1..Len(obj.slots) -> Int]
        BY <4>1 DEF Zero
      <4>. QED
        BY <4>1, <4>2, Indexed, Zenon
    <3>3. entries = obj.slots \o obj.more
      BY <3>1 DEF Entries
    <3>. QED
      BY <3>1, <3>2, <3>3, ConcatProperties
  <2>2. CASE obj \in Data
    BY <2>2 DEF Data, Entries
  <2>. QED
    BY <2>1, <2>2
<1>3. Len(entries) \in Nat /\ DOMAIN entries = 1..Len(entries) /\ \A s \in 1..Len(entries) : entries[s] \in Int
  BY <1>2, LenProperties, ElementOfSeq
<1>4. header \in Seq(Int) /\ Len(header) = (IF obj.kind = "vtable" THEN 2 ELSE 0)
      /\ (obj.kind = "vtable" => header[1] = 0)
  BY EmptySeq DEF Header
<1>5. Words(obj) = header \o written
  BY <1>1 DEF Words, Written
<1>6. \A s \in DOMAIN entries : written[s] = Written(entries[s])
  OBVIOUS
<1> HIDE DEF entries, header
<1>7. written \in Seq(Int) /\ Len(written) = Len(entries)
  <2>1. written \in [1..Len(entries) -> Int]
    BY <1>3 DEF Written
  <2> HIDE DEF written
  <2>. QED
    BY <1>3, <2>1, Indexed
<1> HIDE DEF written
<1> DEFINE whole == header \o written
<1>8. /\ whole \in Seq(Int) /\ Len(whole) = Len(header) + Len(written)
      /\ \A w \in 1..Len(header) : whole[w] = header[w]
      /\ \A w \in 1..Len(written) : whole[Len(header) + w] = written[w]
  BY <1>4, <1>7, Joined
<1>9. Words(obj) = whole
  BY <1>5
<1> HIDE DEF whole
<1>10. obj.kind = "vtable" => 1 \in 1..Len(header)
  BY <1>4
<1>. QED
  BY <1>2, <1>3, <1>4, <1>6, <1>7, <1>8, <1>9, <1>10 DEF entries, header

\* The first entries of a vtable are its slots.
LEMMA VtableWords ==
  ASSUME NEW obj \in Vtables
  PROVE  /\ Len(obj.slots) \in Nat /\ DOMAIN obj.slots = 1..Len(obj.slots)
         /\ Len(obj.more) \in Nat /\ (obj.more = <<>> => Len(obj.more) = 0)
         /\ Len(Header(obj)) = 2
         /\ Len(Words(obj)) = 2 + Len(obj.slots) + Len(obj.more)
         /\ \A s \in DOMAIN obj.slots :
              /\ s \in DOMAIN Entries(obj) /\ Entries(obj)[s] = obj.slots[s]
              /\ obj.slots[s] \in Nat \union {Zero}
<1> DEFINE slots == Len(obj.slots)
           more == Len(obj.more)
           both == obj.slots \o obj.more
<1>1. obj.kind = "vtable" /\ obj.slots \in Seq(Nat \union {Zero}) /\ obj.more \in Seq(Int)
  BY DEF Vtables
<1>2. /\ slots \in Nat /\ DOMAIN obj.slots = 1..slots /\ more \in Nat
      /\ (obj.more = <<>> => more = 0)
      /\ \A s \in DOMAIN obj.slots : obj.slots[s] \in Nat \union {Zero}
  BY <1>1, LenProperties, ElementOfSeq, EmptySeq
<1>3. Entries(obj) = both
  BY <1>1 DEF Entries
<1>4. Len(both) = slots + more /\ \A s \in 1..slots : both[s] = obj.slots[s]
  <2>1. obj.slots \in Seq(Int)
    <3>1. obj.slots \in [1..slots -> Nat \union {Zero}]
      BY <1>1, LenProperties
    <3>2. obj.slots \in [1..slots -> Int]
      BY <3>1 DEF Zero
    <3>. QED
      BY <1>2, <3>2, Indexed, Zenon
  <2>. QED
    BY <1>1, <2>1, Joined
<1>5. /\ Len(Header(obj)) = 2 /\ Len(Words(obj)) = Len(Header(obj)) + Len(Entries(obj))
      /\ DOMAIN Entries(obj) = 1..Len(Entries(obj))
  BY <1>1, TableWords
<1> HIDE DEF slots, more, both
<1>6. Len(Words(obj)) = 2 + slots + more
  BY <1>2, <1>3, <1>4, <1>5
<1>7. \A s \in 1..slots : s \in DOMAIN Entries(obj)
  BY <1>2, <1>3, <1>4, <1>5
<1>. QED
  BY <1>2, <1>3, <1>4, <1>5, <1>6, <1>7 DEF slots, more

LEMMA InfoWords ==
  ASSUME NEW obj \in Typeinfos, Consistent(obj)
  PROVE  /\ Words(obj) \in Seq(Int) /\ Words(obj)[1] = 0
         /\ Len(obj.bases) \in Nat /\ DOMAIN obj.bases = 1..Len(obj.bases)
         /\ obj.class = "ni" => Len(Words(obj)) = 2
         /\ obj.class = "si" => Len(Words(obj)) = 3 /\ Words(obj)[3] = obj.bases[1].base
         /\ obj.class = "vmi" =>
              /\ Len(Words(obj)) = 3 + 2 * Len(obj.bases)
              /\ Words(obj)[3] = obj.flags + Half * Len(obj.bases)
              /\ \A b \in 1..Len(obj.bases) :
                   /\ Words(obj)[2 + 2 * b] = obj.bases[b].base
                   /\ Words(obj)[3 + 2 * b] = obj.bases[b].offset * 256 + obj.bases[b].flags
<1> DEFINE head == <<0, 9>>
           size == Len(obj.bases)
           Pair(w) == LET b == obj.bases[(w + 1) \div 2] IN
                         IF w % 2 = 1 THEN b.base ELSE b.offset * 256 + b.flags
           pairs == [w \in 1..2 * size |-> Pair(w)]
           count == <<obj.flags + Half * size>>
<1>1. /\ obj.kind = "typeinfo" /\ obj.class \in {"ni", "si", "vmi"} /\ obj.flags \in Int
      /\ obj.bases \in Seq([base : Int, offset : Int, flags : 0..255])
  BY SizesAssumption DEF Typeinfos
<1>2. /\ size \in Nat /\ DOMAIN obj.bases = 1..size
      /\ \A b \in 1..size : obj.bases[b] \in [base : Int, offset : Int, flags : 0..255]
  BY <1>1, LenProperties, ElementOfSeq
<1>3. head \in Seq(Int) /\ Len(head) = 2 /\ head[1] = 0
  OBVIOUS
<1>4. CASE obj.class = "ni"
  <2>1. Words(obj) = head \o <<>>
    BY <1>1, <1>4 DEF Words
  <2>2. <<>> \in Seq(Int) /\ Len(<<>>) = 0
    BY EmptySeq
  <2>3. /\ Words(obj) \in Seq(Int) /\ Len(Words(obj)) = Len(head) + Len(<<>>)
        /\ \A w \in 1..Len(head) : Words(obj)[w] = head[w]
    BY <1>3, <2>1, <2>2, Joined
  <2>. QED
    BY <1>2, <1>3, <1>4, <2>2, <2>3
<1>5. CASE obj.class = "si"
  <2>1. Words(obj) = head \o <<obj.bases[1].base>>
    BY <1>1, <1>5 DEF Words
  <2>2. obj.bases[1].base \in Int
    BY <1>2, <1>5 DEF Consistent
  <2>3. <<obj.bases[1].base>> \in Seq(Int) /\ Len(<<obj.bases[1].base>>) = 1
    BY <2>2
  <2> DEFINE tail == <<obj.bases[1].base>>
  <2>4. tail \in Seq(Int) /\ Len(tail) = 1 /\ tail[1] = obj.bases[1].base /\ Words(obj) = head \o tail
    BY <2>1, <2>3
  <2> HIDE DEF head, tail
  <2>5. /\ Words(obj) \in Seq(Int) /\ Len(Words(obj)) = Len(head) + Len(tail)
        /\ \A w \in 1..Len(head) : Words(obj)[w] = head[w]
        /\ \A w \in 1..Len(tail) : Words(obj)[Len(head) + w] = tail[w]
    <3> DEFINE whole == head \o tail
    <3>1. head \in Seq(Int) /\ tail \in Seq(Int) /\ Words(obj) = whole
      BY <1>3, <2>4
    <3>2. /\ whole \in Seq(Int) /\ Len(whole) = Len(head) + Len(tail)
          /\ \A w \in 1..Len(head) : whole[w] = head[w]
          /\ \A w \in 1..Len(tail) : whole[Len(head) + w] = tail[w]
      BY <3>1, Joined
    <3> HIDE DEF whole
    <3>. QED
      BY <3>1, <3>2
  <2>. QED
    BY <1>2, <1>3, <1>5, <2>4, <2>5
<1>6. CASE obj.class = "vmi"
  <2>1. Words(obj) = head \o (count \o pairs)
    BY <1>1, <1>6 DEF Words
  <2>2. count \in Seq(Int) /\ Len(count) = 1 /\ count[1] = obj.flags + Half * size
    BY <1>1, <1>2, SizesAssumption
  <2>3. \A w \in 1..2 * size : Pair(w) \in Int
    <3> SUFFICES ASSUME NEW w \in 1..2 * size PROVE Pair(w) \in Int
      OBVIOUS
    <3>1. (w + 1) \div 2 \in 1..size
      BY <1>2
    <3>2. CASE w % 2 = 1
      BY <1>2, <3>1, <3>2
    <3>3. CASE w % 2 # 1
      <4> DEFINE b == obj.bases[(w + 1) \div 2]
      <4>1. b.offset \in Int /\ b.flags \in Int
        <5>1. b \in [base : Int, offset : Int, flags : 0..255]
          BY <1>2, <3>1, Zenon
        <5> HIDE DEF b
        <5>2. b.offset \in Int /\ b.flags \in 0..255
          BY <5>1, Zenon
        <5>3. 0..255 \subseteq Int
          OBVIOUS
        <5>. QED
          BY <5>2, <5>3, Zenon
      <4>2. Pair(w) = b.offset * 256 + b.flags
        BY <3>3
      <4> HIDE DEF Pair, b
      <4>. QED
        BY <4>1, <4>2
    <3>. QED
      BY <3>2, <3>3
  <2>4. \A b \in 1..size : /\ 2 * b - 1 \in 1..2 * size /\ 2 * b \in 1..2 * size
                           /\ Pair(2 * b - 1) = obj.bases[b].base
                           /\ Pair(2 * b) = obj.bases[b].offset * 256 + obj.bases[b].flags
    <3> SUFFICES ASSUME NEW b \in 1..size
                 PROVE  /\ 2 * b - 1 \in 1..2 * size /\ 2 * b \in 1..2 * size
                        /\ Pair(2 * b - 1) = obj.bases[b].base
                        /\ Pair(2 * b) = obj.bases[b].offset * 256 + obj.bases[b].flags
      OBVIOUS
    <3>1. /\ ((2 * b - 1) + 1) \div 2 = b /\ (2 * b - 1) % 2 = 1
          /\ (2 * b + 1) \div 2 = b /\ (2 * b) % 2 = 0
      BY <1>2
    <3>. QED
      BY <1>2, <3>1
  <2> HIDE DEF Pair
  <2>5. pairs \in Seq(Int) /\ Len(pairs) = 2 * size
    <3>1. pairs \in [1..2 * size -> Int] /\ 2 * size \in Nat
      BY <1>2, <2>3
    <3> HIDE DEF pairs
    <3>. QED
      BY <3>1, Indexed
  <2>6. \A w \in 1..2 * size : pairs[w] = Pair(w)
    OBVIOUS
  <2> DEFINE tail == count \o pairs
  <2> HIDE DEF head, pairs, count
  <2>7. /\ tail \in Seq(Int) /\ Len(tail) = 1 + 2 * size
        /\ tail[1] = obj.flags + Half * size
        /\ \A w \in 1..2 * size : tail[1 + w] = pairs[w]
    <3>1. /\ tail \in Seq(Int) /\ Len(tail) = Len(count) + Len(pairs)
          /\ \A w \in 1..Len(count) : tail[w] = count[w]
          /\ \A w \in 1..Len(pairs) : tail[Len(count) + w] = pairs[w]
      <4>1. count \in Seq(Int) /\ pairs \in Seq(Int)
        BY <2>2, <2>5
      <4>. QED
        BY <4>1, Joined
    <3> HIDE DEF tail
    <3>. QED
      BY <1>2, <2>2, <2>5, <3>1
  <2>8. Words(obj) = head \o tail
    BY <2>1
  <2> HIDE DEF tail
  <2>9. /\ Words(obj) \in Seq(Int) /\ Len(Words(obj)) = 3 + 2 * size
        /\ Words(obj)[1] = 0
        /\ \A w \in 1..1 + 2 * size : Words(obj)[2 + w] = tail[w]
    <3>1. /\ Words(obj) \in Seq(Int) /\ Len(Words(obj)) = Len(head) + Len(tail)
          /\ \A w \in 1..Len(head) : Words(obj)[w] = head[w]
          /\ \A w \in 1..Len(tail) : Words(obj)[Len(head) + w] = tail[w]
      <4> DEFINE whole == head \o tail
      <4>1. head \in Seq(Int) /\ tail \in Seq(Int) /\ Words(obj) = whole
        BY <1>3, <2>7, <2>8
      <4>2. /\ whole \in Seq(Int) /\ Len(whole) = Len(head) + Len(tail)
            /\ \A w \in 1..Len(head) : whole[w] = head[w]
            /\ \A w \in 1..Len(tail) : whole[Len(head) + w] = tail[w]
        BY <4>1, Joined
      <4> HIDE DEF whole
      <4>. QED
        BY <4>1, <4>2
    <3>. QED
      BY <1>2, <1>3, <2>7, <3>1
  <2>10. Words(obj)[3] = obj.flags + Half * size
    BY <1>2, <2>7, <2>9
  <2>11. \A b \in 1..size : /\ Words(obj)[2 + 2 * b] = obj.bases[b].base
                            /\ Words(obj)[3 + 2 * b] = obj.bases[b].offset * 256 + obj.bases[b].flags
    <3> SUFFICES ASSUME NEW b \in 1..size
                 PROVE  /\ Words(obj)[2 + 2 * b] = obj.bases[b].base
                        /\ Words(obj)[3 + 2 * b] = obj.bases[b].offset * 256 + obj.bases[b].flags
      OBVIOUS
    <3>1. /\ Words(obj)[2 + 2 * b] = tail[2 * b] /\ tail[1 + (2 * b - 1)] = pairs[2 * b - 1]
          /\ Words(obj)[2 + (1 + 2 * b)] = tail[1 + 2 * b] /\ tail[1 + 2 * b] = pairs[2 * b]
      <4>1. /\ b \in Int /\ 2 * b \in 1..1 + 2 * size /\ 1 + 2 * b \in 1..1 + 2 * size
            /\ 2 * b - 1 \in 1..2 * size /\ 2 * b \in 1..2 * size
        BY <1>2
      <4>. QED
        BY <2>7, <2>9, <4>1
    <3>2. 1 + (2 * b - 1) = 2 * b /\ 2 + (1 + 2 * b) = 3 + 2 * b
      BY <1>2
    <3>3. /\ 2 * b - 1 \in 1..2 * size /\ 2 * b \in 1..2 * size
          /\ Pair(2 * b - 1) = obj.bases[b].base
          /\ Pair(2 * b) = obj.bases[b].offset * 256 + obj.bases[b].flags
      BY <2>4, Zenon
    <3>4. pairs[2 * b - 1] = obj.bases[b].base
          /\ pairs[2 * b] = obj.bases[b].offset * 256 + obj.bases[b].flags
      BY <2>6, <3>3, Zenon
    <3>. QED
      BY <3>1, <3>2, <3>4, Zenon
  <2>. QED
    BY <1>2, <1>6, <2>9, <2>10, <2>11
<1>. QED
  BY <1>1, <1>4, <1>5, <1>6
-----------------------------------------------------------------------------
(* Where the objects lie.                                                    *)

\* What the assumptions say of the section that was chosen.
LEMMA Layout ==
  ASSUME section \in Sections
  PROVE  /\ section.objects \in Seq(Vtables \union Typeinfos \union Data)
         /\ Len(section.objects) \in Nat /\ DOMAIN section.objects = 1..Len(section.objects)
         /\ Section \in Seq(Int) /\ Len(Section) \in Nat
         /\ Base \in Nat
         /\ \A k \in DOMAIN section.objects :
              /\ Object(k) \in Vtables \union Typeinfos \union Data
              /\ Object(k).kind = "typeinfo" => Consistent(Object(k))
              /\ Addr(k) \in Nat /\ Addr(k) >= Base
              /\ Addr(k) + Len(Words(Object(k))) =
                   IF k < Len(section.objects) THEN Addr(k + 1) ELSE Base + Len(Section)
              /\ \A j \in 1..k - 1 : Addr(j) + Len(Words(Object(j))) <= Addr(k)
              /\ \A w \in 1..Len(Words(Object(k))) :
                   Section[Addr(k) - Base + w] = Words(Object(k))[w]
<1>1. /\ section.objects \in Seq(Vtables \union Typeinfos \union Data)
      /\ \A k \in DOMAIN section.objects :
           section.objects[k].kind = "typeinfo" => Consistent(section.objects[k])
      /\ section.words \in Seq(Int)
      /\ LaidOut(section)
  BY SectionsAssumption
<1>2. /\ Len(section.objects) \in Nat /\ DOMAIN section.objects = 1..Len(section.objects)
      /\ Len(section.words) \in Nat
      /\ \A k \in 1..Len(section.objects) :
           section.objects[k] \in Vtables \union Typeinfos \union Data
  BY <1>1, LenProperties, ElementOfSeq
<1>. QED
  BY <1>1, <1>2, SizesAssumption DEF LaidOut, Object, Addr, Section

\* The words of an object, whichever it is.
LEMMA ObjectWords ==
  ASSUME section \in Sections, NEW k \in DOMAIN section.objects
  PROVE  /\ Words(Object(k)) \in Seq(Int) /\ Len(Words(Object(k))) \in Nat
         /\ Object(k).kind \in {"vtable", "typeinfo", "data"}
         /\ Object(k).kind = "vtable" => Object(k) \in Vtables
         /\ Object(k).kind = "typeinfo" => Object(k) \in Typeinfos /\ Consistent(Object(k))
         /\ Object(k).kind = "data" => Object(k) \in Data
         /\ Object(k).kind # "data" => Len(Words(Object(k))) >= 2 /\ Words(Object(k))[1] = 0
<1>1. /\ Object(k) \in Vtables \union Typeinfos \union Data
      /\ Object(k).kind = "typeinfo" => Consistent(Object(k))
  BY Layout
<1>2. CASE Object(k) \in Vtables
  <2>1. Object(k).kind = "vtable"
    BY <1>2 DEF Vtables
  <2>2. /\ Words(Object(k)) \in Seq(Int) /\ Words(Object(k))[1] = 0
        /\ Len(Object(k).slots) \in Nat /\ Len(Object(k).more) \in Nat
        /\ Len(Words(Object(k))) = 2 + Len(Object(k).slots) + Len(Object(k).more)
    BY <1>2, <2>1, VtableWords, TableWords
  <2>3. Len(Words(Object(k))) \in Nat /\ Len(Words(Object(k))) >= 2
    <3> DEFINE slots == Len(Object(k).slots)
               more == Len(Object(k).more)
    <3>1. slots \in Nat /\ more \in Nat /\ Len(Words(Object(k))) = 2 + slots + more
      BY <2>2, Zenon
    <3> HIDE DEF slots, more
    <3>. QED
      BY <3>1
  <2>. QED
    BY <1>2, <2>1, <2>2, <2>3, Zenon
<1>3. CASE Object(k) \in Typeinfos
  <2>1. Object(k).kind = "typeinfo" /\ Object(k).class \in {"ni", "si", "vmi"}
    BY <1>3 DEF Typeinfos
  <2>2. Consistent(Object(k))
    BY <1>1, <2>1
  <2>3. /\ Words(Object(k)) \in Seq(Int) /\ Words(Object(k))[1] = 0
        /\ Len(Object(k).bases) \in Nat
        /\ \/ Len(Words(Object(k))) = 2
           \/ Len(Words(Object(k))) = 3
           \/ Len(Words(Object(k))) = 3 + 2 * Len(Object(k).bases)
    BY <1>3, <2>1, <2>2, InfoWords
  <2>4. Len(Words(Object(k))) \in Nat /\ Len(Words(Object(k))) >= 2
    <3> DEFINE bases == Len(Object(k).bases)
               all == Len(Words(Object(k)))
    <3>1. bases \in Nat /\ (all = 2 \/ all = 3 \/ all = 3 + 2 * bases)
      BY <2>3, Zenon
    <3> HIDE DEF bases, all
    <3>2. all \in Nat /\ all >= 2
      BY <3>1
    <3> USE DEF all
    <3>. QED
      BY <3>2
  <2>. QED
    BY <1>3, <2>1, <2>2, <2>3, <2>4, Zenon
<1>4. CASE Object(k) \in Data
  <2>1. Object(k).kind = "data"
    BY <1>4 DEF Data
  <2>2. Words(Object(k)) \in Seq(Int)
    BY <1>4, TableWords
  <2>. QED
    BY <1>4, <2>1, <2>2, LenProperties
<1>. QED
  BY <1>1, <1>2, <1>3, <1>4

\* Every word of an object is a word of the section, and no other object's.
LEMMA Places ==
  ASSUME section \in Sections, rodata = Section,
         NEW k \in DOMAIN section.objects, NEW w \in 1..Len(Words(Object(k)))
  PROVE  /\ Inside((Addr(k) + w) - 1)
         /\ Word((Addr(k) + w) - 1) = Words(Object(k))[w]
         /\ \A j \in DOMAIN section.objects : j # k =>
              \A v \in 1..Len(Words(Object(j))) : (Addr(j) + v) - 1 # (Addr(k) + w) - 1
<1> DEFINE size(j) == Len(Words(Object(j)))
           last == Len(section.objects)
<1>1. /\ last \in Nat /\ DOMAIN section.objects = 1..last /\ Len(Section) \in Nat /\ Base \in Nat
      /\ \A j \in 1..last :
           /\ Addr(j) \in Nat /\ Addr(j) >= Base
           /\ Addr(j) + size(j) = IF j < last THEN Addr(j + 1) ELSE Base + Len(Section)
           /\ \A i \in 1..j - 1 : Addr(i) + size(i) <= Addr(j)
           /\ \A v \in 1..size(j) : Section[Addr(j) - Base + v] = Words(Object(j))[v]
  BY Layout
<1>2. \A j \in 1..last : size(j) \in Nat
  BY <1>1, ObjectWords
<1> HIDE DEF size, last
<1>3. Addr(k) + size(k) <= Base + Len(Section)
  <2>1. last \in 1..last /\ Addr(last) + size(last) = Base + Len(Section)
    BY <1>1
  <2>2. k = last \/ Addr(k) + size(k) <= Addr(last)
    BY <1>1, <2>1
  <2>. QED
    BY <1>1, <1>2, <2>1, <2>2
<1>4. w \in 1..size(k) /\ k \in 1..last
  BY <1>1 DEF size
<1>5. Inside((Addr(k) + w) - 1)
  <2>1. /\ Addr(k) \in Nat /\ Addr(k) >= Base /\ size(k) \in Nat
        /\ Base \in Nat /\ Len(Section) \in Nat
    BY <1>1, <1>2, <1>4
  <2>2. End = Base + Len(Section)
    BY DEF End
  <2>3. (Addr(k) + w) - 1 >= Base /\ (Addr(k) + w) - 1 < Base + Len(Section)
    BY <1>3, <1>4, <2>1
  <2>. QED
    BY <2>2, <2>3 DEF Inside
<1>6. Word((Addr(k) + w) - 1) = Words(Object(k))[w]
  <2>1. (((Addr(k) + w) - 1) - Base) + 1 = (Addr(k) - Base) + w
    BY <1>1, <1>4
  <2>2. Section[Addr(k) - Base + w] = Words(Object(k))[w]
    BY <1>1, <1>4
  <2>. QED
    BY <2>1, <2>2 DEF Word
<1>7. ASSUME NEW j \in 1..last, j # k, NEW v \in 1..size(j)
      PROVE  (Addr(j) + v) - 1 # (Addr(k) + w) - 1
  <2>1. Addr(j) + size(j) <= Addr(k) \/ Addr(k) + size(k) <= Addr(j)
    BY <1>1, <1>4, <1>7
  <2>2. /\ Addr(j) \in Nat /\ Addr(k) \in Nat /\ size(j) \in Nat /\ size(k) \in Nat
        /\ v \in 1..size(j) /\ w \in 1..size(k)
    BY <1>1, <1>2, <1>4
  <2>. QED
    BY <2>1, <2>2
<1>. QED
  BY <1>1, <1>5, <1>6, <1>7 DEF size
-----------------------------------------------------------------------------
(* The relocations.                                                          *)

\* A set of symbol numbers that is not empty has a greatest one.
LEMMA Greatest ==
  ASSUME NEW m \in Nat, NEW T \in SUBSET (1..m), T # {}
  PROVE  \E s \in T : \A t \in T : t <= s
<1> DEFINE U == {u \in Nat : \E s \in T : u = m - s}
<1>1. U \subseteq Nat /\ U # {}
  <2>1. PICK s \in T : TRUE
    OBVIOUS
  <2>2. m - s \in U
    BY <2>1
  <2>. QED
    BY <2>2
<1>2. PICK u \in U : \A v \in U : ~(<<v, u>> \in OpToRel(<, Nat))
  BY <1>1, NatLessThanWellFounded, WFMin
<1>3. PICK s \in T : u = m - s
  OBVIOUS
<1>4. ASSUME NEW t \in T, ~(t <= s) PROVE FALSE
  <2>1. m - t \in U /\ m - t < u /\ u \in Nat
    BY <1>3, <1>4
  <2>2. <<m - t, u>> \in OpToRel(<, Nat)
    BY <2>1 DEF OpToRel
  <2>. QED
    BY <1>2, <2>1, <2>2
<1>. QED
  BY <1>4

\* The symbols of all the classes were found.
Resolved ==
  /\ dynsym \in Dynsyms
  /\ index = [c \in Classes |-> Found(c)]
  /\ \A c \in Classes : Found(c) # 0

LEMMA NumberOf ==
  ASSUME Resolved, NEW c \in Classes
  PROVE  index[c] \in DOMAIN dynsym /\ dynsym[index[c]].name = c
<1> DEFINE at == {s \in DOMAIN dynsym : dynsym[s].name = c /\ dynsym[s].value = 0}
<1>1. dynsym \in Seq([name : STRING, value : Nat])
  BY DynsymsAssumption DEF Resolved
<1>2. Len(dynsym) \in Nat /\ DOMAIN dynsym = 1..Len(dynsym)
  BY <1>1, LenProperties
<1>3. at # {} /\ index[c] = CHOOSE s \in at : \A t \in at : t <= s
  BY Zenon DEF Resolved, Found
<1>4. \E s \in at : \A t \in at : t <= s
  <2>1. at \in SUBSET (1..Len(dynsym))
    BY <1>2
  <2> HIDE DEF at
  <2>. QED
    BY <1>2, <1>3, <2>1, Greatest
<1>5. index[c] \in at
  <2> HIDE DEF at
  <2>. QED
    BY <1>3, <1>4, Zenon
<1>. QED
  BY <1>5

\* The addresses of the relocations against a class.
At(class) == {r.off : r \in {q \in Relocations : OfClass(q, class)}}

LEMMA AgainstClass ==
  ASSUME Resolved, NEW name, NEW a, NEW c \in Classes
  PROVE  /\ \A r \in Against(name, a) : r.off = a /\ (OfClass(r, c) => name = c)
         /\ name = c => \E r \in Against(name, a) : r.off = a /\ OfClass(r, c)
<1>1. index[c] \in DOMAIN dynsym /\ dynsym[index[c]].name = c
  BY NumberOf
<1>2. ASSUME NEW r \in Against(name, a) PROVE r.off = a /\ (OfClass(r, c) => name = c)
  <2>1. PICK s \in DOMAIN dynsym : dynsym[s].name = name /\ r = [type |-> 1, sym |-> s, off |-> a]
    BY Zenon DEF Against
  <2>. QED
    BY <1>1, <2>1 DEF OfClass
<1>3. ASSUME name = c PROVE \E r \in Against(name, a) : r.off = a /\ OfClass(r, c)
  <2> DEFINE r == [type |-> 1, sym |-> index[c], off |-> a]
  <2>1. r \in Against(name, a)
    BY <1>1, <1>3, Zenon DEF Against
  <2>2. r.off = a /\ OfClass(r, c)
    BY DEF OfClass
  <2>. QED
    BY <2>1, <2>2
<1>. QED
  BY <1>2, <1>3

LEMMA EntryClass ==
  ASSUME Resolved, NEW entry, NEW a, NEW c \in Classes
  PROVE  /\ \A r \in EntryRelocation(entry, a) :
              r.off = a /\ (OfClass(r, c) => entry = Pure /\ c = "pure")
         /\ entry = Pure => \E r \in EntryRelocation(entry, a) : r.off = a /\ OfClass(r, "pure")
<1>1. "pure" \in Classes /\ "other" \notin Classes
  BY DEF Classes
<1>2. CASE entry = Pure
  <2>1. EntryRelocation(entry, a) = Against("pure", a)
    BY <1>2 DEF EntryRelocation, Pure, Zero
  <2>. QED
    BY <1>1, <1>2, <2>1, AgainstClass
<1>3. CASE entry = Zero
  <2>1. EntryRelocation(entry, a) = Against("other", a) /\ entry # Pure
    BY <1>3 DEF EntryRelocation, Pure, Zero
  <2>2. \A r \in Against("other", a) : r.off = a /\ (OfClass(r, c) => "other" = c)
    BY AgainstClass
  <2>. QED
    BY <1>1, <2>1, <2>2
<1>4. CASE entry # Pure /\ entry # Zero
  <2>1. EntryRelocation(entry, a) = {[type |-> 8, sym |-> 0, off |-> a]}
    BY <1>4 DEF EntryRelocation
  <2>. QED
    BY <1>4, <2>1 DEF OfClass
<1>. QED
  BY <1>2, <1>3, <1>4

LEMMA RelocationsAre ==
  ASSUME NEW q
  PROVE  q \in Relocations <=>
           \/ \E k \in Objects("typeinfo") : q \in Against(Object(k).class, Addr(k))
           \/ \E k \in DOMAIN strays : q \in Against(strays[k].class, strays[k].addr)
           \/ \E k \in DOMAIN section.objects : \E s \in DOMAIN Entries(Object(k)) :
                q \in EntryRelocation(Entries(Object(k))[s], EntryAddr(k, s))
<1> DEFINE types == UNION {Against(Object(k).class, Addr(k)) : k \in Objects("typeinfo")}
           others == UNION {Against(strays[k].class, strays[k].addr) : k \in DOMAIN strays}
           entries(k) == UNION {EntryRelocation(Entries(Object(k))[s], EntryAddr(k, s))
                                  : s \in DOMAIN Entries(Object(k))}
           all == UNION {UNION {EntryRelocation(Entries(Object(k))[s], EntryAddr(k, s))
                                  : s \in DOMAIN Entries(Object(k))} : k \in DOMAIN section.objects}
<1>1. q \in Relocations <=> q \in types \/ q \in others \/ q \in all
  <2>1. Relocations = types \union others \union all
    BY DEF Relocations
  <2> HIDE DEF types, others, entries, all
  <2>. QED
    BY <2>1, Zenon
<1>2. q \in types <=> \E k \in Objects("typeinfo") : q \in Against(Object(k).class, Addr(k))
  BY Zenon
<1>3. q \in others <=> \E k \in DOMAIN strays : q \in Against(strays[k].class, strays[k].addr)
  BY Zenon
<1>4. \A k : q \in entries(k) <=> \E s \in DOMAIN Entries(Object(k)) :
                                     q \in EntryRelocation(Entries(Object(k))[s], EntryAddr(k, s))
  BY Zenon
<1>5. q \in all <=> \E k \in DOMAIN section.objects : q \in entries(k)
  BY Zenon
<1> HIDE DEF types, others, entries, all
<1>. QED
  BY <1>1, <1>2, <1>3, <1>4, <1>5, Zenon

\* The classes of the type_infos and of the stray symbols.
LEMMA ClassTypes ==
  ASSUME section \in Sections, strays \in Strays
  PROVE  /\ \A k \in Objects("typeinfo") : Object(k).class \in {"ni", "si", "vmi"}
         /\ \A k \in DOMAIN strays :
              /\ strays[k].kind \in {"vtable", "typeinfo", "data"}
              /\ strays[k].addr \in Nat
              /\ strays[k].addr \notin Base..Base + Len(Section) - 1
              /\ strays[k].class \in {"ni", "si", "vmi"} => strays[k].kind = "typeinfo"
              /\ strays[k].class # "pure"
<1>1. ASSUME NEW k \in Objects("typeinfo") PROVE Object(k).class \in {"ni", "si", "vmi"}
  BY ObjectWords DEF Objects, Typeinfos
<1>2. ASSUME NEW k \in DOMAIN strays
      PROVE  /\ strays[k].kind \in {"vtable", "typeinfo", "data"}
             /\ strays[k].addr \in Nat
             /\ strays[k].addr \notin Base..Base + Len(Section) - 1
             /\ strays[k].class \in {"ni", "si", "vmi"} => strays[k].kind = "typeinfo"
             /\ strays[k].class # "pure"
  <2>1. strays \in Seq([kind : {"typeinfo"}, class : {"ni", "si", "vmi"}, addr : Nat] \union
                       [kind : {"vtable", "data"}, class : {"none"}, addr : Nat])
    BY StraysAssumption
  <2>2. strays[k] \in [kind : {"typeinfo"}, class : {"ni", "si", "vmi"}, addr : Nat] \union
                      [kind : {"vtable", "data"}, class : {"none"}, addr : Nat]
    BY <1>2, <2>1, LenProperties, ElementOfSeq
  <2>3. strays[k].addr \notin Base..Base + Len(Section) - 1
    BY <1>2, StraysAssumption DEF Section
  <2>. QED
    BY <2>2, <2>3
<1>. QED
  BY <1>1, <1>2

\* pureset holds the pure virtual slots.
LEMMA PureAt ==
  ASSUME section \in Sections, strays \in Strays, Resolved, NEW a
  PROVE  a \in At("pure") <=>
           \E k \in DOMAIN section.objects : \E s \in DOMAIN Entries(Object(k)) :
             Entries(Object(k))[s] = Pure /\ a = EntryAddr(k, s)
<1>0. "pure" \in Classes
  BY DEF Classes
<1>1. ASSUME a \in At("pure")
      PROVE  \E k \in DOMAIN section.objects : \E s \in DOMAIN Entries(Object(k)) :
               Entries(Object(k))[s] = Pure /\ a = EntryAddr(k, s)
  <2>1. PICK r \in Relocations : OfClass(r, "pure") /\ r.off = a
    BY <1>1, Zenon DEF At
  <2>2. ~ \E k \in Objects("typeinfo") : r \in Against(Object(k).class, Addr(k))
    BY <1>0, <2>1, AgainstClass, ClassTypes
  <2>3. ~ \E k \in DOMAIN strays : r \in Against(strays[k].class, strays[k].addr)
    BY <1>0, <2>1, AgainstClass, ClassTypes
  <2>4. PICK k \in DOMAIN section.objects : \E s \in DOMAIN Entries(Object(k)) :
               r \in EntryRelocation(Entries(Object(k))[s], EntryAddr(k, s))
    BY <2>1, <2>2, <2>3, RelocationsAre, Zenon
  <2>. QED
    <3>1. PICK s \in DOMAIN Entries(Object(k)) :
             r \in EntryRelocation(Entries(Object(k))[s], EntryAddr(k, s))
      BY <2>4
    <3>2. r.off = EntryAddr(k, s) /\ (OfClass(r, "pure") => Entries(Object(k))[s] = Pure)
      BY <1>0, <3>1, EntryClass, Zenon
    <3>. QED
      BY <2>1, <3>2
<1>2. ASSUME NEW k \in DOMAIN section.objects, NEW s \in DOMAIN Entries(Object(k)),
             Entries(Object(k))[s] = Pure, a = EntryAddr(k, s)
      PROVE  a \in At("pure")
  <2>1. PICK r \in EntryRelocation(Entries(Object(k))[s], EntryAddr(k, s)) :
               r.off = a /\ OfClass(r, "pure")
    BY <1>0, <1>2, EntryClass, Zenon
  <2>2. r \in Relocations
    BY <2>1, RelocationsAre, Zenon
  <2>. QED
    BY <2>1, <2>2, Zenon DEF At
<1>. QED
  BY <1>1, <1>2, Zenon

\* relocmap holds the type_infos, of the section and others.
LEMMA ClassAt ==
  ASSUME section \in Sections, strays \in Strays, Resolved, NEW c \in {"ni", "si", "vmi"}, NEW a
  PROVE  a \in At(c) <=>
           \/ \E k \in Objects("typeinfo") : Object(k).class = c /\ Addr(k) = a
           \/ \E k \in DOMAIN strays : strays[k].class = c /\ strays[k].addr = a
<1>0. c \in Classes /\ c # "pure"
  BY DEF Classes
<1>1. ASSUME a \in At(c)
      PROVE  \/ \E k \in Objects("typeinfo") : Object(k).class = c /\ Addr(k) = a
             \/ \E k \in DOMAIN strays : strays[k].class = c /\ strays[k].addr = a
  <2>1. PICK r \in Relocations : OfClass(r, c) /\ r.off = a
    BY <1>1, Zenon DEF At
  <2>2. ~ \E k \in DOMAIN section.objects : \E s \in DOMAIN Entries(Object(k)) :
            r \in EntryRelocation(Entries(Object(k))[s], EntryAddr(k, s))
    BY <1>0, <2>1, EntryClass, Zenon
  <2>3. \/ \E k \in Objects("typeinfo") : r \in Against(Object(k).class, Addr(k))
        \/ \E k \in DOMAIN strays : r \in Against(strays[k].class, strays[k].addr)
    BY <2>2, RelocationsAre, Zenon
  <2>. QED
    <3>1. \A name, b : r \in Against(name, b) => name = c /\ b = a
      <4> SUFFICES ASSUME NEW name, NEW b, r \in Against(name, b) PROVE name = c /\ b = a
        OBVIOUS
      <4>1. r.off = b /\ (OfClass(r, c) => name = c)
        BY <1>0, AgainstClass
      <4>. QED
        BY <2>1, <4>1
    <3>. QED
      BY <2>3, <3>1
<1>2. ASSUME NEW k \in Objects("typeinfo"), Object(k).class = c, Addr(k) = a PROVE a \in At(c)
  <2>1. PICK r \in Against(Object(k).class, Addr(k)) : r.off = a /\ OfClass(r, c)
    <3>1. \E r \in Against(c, a) : r.off = a /\ OfClass(r, c)
      BY <1>0, AgainstClass
    <3>. QED
      BY <1>2, <3>1
  <2>2. r \in Relocations
    BY <2>1, RelocationsAre, Zenon
  <2>. QED
    BY <2>1, <2>2, Zenon DEF At
<1>3. ASSUME NEW k \in DOMAIN strays, strays[k].class = c, strays[k].addr = a PROVE a \in At(c)
  <2>1. PICK r \in Against(strays[k].class, strays[k].addr) : r.off = a /\ OfClass(r, c)
    <3>1. \E r \in Against(c, a) : r.off = a /\ OfClass(r, c)
      BY <1>0, AgainstClass
    <3>. QED
      BY <1>3, <3>1
  <2>2. r \in Relocations
    BY <2>1, RelocationsAre, Zenon
  <2>. QED
    BY <2>1, <2>2, Zenon DEF At
<1>. QED
  BY <1>1, <1>2, <1>3, Zenon
-----------------------------------------------------------------------------
(* One vtable.                                                               *)

\* What ReadRelocations leaves of the file.
Prepared ==
  /\ section \in Sections
  /\ strays \in Strays
  /\ Resolved
  /\ rodata = Section
  /\ pureset = At("pure")

\* The entries of an object, as words of the section.
LEMMA EntryWords ==
  ASSUME Prepared, NEW k \in DOMAIN section.objects, NEW s \in DOMAIN Entries(Object(k))
  PROVE  /\ Object(k).kind \in {"vtable", "data"}
         /\ Len(Header(Object(k))) = IF Object(k).kind = "vtable" THEN 2 ELSE 0
         /\ s \in Nat /\ s >= 1
         /\ Len(Header(Object(k))) + s \in 1..Len(Words(Object(k)))
         /\ EntryAddr(k, s) = (Addr(k) + (Len(Header(Object(k))) + s)) - 1
         /\ Words(Object(k))[Len(Header(Object(k))) + s] = Written(Entries(Object(k))[s])
<1>1. /\ Object(k).kind \in {"vtable", "typeinfo", "data"}
      /\ Object(k).kind = "vtable" => Object(k) \in Vtables
      /\ Object(k).kind = "data" => Object(k) \in Data
      /\ Addr(k) \in Nat
  BY ObjectWords, Layout DEF Prepared
<1>2. Object(k).kind # "typeinfo"
  <2>1. SUFFICES ASSUME Object(k).kind = "typeinfo" PROVE FALSE
    OBVIOUS
  <2>2. Entries(Object(k)) = <<>>
    BY <2>1 DEF Entries
  <2>. QED
    BY <2>2
<1> DEFINE entries == Len(Entries(Object(k)))
           header == Len(Header(Object(k)))
           all == Len(Words(Object(k)))
<1>3. /\ entries \in Nat /\ s \in 1..entries
      /\ header = IF Object(k).kind = "vtable" THEN 2 ELSE 0
      /\ all = header + entries
      /\ Words(Object(k))[header + s] = Written(Entries(Object(k))[s])
  BY <1>1, <1>2, TableWords
<1> HIDE DEF entries, header, all
<1>4. header \in Nat /\ s \in Nat /\ s >= 1 /\ header + s \in 1..all
  BY <1>3
<1>5. EntryAddr(k, s) = (Addr(k) + (header + s)) - 1
  <2>1. EntryAddr(k, s) = Addr(k) + header + s - 1
    BY DEF EntryAddr, header
  <2>. QED
    BY <1>1, <1>4, <2>1
<1>. QED
  BY <1>1, <1>2, <1>3, <1>4, <1>5 DEF header, all

\* A word of an object that is in pureset is a pure virtual slot of it.
LEMMA NotPure ==
  ASSUME Prepared, NEW k \in DOMAIN section.objects, NEW w \in 1..Len(Words(Object(k))),
         (Addr(k) + w) - 1 \in pureset
  PROVE  \E s \in DOMAIN Entries(Object(k)) :
           w = Len(Header(Object(k))) + s /\ Entries(Object(k))[s] = Pure
<1>1. PICK j \in DOMAIN section.objects : \E s \in DOMAIN Entries(Object(j)) :
        Entries(Object(j))[s] = Pure /\ (Addr(k) + w) - 1 = EntryAddr(j, s)
  BY PureAt DEF Prepared
<1>2. PICK s \in DOMAIN Entries(Object(j)) :
        Entries(Object(j))[s] = Pure /\ (Addr(k) + w) - 1 = EntryAddr(j, s)
  BY <1>1
<1> DEFINE v == Len(Header(Object(j))) + s
<1>3. v \in 1..Len(Words(Object(j))) /\ EntryAddr(j, s) = (Addr(j) + v) - 1
  BY EntryWords
<1> HIDE DEF v
<1>4. (Addr(j) + v) - 1 = (Addr(k) + w) - 1
  BY <1>2, <1>3
<1>5. j = k
  BY <1>3, <1>4, Places DEF Prepared
<1>6. v = w
  <2>1. /\ Addr(k) \in Nat /\ Len(Words(Object(k))) \in Nat
        /\ v \in 1..Len(Words(Object(k))) /\ w \in 1..Len(Words(Object(k)))
    BY <1>3, <1>5, ObjectWords, Layout DEF Prepared
  <2> HIDE DEF Prepared
  <2>2. v \in Int /\ w \in Int
    BY <2>1
  <2>. QED
    BY <1>4, <1>5, <2>1, <2>2
<1>. QED
  BY <1>2, <1>5, <1>6 DEF v

\* An entry ends the scan if it is a zero and no pure virtual slot.
LEMMA EntryStops ==
  ASSUME Prepared, NEW k \in DOMAIN section.objects, NEW s \in DOMAIN Entries(Object(k))
  PROVE  /\ Inside(EntryAddr(k, s))
         /\ Stops(EntryAddr(k, s)) <=> Entries(Object(k))[s] = Zero
         /\ Entries(Object(k))[s] # Zero => Word(EntryAddr(k, s)) = Entries(Object(k))[s]
<1> DEFINE header == Len(Header(Object(k)))
           w == header + s
           entry == Entries(Object(k))[s]
<1>1. /\ header \in Nat /\ s \in Nat
      /\ w \in 1..Len(Words(Object(k))) /\ EntryAddr(k, s) = (Addr(k) + w) - 1
      /\ Words(Object(k))[w] = Written(entry)
  BY EntryWords
<1>2. Inside(EntryAddr(k, s)) /\ Word(EntryAddr(k, s)) = Written(entry)
  <2> HIDE DEF w
  <2>1. Inside((Addr(k) + w) - 1) /\ Word((Addr(k) + w) - 1) = Words(Object(k))[w]
    BY <1>1, Places DEF Prepared
  <2>. QED
    BY <1>1, <2>1
<1>3. EntryAddr(k, s) \in pureset <=> entry = Pure
  <2>1. entry = Pure => EntryAddr(k, s) \in At("pure")
    BY PureAt DEF Prepared
  <2>2. ASSUME EntryAddr(k, s) \in pureset PROVE entry = Pure
    <3>1. (Addr(k) + w) - 1 \in pureset
      BY <1>1, <2>2
    <3>2. PICK t \in DOMAIN Entries(Object(k)) :
            w = header + t /\ Entries(Object(k))[t] = Pure
      <4> HIDE DEF w
      <4>. QED
        BY <1>1, <3>1, NotPure
    <3>3. t \in Nat
      BY EntryWords
    <3>4. t = s
      BY <1>1, <3>2, <3>3
    <3>. QED
      BY <3>2, <3>4
  <2>. QED
    BY <2>1, <2>2 DEF Prepared
<1> HIDE DEF entry
<1>4. entry # Pure /\ Written(entry) = 0 => entry = Zero
  BY DEF Written, Pure, Zero
<1>5. entry = Zero => entry # Pure /\ Written(entry) = 0
  BY DEF Written, Pure, Zero
<1>6. entry # Zero => Written(entry) = entry
  BY DEF Written
<1>. QED
  BY <1>2, <1>3, <1>4, <1>5, <1>6 DEF Stops, entry

\* The slots of a vtable.
LEMMA SlotStops ==
  ASSUME Prepared, NEW k \in Objects("vtable"), NEW s \in DOMAIN Object(k).slots
  PROVE  /\ Inside(Addr(k) + 1 + s)
         /\ Stops(Addr(k) + 1 + s) <=> Object(k).slots[s] = Zero
         /\ Object(k).slots[s] # Zero => Word(Addr(k) + 1 + s) = Object(k).slots[s]
<1>1. k \in DOMAIN section.objects /\ Object(k).kind = "vtable"
  BY DEF Objects
<1>2. Object(k) \in Vtables /\ Addr(k) \in Nat
  BY <1>1, ObjectWords, Layout DEF Prepared
<1>3. /\ s \in DOMAIN Entries(Object(k)) /\ Entries(Object(k))[s] = Object(k).slots[s]
      /\ Len(Header(Object(k))) = 2
  BY <1>2, VtableWords
<1>4. s \in Nat /\ EntryAddr(k, s) = (Addr(k) + (Len(Header(Object(k))) + s)) - 1
  BY <1>1, <1>3, EntryWords
<1>5. EntryAddr(k, s) = Addr(k) + 1 + s
  BY <1>2, <1>3, <1>4
<1>. QED
  BY <1>1, <1>3, <1>5, EntryStops

\* The first word of a vtable or type_info ends the scan of the one before it.
LEMMA FirstStops ==
  ASSUME Prepared, NEW k \in DOMAIN section.objects, Object(k).kind # "data"
  PROVE  Inside(Addr(k)) /\ Stops(Addr(k))
<1>1. Len(Words(Object(k))) \in Nat /\ Len(Words(Object(k))) >= 2 /\ Words(Object(k))[1] = 0
      /\ Addr(k) \in Nat
  BY ObjectWords, Layout DEF Prepared
<1>2. 1 \in 1..Len(Words(Object(k))) /\ (Addr(k) + 1) - 1 = Addr(k)
  BY <1>1
<1>3. Inside(Addr(k)) /\ Word(Addr(k)) = 0
  <2>1. /\ Inside((Addr(k) + 1) - 1)
        /\ Word((Addr(k) + 1) - 1) = Words(Object(k))[1]
    BY <1>2, Places DEF Prepared
  <2>. QED
    BY <1>1, <1>2, <2>1
<1>4. Addr(k) \notin pureset
  <2>1. SUFFICES ASSUME Addr(k) \in pureset PROVE FALSE
    OBVIOUS
  <2>2. PICK s \in DOMAIN Entries(Object(k)) : 1 = Len(Header(Object(k))) + s
    BY <1>2, <2>1, NotPure
  <2>3. s \in Nat /\ s >= 1 /\ Len(Header(Object(k))) = 2
    BY EntryWords
  <2>. QED
    BY <2>2, <2>3
<1>. QED
  BY <1>3, <1>4 DEF Stops

\* The scan sees every readable slot, and if the vtable is closed nothing else.
LEMMA Scan ==
  ASSUME Prepared, NEW k \in Objects("vtable"), NEW stop \in FirstStop(Addr(k) + 2)
  PROVE  /\ Addr(k) \in Nat /\ stop \in Nat /\ stop >= Addr(k) + 2
         /\ \A s \in Readable(k) : /\ s \in Nat /\ s >= 1 /\ s <= stop - Addr(k) - 2
                                   /\ Word(Addr(k) + 1 + s) = Object(k).slots[s]
         /\ Closed(k) => Inside(stop) /\ \A w \in 1..stop - Addr(k) - 2 : w \in Readable(k)
         /\ ~Inside(stop) => RunsOut(k)
<1> DEFINE last == Len(section.objects)
           size(j) == Len(Words(Object(j)))
           slots == Len(Object(k).slots)
           more == Len(Object(k).more)
<1>1. k \in DOMAIN section.objects /\ Object(k).kind = "vtable" /\ Object(k) \in Vtables
  <2>1. k \in DOMAIN section.objects /\ Object(k).kind = "vtable"
    BY DEF Objects
  <2>. QED
    BY <2>1, ObjectWords DEF Prepared
<1>2. /\ DOMAIN Object(k).slots = 1..slots /\ slots \in Nat /\ more \in Nat
      /\ size(k) = 2 + slots + more
      /\ (Object(k).more = <<>> => more = 0)
  BY <1>1, VtableWords, Zenon
<1>3. /\ last \in Nat /\ DOMAIN section.objects = 1..last /\ Base \in Nat /\ Len(Section) \in Nat
      /\ \A j \in 1..last :
           /\ Addr(j) \in Nat /\ Addr(j) >= Base
           /\ Addr(j) + size(j) = IF j < last THEN Addr(j + 1) ELSE Base + Len(Section)
           /\ \A i \in 1..j - 1 : Addr(i) + size(i) <= Addr(j)
  BY Layout DEF Prepared
<1>4. Len(rodata) \in Nat
  BY <1>3 DEF Prepared
<1>5. /\ stop \in Addr(k) + 2..Addr(k) + 2 + Len(rodata)
      /\ \A b \in Addr(k) + 2..stop - 1 : ~Stops(b)
  BY DEF FirstStop
<1>6. Addr(k) \in Nat /\ stop \in Nat /\ stop >= Addr(k) + 2 /\ Addr(k) >= Base
  BY <1>1, <1>3, <1>4, <1>5
<1>7. \A s \in Readable(k) : s \in 1..slots /\ \A t \in 1..s : Object(k).slots[t] # Zero
  BY <1>2 DEF Readable
<1>8. \A s \in 1..slots :
        /\ Inside(Addr(k) + 1 + s)
        /\ Stops(Addr(k) + 1 + s) <=> Object(k).slots[s] = Zero
        /\ Object(k).slots[s] # Zero => Word(Addr(k) + 1 + s) = Object(k).slots[s]
  BY <1>2, SlotStops
<1>8a. Stops(stop)
  BY DEF FirstStop
<1> HIDE DEF slots, more, size, last
<1>9. ASSUME NEW s \in Readable(k)
      PROVE  /\ s \in Nat /\ s >= 1 /\ s <= stop - Addr(k) - 2
             /\ Word(Addr(k) + 1 + s) = Object(k).slots[s]
  <2>1. s \in 1..slots /\ \A t \in 1..s : Object(k).slots[t] # Zero
    BY <1>7
  <2>2. Word(Addr(k) + 1 + s) = Object(k).slots[s]
    <3>1. s \in 1..s
      BY <1>2, <2>1
    <3>. QED
      BY <1>8, <2>1, <3>1
  <2>3. s <= stop - Addr(k) - 2
    <3>1. SUFFICES ASSUME ~(s <= stop - Addr(k) - 2) PROVE FALSE
      OBVIOUS
    <3> DEFINE t == stop - Addr(k) - 1
    <3>2. t \in 1..s /\ t \in 1..slots /\ Addr(k) + 1 + t = stop
      <4>1. slots \in Nat /\ s \in 1..slots
        BY <1>2, <2>1
      <4>. QED
        BY <1>6, <3>1, <4>1
    <3> HIDE DEF t
    <3>3. ~Stops(stop)
      BY <1>8, <2>1, <3>2
    <3>. QED
      BY <1>8a, <3>3
  <2>. QED
    BY <1>2, <2>1, <2>2, <2>3
<1>10. ASSUME NEW e \in Addr(k) + 2..Addr(k) + 2 + slots, Inside(e), Stops(e)
       PROVE  Inside(stop) /\ \A w \in 1..stop - Addr(k) - 2 : w \in Readable(k)
  <2>1. stop <= e
    BY <1>2, <1>5, <1>6, <1>10
  <2>2. Inside(stop)
    <3>1. e < End /\ stop \in Int /\ stop >= Base /\ End \in Int /\ e \in Int
      BY <1>2, <1>3, <1>4, <1>6, <1>10 DEF Inside, End
    <3>. QED
      BY <2>1, <3>1 DEF Inside
  <2>3. ASSUME NEW w \in 1..stop - Addr(k) - 2 PROVE w \in Readable(k)
    <3>1. w \in 1..slots
      BY <1>2, <1>6, <2>1
    <3>2. ASSUME NEW t \in 1..w PROVE Object(k).slots[t] # Zero
      <4>0. w \in Int /\ w <= stop - Addr(k) - 2 /\ t \in Int /\ 1 <= t /\ t <= w
        BY <1>6, <3>1
      <4>1. t \in 1..slots /\ Addr(k) + 1 + t \in Addr(k) + 2..stop - 1
        <5>1. slots \in Nat
          BY <1>2
        <5>. QED
          BY <1>6, <3>1, <4>0, <5>1
      <4>2. ~Stops(Addr(k) + 1 + t)
        BY <1>5, <4>1
      <4>. QED
        BY <1>8, <4>1, <4>2
    <3>. QED
      BY <1>2, <3>1, <3>2 DEF Readable
  <2>. QED
    BY <2>2, <2>3
<1>11. ASSUME Closed(k)
       PROVE  Inside(stop) /\ \A w \in 1..stop - Addr(k) - 2 : w \in Readable(k)
  <2>1. CASE Readable(k) # DOMAIN Object(k).slots
    <3>1. PICK s \in DOMAIN Object(k).slots : s \notin Readable(k)
      BY <2>1 DEF Readable
    <3>2. PICK t \in 1..s : Object(k).slots[t] = Zero
      BY <3>1 DEF Readable
    <3>3. t \in 1..slots /\ Addr(k) + 1 + t \in Addr(k) + 2..Addr(k) + 2 + slots
      BY <1>2, <1>6, <3>1, <3>2
    <3>4. Inside(Addr(k) + 1 + t) /\ Stops(Addr(k) + 1 + t)
      BY <1>8, <3>2, <3>3
    <3>. QED
      BY <1>10, <3>3, <3>4
  <2>2. CASE Object(k).more = <<>> /\ k < last /\ Object(k + 1).kind # "data"
    <3>1. k + 1 \in 1..last /\ Addr(k) + size(k) = Addr(k + 1) /\ Addr(k + 1) \in Nat
      BY <1>1, <1>3, <2>2
    <3>2. Inside(Addr(k + 1)) /\ Stops(Addr(k + 1))
      BY <1>3, <2>2, <3>1, FirstStops
    <3>5. Addr(k + 1) = Addr(k) + 2 + slots
      BY <1>2, <1>6, <2>2, <3>1
    <3>6. Addr(k) + 2 + slots \in Addr(k) + 2..Addr(k) + 2 + slots
      BY <1>2, <1>6
    <3>. QED
      BY <1>10, <3>2, <3>5, <3>6
  <2>. QED
    BY <1>11, <2>1, <2>2 DEF Closed, last
<1>12. ASSUME ~Inside(stop), NEW e \in Int, Addr(k) + 2 <= e, Inside(e), Stops(e)
       PROVE  FALSE
  <2>1. stop <= e
    BY <1>5, <1>6, <1>12
  <2>2. e < End /\ End \in Int
    BY <1>3, <1>4, <1>12 DEF Inside, End
  <2>3. Inside(stop)
    BY <1>3, <1>6, <1>12, <2>1, <2>2 DEF Inside
  <2>. QED
    BY <1>12, <2>3
<1>13. ASSUME ~Inside(stop) PROVE RunsOut(k)
  <2>1. SUFFICES ASSUME NEW j \in k + 1..last
                 PROVE  Object(j).kind = "data" /\ \A w \in DOMAIN Object(j).words : Object(j).words[w] # Zero
    BY DEF RunsOut, last
  <2>2. j \in 1..last /\ j > k /\ k \in 1..j - 1
    BY <1>1, <1>3, <2>1
  <2>3. Addr(k) + size(k) <= Addr(j) /\ Addr(j) \in Nat
    BY <1>3, <2>2, Zenon
  <2>4. Addr(k) + 2 <= Addr(j)
    BY <1>2, <1>6, <2>3
  <2>5. Object(j).kind = "data"
    <3>1. SUFFICES ASSUME Object(j).kind # "data" PROVE FALSE
      OBVIOUS
    <3>2. Inside(Addr(j)) /\ Stops(Addr(j))
      BY <1>3, <2>2, <3>1, FirstStops
    <3>. QED
      BY <1>12, <1>13, <2>3, <2>4, <3>2
  <2>6. Entries(Object(j)) = Object(j).words
    BY <2>5 DEF Entries
  <2>7. ASSUME NEW w \in DOMAIN Object(j).words, Object(j).words[w] = Zero PROVE FALSE
    <3>1. Inside(EntryAddr(j, w)) /\ Stops(EntryAddr(j, w))
      BY <1>3, <2>2, <2>6, <2>7, EntryStops
    <3>2. /\ w \in Nat /\ w >= 1 /\ Len(Header(Object(j))) = 0
          /\ EntryAddr(j, w) = (Addr(j) + (Len(Header(Object(j))) + w)) - 1
      BY <1>3, <2>2, <2>5, <2>6, <2>7, EntryWords
    <3>3. EntryAddr(j, w) \in Int /\ Addr(k) + 2 <= EntryAddr(j, w)
      BY <1>6, <2>3, <2>4, <3>2
    <3>. QED
      BY <1>12, <1>13, <3>1, <3>3
  <2>. QED
    BY <2>5, <2>7
<1>. QED
  BY <1>6, <1>9, <1>11, <1>13
-----------------------------------------------------------------------------
(* One type_info.                                                            *)

LEMMA Halves ==
  ASSUME NEW h \in Nat \ {0}, NEW f \in 0..h - 1, NEW m \in Nat
  PROVE  (f + h * m) \div h = m /\ (f + h * m) % h = f
OBVIOUS

LEMMA Bytes ==
  ASSUME NEW f \in 0..255, NEW offset \in Int
  PROVE  (offset * 256 + f) \div 256 = offset /\ (offset * 256 + f) % 256 = f
OBVIOUS

\* The class ReadRelocations found for each address.
ClassMap ==
  relocmap = [a \in At("ni") \union At("si") \union At("vmi") |->
                CHOOSE c \in {"ni", "si", "vmi"} : a \in At(c)]

LEMMA ClassMapped ==
  ASSUME section \in Sections, strays \in Strays, Resolved, ClassMap, NEW a \in DOMAIN relocmap
  PROVE  /\ relocmap[a] \in {"ni", "si", "vmi"}
         /\ \/ \E k \in Objects("typeinfo") : Object(k).class = relocmap[a] /\ Addr(k) = a
            \/ \E k \in DOMAIN strays : strays[k].class = relocmap[a] /\ strays[k].addr = a
<1>1. \E c \in {"ni", "si", "vmi"} : a \in At(c)
  BY DEF ClassMap
<1>2. relocmap[a] = CHOOSE c \in {"ni", "si", "vmi"} : a \in At(c)
  BY DEF ClassMap
<1>3. relocmap[a] \in {"ni", "si", "vmi"} /\ a \in At(relocmap[a])
  <2> DEFINE Known(c) == a \in At(c)
  <2>1. \E c \in {"ni", "si", "vmi"} : Known(c)
    BY <1>1
  <2>2. relocmap[a] = CHOOSE c \in {"ni", "si", "vmi"} : Known(c)
    BY <1>2
  <2> HIDE DEF Known
  <2>3. relocmap[a] \in {"ni", "si", "vmi"} /\ Known(relocmap[a])
    BY <2>1, <2>2, Zenon
  <2>. QED
    BY <2>3 DEF Known
<1>. QED
  BY <1>3, ClassAt

\* No other type_info and no stray symbol lies where an object begins.
LEMMA Apart ==
  ASSUME section \in Sections, strays \in Strays,
         NEW k \in DOMAIN section.objects, Object(k).kind # "data"
  PROVE  /\ \A j \in DOMAIN section.objects : Object(j).kind # "data" /\ Addr(j) = Addr(k) => j = k
         /\ \A j \in DOMAIN strays : strays[j].addr # Addr(k)
<1> DEFINE size(j) == Len(Words(Object(j)))
           last == Len(section.objects)
<1>1. /\ last \in Nat /\ DOMAIN section.objects = 1..last /\ Len(Section) \in Nat /\ Base \in Nat
      /\ \A j \in 1..last :
           /\ Addr(j) \in Nat /\ Addr(j) >= Base
           /\ Addr(j) + size(j) = IF j < last THEN Addr(j + 1) ELSE Base + Len(Section)
           /\ \A i \in 1..j - 1 : Addr(i) + size(i) <= Addr(j)
  BY Layout
<1>2. \A j \in 1..last : size(j) \in Nat /\ (Object(j).kind # "data" => size(j) >= 2)
  BY <1>1, ObjectWords
<1> HIDE DEF size, last
<1>3. ASSUME NEW j \in 1..last, Object(j).kind # "data", Addr(j) = Addr(k), j # k PROVE FALSE
  <2>1. k \in 1..last
    BY <1>1
  <2>2. Addr(j) + size(j) <= Addr(k) \/ Addr(k) + size(k) <= Addr(j)
    <3>1. CASE j < k
      <4>1. j \in 1..k - 1
        BY <1>1, <2>1, <3>1
      <4>. QED
        BY <1>1, <2>1, <4>1, Zenon
    <3>2. CASE k < j
      <4>1. k \in 1..j - 1
        BY <1>1, <2>1, <3>2
      <4>. QED
        BY <1>1, <1>3, <4>1, Zenon
    <3>3. j \in Int /\ k \in Int
      BY <1>1, <2>1
    <3>. QED
      BY <1>3, <3>1, <3>2, <3>3
  <2>3. /\ Addr(j) = Addr(k) /\ Addr(k) \in Nat
        /\ size(j) \in Nat /\ size(j) >= 2 /\ size(k) \in Nat /\ size(k) >= 2
    BY <1>1, <1>2, <1>3, <2>1, Zenon
  <2>. QED
    BY <2>2, <2>3
<1>4. Addr(k) \in Base..Base + Len(Section) - 1
  <2>1. k \in 1..last /\ last \in 1..last /\ Addr(last) + size(last) = Base + Len(Section)
    BY <1>1
  <2>2. k = last \/ Addr(k) + size(k) <= Addr(last)
    <3>1. SUFFICES ASSUME k # last PROVE Addr(k) + size(k) <= Addr(last)
      OBVIOUS
    <3>2. k \in 1..last - 1
      BY <1>1, <2>1, <3>1
    <3>. QED
      BY <1>1, <2>1, <3>2, Zenon
  <2>3. size(k) \in Nat /\ size(k) >= 2 /\ size(last) \in Nat /\ Addr(k) \in Nat /\ Addr(last) \in Nat
        /\ Addr(k) >= Base
    BY <1>1, <1>2, <2>1
  <2>. QED
    BY <1>1, <2>1, <2>2, <2>3
<1>. QED
  BY <1>1, <1>3, <1>4, ClassTypes

\* The rows of a type_info.
Described(k) ==
  [type |-> [ni |-> 0, si |-> 1, vmi |-> 2][Object(k).class],
   flags |-> Object(k).flags,
   bases |-> {[base |-> Object(k).bases[b].base, offset |-> Object(k).bases[b].offset,
               flags |-> Object(k).bases[b].flags] : b \in DOMAIN Object(k).bases}]

\* The words of an object, as the scan reads them from its address.
LEMMA ReadWord ==
  ASSUME Prepared, NEW k \in DOMAIN section.objects, NEW w \in Nat, w < Len(Words(Object(k)))
  PROVE  Inside(Addr(k) + w) /\ Word(Addr(k) + w) = Words(Object(k))[w + 1]
<1>1. Len(Words(Object(k))) \in Nat /\ Addr(k) \in Nat
  BY ObjectWords, Layout DEF Prepared
<1>2. w + 1 \in 1..Len(Words(Object(k))) /\ (Addr(k) + (w + 1)) - 1 = Addr(k) + w
  BY <1>1
<1>3. /\ Inside((Addr(k) + (w + 1)) - 1)
      /\ Word((Addr(k) + (w + 1)) - 1) = Words(Object(k))[w + 1]
  BY <1>2, Places DEF Prepared
<1>. QED
  BY <1>2, <1>3

\* The scan finds the class of a type_info, all its words, and what they say.
LEMMA Describes ==
  ASSUME Prepared, ClassMap, NEW k \in Objects("typeinfo")
  PROVE  /\ Addr(k) \in DOMAIN relocmap /\ relocmap[Addr(k)] = Object(k).class
         /\ Object(k).class # "ni" =>
              Inside(Addr(k) + 2) /\ Inside(InfoEnd(Addr(k), Object(k).class) - 1)
         /\ Info(Addr(k), Object(k).class) = Described(k)
<1> DEFINE obj == Object(k)
           a == Addr(k)
           size == Len(obj.bases)
           all == Len(Words(obj))
           rows == {[base |-> obj.bases[b].base, offset |-> obj.bases[b].offset,
                     flags |-> obj.bases[b].flags] : b \in DOMAIN obj.bases}
<1>0. Described(k) = [type |-> [ni |-> 0, si |-> 1, vmi |-> 2][obj.class],
                      flags |-> obj.flags, bases |-> rows]
  BY DEF Described
<1>1. k \in DOMAIN section.objects /\ obj.kind = "typeinfo"
  BY DEF Objects
<1>2. obj \in Typeinfos /\ Consistent(obj)
  BY <1>1, ObjectWords DEF Prepared
<1>3. obj.class \in {"ni", "si", "vmi"} /\ obj.flags \in 0..Half - 1
      /\ obj.bases \in Seq([base : Int, offset : Int, flags : 0..255])
  BY <1>2 DEF Typeinfos
<1>4. /\ size \in Nat /\ DOMAIN obj.bases = 1..size
      /\ \A b \in 1..size : obj.bases[b] \in [base : Int, offset : Int, flags : 0..255]
  BY <1>3, LenProperties, ElementOfSeq
<1>5. a \in Nat
  BY <1>1, Layout DEF Prepared
<1>6. a \in DOMAIN relocmap /\ relocmap[a] = obj.class
  <2>1. a \in At(obj.class)
    BY <1>3, ClassAt, Zenon DEF Prepared
  <2>2. a \in DOMAIN relocmap
    BY <1>3, <2>1 DEF ClassMap
  <2>3. \/ \E j \in Objects("typeinfo") : Object(j).class = relocmap[a] /\ Addr(j) = a
        \/ \E j \in DOMAIN strays : strays[j].class = relocmap[a] /\ strays[j].addr = a
    BY <2>2, ClassMapped DEF Prepared
  <2>4. /\ \A j \in DOMAIN section.objects : Object(j).kind # "data" /\ Addr(j) = a => j = k
        /\ \A j \in DOMAIN strays : strays[j].addr # a
    BY <1>1, Apart DEF Prepared
  <2>5. \A j \in Objects("typeinfo") : j \in DOMAIN section.objects /\ Object(j).kind # "data"
    BY DEF Objects
  <2>. QED
    BY <2>2, <2>3, <2>4, <2>5
<1>7. \A w \in Nat : w < all => Inside(a + w) /\ Word(a + w) = Words(obj)[w + 1]
  BY <1>1, ReadWord
<1> DEFINE Read(i) == Word(a + i) = Words(obj)[i + 1]
<1>8. CASE obj.class = "ni"
  <2>1. obj.flags = 0 /\ obj.bases = <<>>
    BY <1>2, <1>8 DEF Consistent
  <2>2. DOMAIN obj.bases = {}
    BY <2>1
  <2>3. rows = {}
    BY <2>2
  <2> HIDE DEF rows
  <2>4. Info(a, obj.class) = Described(k)
    BY <1>0, <1>8, <2>1, <2>3 DEF Info
  <2>. QED
    BY <1>6, <1>8, <2>4
<1>9. CASE obj.class = "si"
  <2>1. obj.flags = 0 /\ size = 1 /\ obj.bases[1].offset = 0 /\ obj.bases[1].flags = 0
    BY <1>2, <1>9 DEF Consistent
  <2>2. all = 3 /\ Words(obj)[3] = obj.bases[1].base
    BY <1>2, <1>9, InfoWords
  <2>3. Inside(a + 2) /\ Word(a + 2) = obj.bases[1].base
    <3>1. 2 \in Nat /\ 2 < all /\ 2 + 1 = 3
      BY <2>2
    <3>. QED
      BY <1>7, <2>2, <3>1
  <2>4. InfoEnd(a, obj.class) = a + 3
    BY <1>9 DEF InfoEnd
  <2>5. InfoEnd(a, obj.class) - 1 = a + 2
    BY <1>5, <2>4
  <2>6. rows = {[base |-> Word(a + 2), offset |-> 0, flags |-> 0]}
    <3>1. DOMAIN obj.bases = {1}
      BY <1>4, <2>1
    <3>. QED
      BY <2>1, <2>3, <3>1
  <2> HIDE DEF rows
  <2>7. Info(a, obj.class) = Described(k)
    BY <1>0, <1>9, <2>1, <2>6 DEF Info
  <2>. QED
    BY <1>6, <2>3, <2>5, <2>7
<1>10. CASE obj.class = "vmi"
  <2>1. /\ all = 3 + 2 * size
        /\ Words(obj)[3] = obj.flags + Half * size
        /\ \A b \in 1..size :
             /\ Words(obj)[2 + 2 * b] = obj.bases[b].base
             /\ Words(obj)[3 + 2 * b] = obj.bases[b].offset * 256 + obj.bases[b].flags
    BY <1>2, <1>10, InfoWords
  <2> HIDE DEF size, all
  <2>2. Inside(a + 2) /\ Word(a + 2) = obj.flags + Half * size
    <3>1. 2 \in Nat /\ 2 < all /\ 2 + 1 = 3
      BY <1>4, <2>1
    <3>. QED
      BY <1>7, <2>1, <3>1
  <2>3. Word(a + 2) \div Half = size /\ Word(a + 2) % Half = obj.flags
    <3>1. /\ (obj.flags + Half * size) \div Half = size
          /\ (obj.flags + Half * size) % Half = obj.flags
      BY <1>3, <1>4, Halves, SizesAssumption, Zenon
    <3>. QED
      BY <2>2, <3>1, Zenon
  <2>4. InfoEnd(a, obj.class) - 1 = a + (2 + 2 * size)
    <3>1. InfoEnd(a, obj.class) = a + 3 + 2 * size
      BY <1>10, <2>2, <2>3 DEF InfoEnd
    <3>. QED
      BY <1>4, <1>5, <3>1
  <2>5. Inside(InfoEnd(a, obj.class) - 1)
    <3>1. 2 + 2 * size \in Nat /\ 2 + 2 * size < all
      BY <1>4, <2>1
    <3>. QED
      BY <1>7, <2>4, <3>1
  <2>6. ASSUME NEW b \in 1..size
        PROVE  BaseAt(a + 1 + 2 * b) = [base |-> obj.bases[b].base, offset |-> obj.bases[b].offset,
                                        flags |-> obj.bases[b].flags]
    <3> DEFINE rec == obj.bases[b]
               p == a + 1 + 2 * b
               w == 1 + 2 * b
    <3>1. /\ w \in Nat /\ w < all /\ w + 1 = 2 + 2 * b /\ p = a + w
          /\ w + 1 \in Nat /\ w + 1 < all /\ (w + 1) + 1 = 3 + 2 * b /\ p + 1 = a + (w + 1)
      BY <1>4, <1>5, <2>1
    <3>2. Word(p) = rec.base /\ Word(p + 1) = rec.offset * 256 + rec.flags
      <4> HIDE DEF w, p, rec
      <4>1. Word(a + w) = Words(obj)[w + 1] /\ Word(a + (w + 1)) = Words(obj)[(w + 1) + 1]
        BY <1>7, <3>1
      <4>2. Word(p) = Words(obj)[2 + 2 * b] /\ Word(p + 1) = Words(obj)[3 + 2 * b]
        BY <3>1, <4>1
      <4>. QED
        BY <2>1, <4>2 DEF rec
    <3>3. rec.offset \in Int /\ rec.flags \in 0..255
      <4>1. rec \in [base : Int, offset : Int, flags : 0..255]
        BY <1>4
      <4> HIDE DEF rec
      <4>. QED
        BY <4>1
    <3>4. Word(p + 1) \div 256 = rec.offset /\ Word(p + 1) % 256 = rec.flags
      <4> HIDE DEF w, p, rec
      <4>1. /\ (rec.offset * 256 + rec.flags) \div 256 = rec.offset
            /\ (rec.offset * 256 + rec.flags) % 256 = rec.flags
        BY <3>3, Bytes, Zenon
      <4>. QED
        BY <3>2, <4>1, Zenon
    <3>. QED
      BY <3>2, <3>4 DEF BaseAt
  <2>7. rows = {BaseAt(a + 1 + 2 * b) : b \in 1..Word(a + 2) \div Half}
    <3>1. rows = {[base |-> obj.bases[b].base, offset |-> obj.bases[b].offset,
                   flags |-> obj.bases[b].flags] : b \in 1..size}
      BY <1>4
    <3>2. {BaseAt(a + 1 + 2 * b) : b \in 1..Word(a + 2) \div Half} =
            {BaseAt(a + 1 + 2 * b) : b \in 1..size}
      BY <2>3
    <3>. QED
      BY <2>6, <3>1, <3>2
  <2> HIDE DEF rows
  <2>8. Info(a, obj.class) = Described(k)
    <3> DEFINE read == {BaseAt(a + 1 + 2 * b) : b \in 1..Word(a + 2) \div Half}
    <3>1. Info(a, obj.class) = [type |-> 2, flags |-> Word(a + 2) % Half, bases |-> read]
      BY <1>10 DEF Info
    <3>2. rows = read
      BY <2>7
    <3> HIDE DEF read
    <3>. QED
      BY <1>0, <1>10, <2>3, <3>1, <3>2
  <2>. QED
    BY <1>6, <2>2, <2>5, <2>8
<1>. QED
  BY <1>3, <1>8, <1>9, <1>10
-----------------------------------------------------------------------------
(* The view, the symbols, and the rows.                                      *)

LEMMA Small ==
  ASSUME NEW m \in Nat \ {0}, NEW x \in Nat, x < m
  PROVE  x % m = x
OBVIOUS

\* In the first 4 GiB of a file, the view shows the section.
LEMMA ViewIsSection ==
  ASSUME section \in Sections, sh_offset \in FileOffsets, Within
  PROVE  View(sh_offset, Len(Section)) = Section
<1> DEFINE pad == [w \in 1..sh_offset |-> 5]
           tail == <<5, 5>>
           front == pad \o Section
           m == Len(Section)
<1>1. sh_offset \in Nat /\ Section \in Seq(Int) /\ m \in Nat
  BY OffsetsAssumption, Layout
<1>2. pad \in Seq(Int) /\ Len(pad) = sh_offset
  <2>1. pad \in [1..sh_offset -> Int]
    OBVIOUS
  <2> HIDE DEF pad
  <2>. QED
    BY <1>1, <2>1, Indexed
<1>3. tail \in Seq(Int)
  OBVIOUS
<1>4. File = front \o tail
  BY DEF File
<1> HIDE DEF pad, tail
<1>5. front \in Seq(Int) /\ Len(front) = sh_offset + m /\ \A w \in 1..m : front[sh_offset + w] = Section[w]
  <2>1. /\ front \in Seq(Int) /\ Len(front) = Len(pad) + Len(Section)
        /\ \A w \in 1..Len(Section) : front[Len(pad) + w] = Section[w]
    BY <1>1, <1>2, Joined
  <2> HIDE DEF front
  <2>. QED
    BY <1>2, <2>1
<1> HIDE DEF front
<1>6. \A w \in 1..Len(front) : File[w] = front[w]
  <2> DEFINE whole == front \o tail
  <2>1. \A w \in 1..Len(front) : whole[w] = front[w]
    BY <1>3, <1>5, Joined
  <2>2. File = whole
    BY <1>4
  <2> HIDE DEF whole
  <2>. QED
    BY <2>1, <2>2
<1>7. \A w \in 1..m : Section[w] \in Int
  BY <1>1, ElementOfSeq
<1> DEFINE first == sh_offset + 1
           final == sh_offset + m
<1>8. View(sh_offset, Len(Section)) = SubSeq(File, first, final)
  <2>1. sh_offset % Dword = sh_offset /\ m % Dword = m
    BY <1>1, Small, SizesAssumption DEF Within
  <2>. QED
    BY <2>1 DEF View
<1>9. \A w \in 1..m : File[sh_offset + w] = Section[w]
  <2>1. SUFFICES ASSUME NEW w \in 1..m PROVE File[sh_offset + w] = Section[w]
    OBVIOUS
  <2>2. sh_offset + w \in 1..Len(front)
    BY <1>1, <1>5
  <2>. QED
    BY <1>5, <1>6, <2>2
<1> HIDE DEF m
<1>10. first \in Int /\ final \in Int /\ \A i \in first..final : File[i] \in Int
  <2>1. SUFFICES ASSUME NEW i \in first..final PROVE File[i] \in Int
    BY <1>1
  <2>2. i - sh_offset \in 1..m /\ sh_offset + (i - sh_offset) = i
    BY <1>1
  <2>. QED
    BY <1>7, <1>9, <2>2
<1> DEFINE seen == SubSeq(File, first, final)
<1>11. /\ seen \in Seq(Int)
       /\ Len(seen) = IF first <= final THEN final - first + 1 ELSE 0
       /\ \A i \in 1..final - first + 1 : seen[i] = File[first + i - 1]
  <2> HIDE DEF first, final
  <2>. QED
    BY <1>10, SubSeqProperties
<1>12. Len(seen) = m /\ \A i \in 1..m : seen[i] = Section[i]
  <2>1. Len(seen) = m /\ final - first + 1 = m
    BY <1>1, <1>11
  <2>2. ASSUME NEW i \in 1..m PROVE seen[i] = Section[i]
    <3>1. first + i - 1 = sh_offset + i
      BY <1>1
    <3>. QED
      BY <1>9, <1>11, <2>1, <3>1
  <2>. QED
    BY <2>1, <2>2
<1> HIDE DEF seen
<1>13. Len(seen) = Len(Section) /\ \A i \in 1..Len(seen) : seen[i] = Section[i]
  BY <1>12 DEF m
<1>14. seen = Section
  BY <1>1, <1>11, <1>13, SeqEqual
<1>. QED
  BY <1>8, <1>14 DEF seen

\* A symbol is an object's or a stray one.
LEMMA SymbolIs ==
  ASSUME section \in Sections, strays \in Strays, n \in Nat, n >= 1
  PROVE  /\ n \in DOMAIN Symbols =>
              \/ /\ n \in DOMAIN section.objects
                 /\ Symbols[n].kind = Object(n).kind /\ Symbols[n].addr = Addr(n)
              \/ /\ n \notin DOMAIN section.objects
                 /\ \E j \in DOMAIN strays : /\ Symbols[n].kind = strays[j].kind
                                             /\ Symbols[n].addr = strays[j].addr
         /\ n \notin DOMAIN Symbols => \A k \in DOMAIN section.objects : k < n
<1> DEFINE last == Len(section.objects)
           further == Len(strays)
<1>1. last \in Nat /\ DOMAIN section.objects = 1..last
  BY Layout
<1>2. further \in Nat /\ DOMAIN strays = 1..further
  BY StraysAssumption, LenProperties
<1>3. DOMAIN Symbols = 1..last + further
  BY DEF Symbols
<1>4. \A i \in 1..last + further :
        Symbols[i] = IF i \in 1..last THEN [kind |-> Object(i).kind, addr |-> Addr(i)]
                     ELSE [kind |-> strays[i - last].kind, addr |-> strays[i - last].addr]
  BY <1>1 DEF Symbols
<1> HIDE DEF last, further
<1>5. CASE n \in 1..last
  <2>1. n \in 1..last + further
    BY <1>1, <1>2, <1>5
  <2>. QED
    BY <1>1, <1>3, <1>4, <1>5, <2>1
<1>6. CASE n \in 1..last + further /\ n \notin 1..last
  <2>1. n - last \in 1..further
    BY <1>1, <1>2, <1>6
  <2>2. Symbols[n] = [kind |-> strays[n - last].kind, addr |-> strays[n - last].addr]
    BY <1>4, <1>6
  <2>. QED
    BY <1>1, <1>2, <1>3, <1>6, <2>1, <2>2
<1>7. CASE n \notin 1..last + further
  BY <1>1, <1>2, <1>3, <1>7
<1>. QED
  BY <1>5, <1>6, <1>7

\* The words kept of a vtable: its slots, and nothing else if it is closed.
GoodVtable(k) ==
  /\ Len(vtables[Addr(k)]) \in Nat
  /\ \A s \in Readable(k) : /\ s \in 1..Len(vtables[Addr(k)])
                            /\ vtables[Addr(k)][s] = Object(k).slots[s]
  /\ Closed(k) => \A w \in 1..Len(vtables[Addr(k)]) : w \in Readable(k)

\* What Fill writes.
VtableRows ==
  UNION {{<<a, idx, vtables[a][idx + 1]>> : idx \in 0..Len(vtables[a]) - 1} : a \in DOMAIN vtables}
RootRows == {<<a, typeinfos[a].type, typeinfos[a].flags>> : a \in DOMAIN typeinfos}
DefRows ==
  UNION {{<<a, b.base, b.offset, b.flags>> : b \in typeinfos[a].bases} : a \in DOMAIN typeinfos}

LEMMA SlotsFilled ==
  ASSUME NEW k, Addr(k) \in DOMAIN vtables, GoodVtable(k)
  PROVE  /\ SlotRows(k) \subseteq VtableRows
         /\ Closed(k) => Rows(VtableRows, Addr(k)) = SlotRows(k)
<1> DEFINE len == Len(vtables[Addr(k)])
           of(a) == {<<a, idx, vtables[a][idx + 1]>> : idx \in 0..Len(vtables[a]) - 1}
<1>1. /\ len \in Nat
      /\ \A s \in Readable(k) : s \in 1..len /\ vtables[Addr(k)][s] = Object(k).slots[s]
      /\ Closed(k) => \A w \in 1..len : w \in Readable(k)
  BY Zenon DEF GoodVtable
<1>2. \A row : row \in VtableRows <=> \E a \in DOMAIN vtables : row \in of(a)
  BY Zenon DEF VtableRows
<1>3. \A row : row \in of(Addr(k)) <=>
                 \E idx \in 0..len - 1 : row = <<Addr(k), idx, vtables[Addr(k)][idx + 1]>>
  BY Zenon
<1>4. \A a : \A row \in of(a) : row[1] = a
  OBVIOUS
<1> HIDE DEF len, of
<1>5. ASSUME NEW row \in SlotRows(k) PROVE row \in VtableRows
  <2>1. PICK s \in Readable(k) : row = <<Addr(k), s - 1, Object(k).slots[s]>>
    BY Zenon DEF SlotRows
  <2>2. s \in 1..len /\ vtables[Addr(k)][s] = Object(k).slots[s]
    BY <1>1, <2>1
  <2>3. s - 1 \in 0..len - 1 /\ (s - 1) + 1 = s
    BY <1>1, <2>2
  <2>4. row = <<Addr(k), s - 1, vtables[Addr(k)][(s - 1) + 1]>>
    BY <2>1, <2>2, <2>3
  <2>5. row \in of(Addr(k))
    BY <1>3, <2>3, <2>4
  <2>. QED
    BY <1>2, <2>5
<1>6. ASSUME Closed(k), NEW row \in VtableRows, row[1] = Addr(k) PROVE row \in SlotRows(k)
  <2>1. row \in of(Addr(k))
    BY <1>2, <1>4, <1>6
  <2>2. PICK idx \in 0..len - 1 : row = <<Addr(k), idx, vtables[Addr(k)][idx + 1]>>
    BY <1>3, <2>1
  <2> DEFINE w == idx + 1
  <2>3. w \in 1..len /\ idx = w - 1
    BY <1>1, <2>2
  <2>4. w \in Readable(k) /\ vtables[Addr(k)][w] = Object(k).slots[w]
    BY <1>1, <1>6, <2>3
  <2>5. row = <<Addr(k), w - 1, Object(k).slots[w]>>
    BY <2>2, <2>3, <2>4
  <2> HIDE DEF w
  <2>. QED
    BY <2>4, <2>5, Zenon DEF SlotRows
<1>7. \A row \in SlotRows(k) : row[1] = Addr(k)
  BY DEF SlotRows
<1>. QED
  BY <1>5, <1>6, <1>7 DEF Rows

LEMMA InfoFilled ==
  ASSUME NEW k, Addr(k) \in DOMAIN typeinfos, typeinfos[Addr(k)] = Described(k)
  PROVE  Rows(DefRows, Addr(k)) = BaseRows(k) /\ Rows(RootRows, Addr(k)) = {RootRow(k)}
<1> DEFINE of(a) == {<<a, b.base, b.offset, b.flags>> : b \in typeinfos[a].bases}
           rec(b) == [base |-> Object(k).bases[b].base, offset |-> Object(k).bases[b].offset,
                      flags |-> Object(k).bases[b].flags]
<1>1. /\ typeinfos[Addr(k)].type = [ni |-> 0, si |-> 1, vmi |-> 2][Object(k).class]
      /\ typeinfos[Addr(k)].flags = Object(k).flags
      /\ typeinfos[Addr(k)].bases = {rec(b) : b \in DOMAIN Object(k).bases}
  BY DEF Described
<1>2. \A row : row \in DefRows <=> \E a \in DOMAIN typeinfos : row \in of(a)
  BY Zenon DEF DefRows
<1>3. \A a : \A row \in of(a) : row[1] = a
  OBVIOUS
<1>4. of(Addr(k)) = BaseRows(k)
  <2>1. \A row : row \in of(Addr(k)) <=>
          \E b \in typeinfos[Addr(k)].bases : row = <<Addr(k), b.base, b.offset, b.flags>>
    BY Zenon
  <2>2. \A row : row \in BaseRows(k) <=>
          \E b \in DOMAIN Object(k).bases :
            row = <<Addr(k), Object(k).bases[b].base, Object(k).bases[b].offset,
                    Object(k).bases[b].flags>>
    BY Zenon DEF BaseRows
  <2>3. \A b : /\ rec(b).base = Object(k).bases[b].base /\ rec(b).offset = Object(k).bases[b].offset
               /\ rec(b).flags = Object(k).bases[b].flags
    OBVIOUS
  <2> HIDE DEF of, rec
  <2>4. ASSUME NEW row \in of(Addr(k)) PROVE row \in BaseRows(k)
    <3>1. PICK r \in typeinfos[Addr(k)].bases : row = <<Addr(k), r.base, r.offset, r.flags>>
      BY <2>1
    <3>2. PICK b \in DOMAIN Object(k).bases : r = rec(b)
      BY <1>1, <3>1, Zenon
    <3>. QED
      BY <2>2, <2>3, <3>1, <3>2
  <2>5. ASSUME NEW row \in BaseRows(k) PROVE row \in of(Addr(k))
    <3>1. PICK b \in DOMAIN Object(k).bases :
            row = <<Addr(k), Object(k).bases[b].base, Object(k).bases[b].offset,
                    Object(k).bases[b].flags>>
      BY <2>2
    <3>2. rec(b) \in typeinfos[Addr(k)].bases
      BY <1>1, Zenon
    <3>3. row = <<Addr(k), rec(b).base, rec(b).offset, rec(b).flags>>
      BY <2>3, <3>1
    <3>. QED
      BY <2>1, <3>2, <3>3
  <2>. QED
    BY <2>4, <2>5
<1> HIDE DEF of
<1>5. Rows(DefRows, Addr(k)) = BaseRows(k)
  BY <1>2, <1>3, <1>4 DEF Rows
<1>6. \A row : row \in RootRows <=>
        \E a \in DOMAIN typeinfos : row = <<a, typeinfos[a].type, typeinfos[a].flags>>
  BY Zenon DEF RootRows
<1>7. RootRow(k) = <<Addr(k), typeinfos[Addr(k)].type, typeinfos[Addr(k)].flags>>
  BY <1>1 DEF RootRow
<1>8. ASSUME NEW row \in RootRows, row[1] = Addr(k) PROVE row = RootRow(k)
  <2>1. PICK a \in DOMAIN typeinfos : row = <<a, typeinfos[a].type, typeinfos[a].flags>>
    BY <1>6
  <2>2. a = Addr(k)
    BY <1>8, <2>1
  <2>. QED
    BY <1>7, <2>1, <2>2
<1>9. RootRow(k) \in RootRows /\ RootRow(k)[1] = Addr(k)
  BY <1>6, <1>7
<1>10. Rows(RootRows, Addr(k)) = {RootRow(k)}
  BY <1>8, <1>9 DEF Rows
<1>. QED
  BY <1>5, <1>10
-----------------------------------------------------------------------------
(* The inductive invariant: what each step of the preparation has found, and  *)
(* that the objects passed by the scan were kept as they are.                 *)

Typed ==
  /\ section \in Sections /\ strays \in Strays /\ dynsym \in Dynsyms /\ sh_offset \in FileOffsets
  /\ n \in Nat /\ n >= 1
  /\ pc \in {"section", "classes", "failed", "relocations", "symbols", "crashed", "done"}

Prologue ==
  pc \in {"section", "classes", "relocations"} => n = 1 /\ typeinfos = << >>

Viewed == Within /\ pc # "section" => rodata = Section

ClassesFound == pc \in {"relocations", "symbols"} => Resolved

Mapping == pc = "symbols" => ClassMap /\ pureset = At("pure")

Scanned ==
  Within /\ pc = "symbols" =>
    /\ \A k \in Objects("vtable") \ skipped :
         k < n => Addr(k) \in DOMAIN vtables /\ GoodVtable(k)
    /\ \A k \in Objects("typeinfo") :
         /\ k < n => k \in skipped \/ Addr(k) \in DOMAIN typeinfos
         /\ Addr(k) \in DOMAIN typeinfos => typeinfos[Addr(k)] = Described(k)

Preparing == Typed /\ Prologue /\ Viewed /\ ClassesFound /\ Mapping

ScanInv == Preparing /\ Scanned /\ RowsRecovered /\ CrashNeedsStray

\* What does not depend on the progress of the scan.
LEMMA Fixed ==
  ASSUME section' = section, sh_offset' = sh_offset
  PROVE  /\ Within' = Within /\ Section' = Section
         /\ \A kind : Objects(kind)' = Objects(kind)
         /\ \A k : /\ Addr(k)' = Addr(k) /\ Object(k)' = Object(k)
                   /\ Readable(k)' = Readable(k) /\ Closed(k)' = Closed(k)
                   /\ Described(k)' = Described(k)
<1>1. Within' = Within /\ Section' = Section
  BY DEF Within, Section
<1>2. \A k : Addr(k)' = Addr(k) /\ Object(k)' = Object(k)
  BY DEF Addr, Object
<1>3. \A kind : Objects(kind)' = Objects(kind)
  BY DEF Objects, Object
<1>4. \A k : Readable(k)' = Readable(k)
  BY DEF Readable, Object
<1>5. \A k : Closed(k)' = Closed(k)
  BY DEF Closed, Readable, Object
<1>6. \A k : Described(k)' = Described(k)
  BY DEF Described, Object
<1>. QED
  BY <1>1, <1>2, <1>3, <1>4, <1>5, <1>6

LEMMA FixedClasses ==
  ASSUME section' = section, strays' = strays, dynsym' = dynsym, index' = index
  PROVE  Resolved' = Resolved /\ \A class : At(class)' = At(class)
<1>1. Resolved' = Resolved
  BY DEF Resolved, Found
<1>2. \A name, a : Against(name, a)' = Against(name, a)
  BY DEF Against
<1>3. \A entry, a : EntryRelocation(entry, a)' = EntryRelocation(entry, a)
  BY DEF EntryRelocation, Against
<1>4. Relocations' = Relocations
  BY DEF Relocations, Objects, Object, Addr, EntryAddr, EntryRelocation, Against
<1>5. \A class : At(class)' = At(class)
  BY <1>4 DEF At, OfClass
<1>. QED
  BY <1>1, <1>5

\* What CrashNeedsStray blames.
Cause ==
  \/ \E k \in DOMAIN strays : Outside(strays[k])
  \/ \E k \in Objects("vtable") : ~Closed(k) /\ RunsOut(k)
  \/ ~Within

LEMMA FixedCause ==
  ASSUME section' = section, strays' = strays, sh_offset' = sh_offset
  PROVE  Cause' = Cause
<1>1. \A s : Outside(s)' = Outside(s)
  BY DEF Outside, Section
<1>2. \A k : RunsOut(k)' = RunsOut(k)
  BY DEF RunsOut, Object
<1>3. /\ Within' = Within /\ Objects("vtable")' = Objects("vtable")
      /\ \A k : Closed(k)' = Closed(k)
  BY Fixed
<1>4. (\E k \in DOMAIN strays : Outside(strays[k]))' = (\E k \in DOMAIN strays : Outside(strays[k]))
  BY <1>1
<1>5. (\E k \in Objects("vtable") : ~Closed(k) /\ RunsOut(k))' =
      (\E k \in Objects("vtable") : ~Closed(k) /\ RunsOut(k))
  BY <1>2, <1>3
<1>. QED
  BY <1>3, <1>4, <1>5 DEF Cause

\* A step of the scan leaves the preparation as it is.
LEMMA ScanPrepared ==
  ASSUME Preparing, pc = "symbols", pc' \in {"symbols", "crashed", "done"},
         UNCHANGED <<input, rodata, index, relocmap, pureset>>, n' \in Nat, n' >= 1
  PROVE  Preparing'
<1>1. /\ section' = section /\ strays' = strays /\ dynsym' = dynsym /\ sh_offset' = sh_offset
      /\ index' = index /\ rodata' = rodata /\ relocmap' = relocmap /\ pureset' = pureset
  BY DEF input
<1>2. /\ Within' = Within /\ Section' = Section
      /\ Resolved' = Resolved /\ \A class : At(class)' = At(class)
  BY <1>1, Fixed, FixedClasses
<1>3. ClassMap' = ClassMap
  BY <1>1, <1>2 DEF ClassMap
<1>4. Typed' /\ Prologue'
  BY <1>1 DEF Preparing, Typed, Prologue
<1>5. Viewed'
  BY <1>1, <1>2 DEF Preparing, Viewed
<1>6. ClassesFound' /\ Mapping'
  BY <1>1, <1>2, <1>3 DEF Preparing, ClassesFound, Mapping
<1>. QED
  BY <1>4, <1>5, <1>6 DEF Preparing

LEMMA WhileScanning ==
  ASSUME Preparing, pc = "symbols", Within
  PROVE  Prepared /\ ClassMap
BY DEF Preparing, Typed, Viewed, ClassesFound, Mapping, Prepared

\* The words that ScanVtable keeps of an object.
LEMMA ScanKeeps ==
  ASSUME Prepared, NEW k \in Objects("vtable"), NEW stop \in FirstStop(Addr(k) + 2), NEW words,
         LET span == [w \in 1..stop - Addr(k) - 2 |-> Word(Addr(k) + 1 + w)] IN
           \E tail \in Tails : (Inside(stop) => tail = <<>>) /\ words = span \o tail
  PROVE  /\ Len(words) \in Nat
         /\ \A s \in Readable(k) : s \in 1..Len(words) /\ words[s] = Object(k).slots[s]
         /\ Closed(k) => \A w \in 1..Len(words) : w \in Readable(k)
<1> DEFINE m == stop - Addr(k) - 2
           span == [w \in 1..m |-> Word(Addr(k) + 1 + w)]
           S == {Word(Addr(k) + 1 + w) : w \in 1..m} \union {Garbage}
<1>1. /\ Addr(k) \in Nat /\ stop \in Nat /\ stop >= Addr(k) + 2
      /\ \A s \in Readable(k) : /\ s \in Nat /\ s >= 1 /\ s <= m
                                /\ Word(Addr(k) + 1 + s) = Object(k).slots[s]
      /\ Closed(k) => Inside(stop) /\ \A w \in 1..m : w \in Readable(k)
  BY Scan
<1>2. m \in Nat
  BY <1>1
<1>3. PICK tail \in Tails : (Inside(stop) => tail = <<>>) /\ words = span \o tail
  OBVIOUS
<1>4. span \in [1..m -> S] /\ tail \in Seq(S)
  <2>1. PICK len \in 0..MaxGarbage : tail = [w \in 1..len |-> Garbage]
    BY DEF Tails
  <2>2. len \in Nat /\ Garbage \in S
    BY MaxGarbageAssumption
  <2> HIDE DEF S
  <2>3. tail \in [1..len -> S]
    BY <2>1, <2>2
  <2>4. tail \in Seq(S)
    BY <2>2, <2>3, Indexed
  <2>. QED
    BY <2>4 DEF S
<1>5. \A s \in 1..m : span[s] = Word(Addr(k) + 1 + s)
  OBVIOUS
<1> HIDE DEF m, span, S
<1>6. span \in Seq(S) /\ Len(span) = m
  BY <1>2, <1>4, Indexed
<1> DEFINE longer == span \o tail
<1>7. /\ Len(longer) = Len(span) + Len(tail) /\ Len(tail) \in Nat
      /\ \A s \in 1..Len(span) + Len(tail) :
           longer[s] = IF s <= Len(span) THEN span[s] ELSE tail[s - Len(span)]
  BY <1>4, <1>6, ConcatProperties, LenProperties
<1>8. words = longer
  BY <1>3
<1> DEFINE more == Len(tail)
<1>9. more \in Nat /\ (Closed(k) => more = 0)
  <2>1. Closed(k) => tail = <<>>
    BY <1>1, <1>3
  <2>2. Len(<<>>) = 0
    BY EmptySeq
  <2>. QED
    BY <1>7, <2>1, <2>2
<1>10. /\ Len(words) = m + more
       /\ \A s \in 1..m + more : words[s] = IF s <= m THEN span[s] ELSE tail[s - m]
  BY <1>6, <1>7, <1>8
<1> HIDE DEF longer, more
<1>11. ASSUME NEW s \in 1..m
       PROVE  s \in 1..Len(words) /\ words[s] = Word(Addr(k) + 1 + s)
  <2>1. s \in 1..m + more /\ s <= m
    BY <1>2, <1>9, <1>11
  <2>2. words[s] = span[s]
    BY <1>10, <2>1
  <2>. QED
    BY <1>5, <1>10, <2>1, <2>2
<1>12. Len(words) \in Nat /\ (Closed(k) => Len(words) = m)
  <2>1. Len(words) = m + more
    BY <1>10
  <2> HIDE DEF m
  <2>2. m + more \in Nat /\ (more = 0 => m + more = m)
    BY <1>2, <1>9
  <2>. QED
    BY <1>9, <2>1, <2>2, Zenon
<1>13. \A s \in Readable(k) : s \in 1..Len(words) /\ words[s] = Object(k).slots[s]
  <2>1. \A s \in Readable(k) : s \in 1..m /\ Word(Addr(k) + 1 + s) = Object(k).slots[s]
    BY <1>1, <1>2
  <2>. QED
    BY <1>11, <2>1
<1>. QED
  BY <1>1, <1>12, <1>13

\* A step of the scan that keeps what was found of the other objects.
LEMMA ScanOn ==
  ASSUME ScanInv, Within, pc = "symbols", NextSymbol, NEW a,
         \A k \in Objects("vtable") \union Objects("typeinfo") : k # n => Addr(k) # a,
         \A b \in DOMAIN vtables : b # a => b \in DOMAIN vtables' /\ vtables'[b] = vtables[b],
         \A k \in Objects("vtable") \ skipped :
           k = n => Addr(k) \in DOMAIN vtables' /\ GoodVtable(k)',
         \A b \in DOMAIN typeinfos : b \in DOMAIN typeinfos' /\ typeinfos'[b] = typeinfos[b],
         \A b \in DOMAIN typeinfos' : b # a => b \in DOMAIN typeinfos,
         n \in Objects("typeinfo") =>
           /\ n \in skipped \/ Addr(n) \in DOMAIN typeinfos'
           /\ Addr(n) \in DOMAIN typeinfos' \ DOMAIN typeinfos =>
                typeinfos'[Addr(n)] = Described(n)
  PROVE  Scanned'
<1>1. /\ n' = n + 1 /\ n \in Nat /\ section' = section /\ sh_offset' = sh_offset
      /\ section \in Sections /\ skipped' = skipped
  BY DEF NextSymbol, input, ScanInv, Preparing, Typed
<1>2. /\ Within' = Within
      /\ \A kind : Objects(kind)' = Objects(kind)
      /\ \A k : /\ Addr(k)' = Addr(k) /\ Object(k)' = Object(k)
                /\ Readable(k)' = Readable(k) /\ Closed(k)' = Closed(k)
                /\ Described(k)' = Described(k)
  BY <1>1, Fixed
<1>3. /\ \A k \in Objects("vtable") \ skipped :
           k < n => Addr(k) \in DOMAIN vtables /\ GoodVtable(k)
      /\ \A k \in Objects("typeinfo") :
           /\ k < n => k \in skipped \/ Addr(k) \in DOMAIN typeinfos
           /\ Addr(k) \in DOMAIN typeinfos => typeinfos[Addr(k)] = Described(k)
  BY DEF ScanInv, Scanned
<1>4. \A k \in Objects("vtable") \union Objects("typeinfo") : k \in Int
  BY <1>1, Layout DEF Objects
<1>5. ASSUME NEW k \in Objects("vtable") \ skipped, k < n'
      PROVE  Addr(k) \in DOMAIN vtables' /\ GoodVtable(k)'
  <2>1. CASE k = n
    BY <2>1
  <2>2. CASE k # n
    <3>1. k < n
      BY <1>1, <1>4, <1>5, <2>2
    <3>2. Addr(k) \in DOMAIN vtables /\ GoodVtable(k) /\ Addr(k) # a
      BY <1>3, <2>2, <3>1
    <3>3. Addr(k) \in DOMAIN vtables' /\ vtables'[Addr(k)] = vtables[Addr(k)]
      BY <3>2
    <3>. QED
      BY <1>2, <3>2, <3>3 DEF GoodVtable
  <2>. QED
    BY <2>1, <2>2
<1>6. ASSUME NEW k \in Objects("typeinfo")
      PROVE  /\ k < n' => k \in skipped \/ Addr(k) \in DOMAIN typeinfos'
             /\ Addr(k) \in DOMAIN typeinfos' => typeinfos'[Addr(k)] = Described(k)
  <2>1. CASE k = n
    BY <1>3, <2>1
  <2>2. CASE k # n
    <3>1. k < n' => k < n
      BY <1>1, <1>4, <2>2
    <3>2. Addr(k) # a
      BY <2>2
    <3>. QED
      BY <1>3, <3>1, <3>2
  <2>. QED
    BY <2>1, <2>2
<1>. QED
  BY <1>1, <1>2, <1>5, <1>6 DEF Scanned

\* The address of the symbol is no other object's.
LEMMA SymbolApart ==
  ASSUME Typed, n \in DOMAIN Symbols, Symbols[n].kind # "data"
  PROVE  /\ \A k \in Objects("vtable") \union Objects("typeinfo") :
              k # n => Addr(k) # Symbols[n].addr
         /\ \/ n \in Objects(Symbols[n].kind) /\ Symbols[n].addr = Addr(n)
            \/ /\ n \notin DOMAIN section.objects
               /\ \E j \in DOMAIN strays : /\ strays[j].kind = Symbols[n].kind
                                           /\ strays[j].addr = Symbols[n].addr
<1>1. section \in Sections /\ strays \in Strays /\ n \in Nat /\ n >= 1
  BY DEF Typed
<1>2. \/ /\ n \in DOMAIN section.objects
         /\ Symbols[n].kind = Object(n).kind /\ Symbols[n].addr = Addr(n)
      \/ /\ n \notin DOMAIN section.objects
         /\ \E j \in DOMAIN strays : /\ Symbols[n].kind = strays[j].kind
                                     /\ Symbols[n].addr = strays[j].addr
  BY <1>1, SymbolIs, Zenon
<1>3. ASSUME NEW k \in Objects("vtable") \union Objects("typeinfo"), k # n
      PROVE  Addr(k) # Symbols[n].addr
  <2>1. k \in DOMAIN section.objects /\ Object(k).kind # "data"
    BY DEF Objects
  <2>2. /\ \A j \in DOMAIN section.objects : Object(j).kind # "data" /\ Addr(j) = Addr(k) => j = k
        /\ \A j \in DOMAIN strays : strays[j].addr # Addr(k)
    BY <1>1, <2>1, Apart
  <2>. QED
    BY <1>2, <1>3, <2>2
<1>. QED
  BY <1>2, <1>3 DEF Objects

LEMMA ScanVtableStep ==
  ASSUME ScanInv, ScanVtable
  PROVE  ScanInv'
<1> DEFINE a == Symbols[n].addr
           Span(stop) == [w \in 1..stop - a - 2 |-> Word(a + 1 + w)]
           Keep(words) == vtables' = [b \in DOMAIN vtables \union {a} |->
                                        IF b = a THEN words ELSE vtables[b]]
<1>1. /\ pc = "symbols" /\ n \in DOMAIN Symbols /\ Symbols[n].kind = "vtable" /\ NextSymbol
      /\ \/ ~Mapped(a) /\ UNCHANGED <<vtables, typeinfos, pc>>
         \/ /\ Mapped(a)
            /\ \E stop \in FirstStop(a + 2), tail \in Tails :
                 \/ /\ Inside(stop) => tail = <<>>
                    /\ Keep(Span(stop) \o tail)
                    /\ UNCHANGED <<typeinfos, pc>>
                 \/ ~Inside(stop) /\ Crash
  BY DEF ScanVtable, Symbol
<1>2. /\ n' = n + 1 /\ UNCHANGED <<input, rodata, index, relocmap, pureset, tables>>
      /\ Preparing /\ Typed /\ n \in Nat
      /\ section' = section /\ strays' = strays /\ sh_offset' = sh_offset
  BY <1>1 DEF NextSymbol, ScanInv, Preparing, Typed, input
<1>3. pc' \in {"symbols", "crashed"} /\ (pc' = "crashed" => Crash)
  BY <1>1 DEF Crash
<1>4. Preparing'
  BY <1>1, <1>2, <1>3, ScanPrepared
<1>5. Within' = Within /\ Cause' = Cause
  BY <1>2, Fixed, FixedCause
<1>6. /\ \A k \in Objects("vtable") \union Objects("typeinfo") : k # n => Addr(k) # a
      /\ \/ n \in Objects("vtable") /\ a = Addr(n)
         \/ /\ n \notin DOMAIN section.objects
            /\ \E j \in DOMAIN strays : strays[j].kind = "vtable" /\ strays[j].addr = a
  BY <1>1, <1>2, SymbolApart
<1>7. ASSUME Within PROVE Prepared
  BY <1>1, <1>2, <1>7, WhileScanning
<1>8. ASSUME Within, n \in Objects("vtable") PROVE Mapped(a)
  <2>1. n \in DOMAIN section.objects /\ Object(n).kind # "data" /\ section \in Sections
    BY <1>2, <1>8 DEF Objects, Typed
  <2>2. Len(Words(Object(n))) \in Nat /\ Len(Words(Object(n))) >= 2 /\ Addr(n) \in Nat
    BY <2>1, ObjectWords, Layout
  <2>3. 0 \in Nat /\ 0 < Len(Words(Object(n))) /\ Addr(n) + 0 = Addr(n)
    BY <2>2
  <2>4. Inside(Addr(n))
    BY <1>7, <1>8, <2>1, <2>3, ReadWord
  <2>5. a = Addr(n)
    BY <1>6, <2>1
  <2>. QED
    BY <2>4, <2>5 DEF Inside, Mapped
<1>9. ASSUME Within, pc' = "symbols" PROVE Scanned'
  <2>1. n \notin Objects("typeinfo")
    BY <1>6 DEF Objects
  <2>2. CASE ~Mapped(a) /\ UNCHANGED <<vtables, typeinfos>>
    <3>1. n \notin Objects("vtable")
      BY <1>8, <1>9, <2>2
    <3> HIDE DEF a
    <3>. QED
      BY <1>1, <1>6, <1>9, <2>1, <2>2, <3>1, ScanOn
  <2>3. ASSUME NEW stop \in FirstStop(a + 2), NEW words,
               \E tail \in Tails : (Inside(stop) => tail = <<>>) /\ words = Span(stop) \o tail,
               Keep(words), typeinfos' = typeinfos
        PROVE  Scanned'
    <3>1. /\ DOMAIN vtables' = DOMAIN vtables \union {a}
          /\ vtables'[a] = words
          /\ \A b \in DOMAIN vtables : b # a => vtables'[b] = vtables[b]
      BY <2>3
    <3>2. ASSUME NEW k \in Objects("vtable"), k = n
          PROVE  Addr(k) \in DOMAIN vtables' /\ GoodVtable(k)'
      <4>1. a = Addr(k)
        BY <1>6, <3>2 DEF Objects
      <4>2. /\ Len(words) \in Nat
            /\ \A s \in Readable(k) : s \in 1..Len(words) /\ words[s] = Object(k).slots[s]
            /\ Closed(k) => \A w \in 1..Len(words) : w \in Readable(k)
        <5>1. stop \in FirstStop(Addr(k) + 2)
          BY <4>1
        <5>2. LET span == [w \in 1..stop - Addr(k) - 2 |-> Word(Addr(k) + 1 + w)] IN
                \E tail \in Tails : (Inside(stop) => tail = <<>>) /\ words = span \o tail
          BY <2>3, <4>1
        <5>. QED
          BY <1>7, <1>9, <5>1, <5>2, ScanKeeps
      <4>3. Addr(k)' = Addr(k) /\ Object(k)' = Object(k)
            /\ Readable(k)' = Readable(k) /\ Closed(k)' = Closed(k)
        BY <1>2, Fixed
      <4>4. vtables'[Addr(k)] = words /\ Addr(k) \in DOMAIN vtables'
        BY <3>1, <4>1
      <4> HIDE DEF a, Keep, Span
      <4>. QED
        BY <4>2, <4>3, <4>4 DEF GoodVtable
    <3> HIDE DEF a, Keep, Span
    <3>. QED
      BY <1>1, <1>6, <1>9, <2>1, <2>3, <3>1, <3>2, ScanOn
  <2>4. ~Crash
    BY <1>9 DEF Crash
  <2> HIDE DEF a, Keep, Span
  <2>. QED
    BY <1>1, <2>2, <2>3, <2>4
<1>10. ASSUME pc' = "crashed" PROVE Cause
  <2>1. SUFFICES ASSUME Within PROVE Cause
    BY DEF Cause
  <2>2. Mapped(a) /\ \E stop \in FirstStop(a + 2) : ~Inside(stop)
    <3> HIDE DEF a, Keep, Span
    <3>. QED
      BY <1>1, <1>10
  <2>3. PICK stop \in FirstStop(a + 2) : ~Inside(stop)
    BY <2>2
  <2>4. CASE n \in Objects("vtable") /\ a = Addr(n)
    <3>1. stop \in FirstStop(Addr(n) + 2)
      BY <2>4
    <3>2. ~Closed(n) /\ RunsOut(n)
      BY <1>7, <2>1, <2>3, <2>4, <3>1, Scan
    <3>. QED
      BY <2>4, <3>2 DEF Cause
  <2>5. ASSUME NEW j \in DOMAIN strays, strays[j].kind = "vtable", strays[j].addr = a
        PROVE  Cause
    <3>1. strays[j].addr \in Nat /\ strays[j].addr \notin Base..Base + Len(Section) - 1
      BY <1>2, <2>5, ClassTypes DEF Typed
    <3>2. Base \in Nat /\ Len(Section) \in Nat
      BY <1>2, Layout DEF Typed
    <3>3. strays[j].addr < Base + Len(Section)
      BY <1>7, <2>1, <2>2, <2>5 DEF Mapped, End, Prepared
    <3>4. strays[j].addr < Base
      BY <3>1, <3>2, <3>3
    <3>5. Outside(strays[j])
      BY <2>5, <3>4 DEF Outside
    <3>. QED
      BY <2>5, <3>5 DEF Cause
  <2>. QED
    BY <1>6, <2>4, <2>5
<1>. QED
  BY <1>3, <1>4, <1>5, <1>9, <1>10 DEF ScanInv, Scanned, RowsRecovered, CrashNeedsStray, Cause

LEMMA ScanTypeinfoStep ==
  ASSUME ScanInv, ScanTypeinfo
  PROVE  ScanInv'
<1> DEFINE a == Symbols[n].addr
           class == relocmap[a]
           legal == class = "ni" \/ (Inside(a + 2) /\ Inside(InfoEnd(a, class) - 1))
           Keep(info) == typeinfos' = [b \in DOMAIN typeinfos \union {a} |->
                                         IF b \in DOMAIN typeinfos THEN typeinfos[b] ELSE info]
           garbage == [type |-> Garbage, flags |-> Garbage, bases |-> {}]
<1>1. /\ pc = "symbols" /\ n \in DOMAIN Symbols /\ Symbols[n].kind = "typeinfo" /\ NextSymbol
      /\ \/ a \notin DOMAIN relocmap /\ UNCHANGED <<vtables, typeinfos, pc>>
         \/ a \in DOMAIN relocmap /\ legal /\ Keep(Info(a, class)) /\ UNCHANGED <<vtables, pc>>
         \/ /\ a \in DOMAIN relocmap /\ ~legal
            /\ Keep(garbage) /\ UNCHANGED <<vtables, pc>>
         \/ a \in DOMAIN relocmap /\ ~legal /\ Crash
  BY DEF ScanTypeinfo, Symbol
<1>2. /\ n' = n + 1 /\ UNCHANGED <<input, rodata, index, relocmap, pureset, tables>>
      /\ Preparing /\ Typed /\ n \in Nat
      /\ section' = section /\ strays' = strays /\ sh_offset' = sh_offset
  BY <1>1 DEF NextSymbol, ScanInv, Preparing, Typed, input
<1>3. pc' \in {"symbols", "crashed"} /\ (pc' = "crashed" => a \in DOMAIN relocmap /\ ~legal)
      /\ (pc' = "symbols" => ~Crash)
  <2> HIDE DEF a, class, legal, Keep, garbage
  <2>. QED
    BY <1>1 DEF Crash
<1>4. Preparing'
  BY <1>1, <1>2, <1>3, ScanPrepared
<1>5. Within' = Within /\ Cause' = Cause
  BY <1>2, Fixed, FixedCause
<1>6. /\ \A k \in Objects("vtable") \union Objects("typeinfo") : k # n => Addr(k) # a
      /\ \/ n \in Objects("typeinfo") /\ a = Addr(n)
         \/ /\ n \notin DOMAIN section.objects
            /\ \E j \in DOMAIN strays : strays[j].kind = "typeinfo" /\ strays[j].addr = a
  BY <1>1, <1>2, SymbolApart
<1>7. ASSUME Within PROVE Prepared /\ ClassMap
  BY <1>1, <1>2, <1>7, WhileScanning
<1>8. ASSUME Within, n \in Objects("typeinfo")
      PROVE  a = Addr(n) /\ a \in DOMAIN relocmap /\ legal /\ Info(a, class) = Described(n)
  <2>1. a = Addr(n)
    BY <1>6, <1>8 DEF Objects
  <2>2. /\ Addr(n) \in DOMAIN relocmap /\ relocmap[Addr(n)] = Object(n).class
        /\ Object(n).class # "ni" =>
             Inside(Addr(n) + 2) /\ Inside(InfoEnd(Addr(n), Object(n).class) - 1)
        /\ Info(Addr(n), Object(n).class) = Described(n)
    BY <1>7, <1>8, Describes
  <2>. QED
    BY <2>1, <2>2
<1>9. ASSUME Within, pc' = "symbols" PROVE Scanned'
  <2>1. n \notin Objects("vtable")
    BY <1>6 DEF Objects
  <2>2. CASE a \notin DOMAIN relocmap /\ UNCHANGED <<vtables, typeinfos>>
    <3>1. n \notin Objects("typeinfo")
      BY <1>8, <1>9, <2>2
    <3> HIDE DEF a
    <3>. QED
      BY <1>1, <1>6, <1>9, <2>1, <2>2, <3>1, ScanOn
  <2>3. ASSUME NEW info, Keep(info), vtables' = vtables,
               n \in Objects("typeinfo") => info = Described(n)
        PROVE  Scanned'
    <3>1. /\ DOMAIN typeinfos' = DOMAIN typeinfos \union {a}
          /\ a \notin DOMAIN typeinfos => typeinfos'[a] = info
          /\ \A b \in DOMAIN typeinfos : typeinfos'[b] = typeinfos[b]
      BY <2>3
    <3>2. n \in Objects("typeinfo") =>
            /\ Addr(n) \in DOMAIN typeinfos'
            /\ Addr(n) \notin DOMAIN typeinfos => typeinfos'[Addr(n)] = Described(n)
      BY <1>8, <1>9, <2>3, <3>1
    <3> HIDE DEF a, Keep
    <3>. QED
      BY <1>1, <1>6, <1>9, <2>1, <2>3, <3>1, <3>2, ScanOn
  <2>4. CASE legal /\ Keep(Info(a, class)) /\ vtables' = vtables
    <3>1. n \in Objects("typeinfo") => Info(a, class) = Described(n)
      BY <1>8, <1>9
    <3> HIDE DEF a, class, legal, Keep
    <3>. QED
      BY <2>3, <2>4, <3>1
  <2>5. CASE ~legal /\ Keep(garbage) /\ vtables' = vtables
    <3>1. n \notin Objects("typeinfo")
      BY <1>8, <1>9, <2>5
    <3> HIDE DEF a, class, legal, Keep, garbage
    <3>. QED
      BY <2>3, <2>5, <3>1
  <2>6. ~Crash
    BY <1>3, <1>9
  <2> HIDE DEF a, class, legal, Keep, garbage
  <2>. QED
    BY <1>1, <2>2, <2>4, <2>5, <2>6
<1>10. ASSUME pc' = "crashed" PROVE Cause
  <2>1. SUFFICES ASSUME Within PROVE Cause
    BY DEF Cause
  <2>2. a \in DOMAIN relocmap /\ ~legal /\ n \notin Objects("typeinfo")
    BY <1>3, <1>8, <1>10, <2>1
  <2>3. PICK j \in DOMAIN strays : strays[j].class = class /\ strays[j].addr = a
    <3>1. /\ relocmap[a] \in {"ni", "si", "vmi"}
          /\ \/ \E k \in Objects("typeinfo") : Object(k).class = relocmap[a] /\ Addr(k) = a
             \/ \E k \in DOMAIN strays : strays[k].class = relocmap[a] /\ strays[k].addr = a
      BY <1>2, <1>7, <2>1, <2>2, ClassMapped DEF Typed, Prepared
    <3>2. ~ \E k \in Objects("typeinfo") : Addr(k) = a
      BY <1>6, <2>2
    <3>. QED
      BY <3>1, <3>2
  <2>4. class \in {"ni", "si", "vmi"} /\ class # "ni"
    BY <1>2, <1>7, <2>1, <2>2, ClassMapped DEF Typed, Prepared
  <2>5. /\ strays[j].kind = "typeinfo" /\ strays[j].addr \in Nat
        /\ strays[j].addr \notin Base..Base + Len(Section) - 1
    BY <1>2, <2>3, <2>4, ClassTypes DEF Typed
  <2>6. Base \in Nat /\ Len(Section) \in Nat
    BY <1>2, Layout DEF Typed
  <2>7. strays[j].addr < Base \/ strays[j].addr >= Base + Len(Section)
    BY <2>5, <2>6
  <2>8. Outside(strays[j])
    BY <2>3, <2>4, <2>5, <2>7 DEF Outside
  <2>. QED
    BY <2>3, <2>8 DEF Cause
<1>. QED
  BY <1>3, <1>4, <1>5, <1>9, <1>10 DEF ScanInv, Scanned, RowsRecovered, CrashNeedsStray, Cause

LEMMA ScanOtherStep ==
  ASSUME ScanInv, ScanOther
  PROVE  ScanInv'
<1>1. /\ pc = "symbols" /\ n \in DOMAIN Symbols /\ NextSymbol
      /\ Symbols[n].kind = "data" \/ n \in skipped
      /\ UNCHANGED <<vtables, typeinfos, pc>>
  BY DEF ScanOther, Symbol
<1>2. /\ n' = n + 1 /\ UNCHANGED <<input, rodata, index, relocmap, pureset, tables>>
      /\ Preparing /\ Typed /\ n \in Nat /\ n >= 1
      /\ section' = section /\ strays' = strays /\ sh_offset' = sh_offset
      /\ section \in Sections /\ strays \in Strays
  BY <1>1 DEF NextSymbol, ScanInv, Preparing, Typed, input
<1>3. Preparing'
  BY <1>1, <1>2, ScanPrepared
<1>4. n \in skipped \/ (n \notin Objects("vtable") /\ n \notin Objects("typeinfo"))
  BY <1>1, <1>2, SymbolIs DEF Objects
<1>5. ASSUME Within PROVE Scanned'
  <2>1. \A k \in Objects("vtable") \union Objects("typeinfo") : Addr(k) # -1
    BY <1>2, Layout DEF Objects
  <2>. QED
    BY <1>1, <1>4, <1>5, <2>1, ScanOn
<1>6. Within' = Within
  BY <1>2, Fixed
<1>. QED
  BY <1>1, <1>3, <1>5, <1>6 DEF ScanInv, Scanned, RowsRecovered, CrashNeedsStray

-----------------------------------------------------------------------------
(* The theorems.                                                             *)

LEMMA PrologueSteps ==
  ASSUME ScanInv, GetSection \/ FindClasses \/ ReadRelocations
  PROVE  ScanInv'
<1>1. /\ Typed /\ Prologue /\ Viewed /\ ClassesFound
      /\ UNCHANGED <<input, n, typeinfos>>
      /\ section' = section /\ strays' = strays /\ dynsym' = dynsym /\ sh_offset' = sh_offset
  BY DEF ScanInv, Preparing, GetSection, FindClasses, ReadRelocations, input
<1>2. Within' = Within /\ Section' = Section
  BY <1>1, Fixed
<1>3. CASE GetSection
  <2>1. pc = "section" /\ pc' = "classes" /\ rodata' = View(sh_offset, Len(Section))
    BY <1>3 DEF GetSection
  <2>2. Viewed'
    <3>1. Within => View(sh_offset, Len(Section)) = Section
      BY <1>1, ViewIsSection DEF Typed
    <3>. QED
      BY <1>2, <2>1, <3>1 DEF Viewed
  <2>. QED
    BY <1>1, <2>1, <2>2
    DEF ScanInv, Preparing, Typed, Prologue, ClassesFound, Mapping, Scanned, RowsRecovered,
        CrashNeedsStray
<1>4. CASE FindClasses
  <2>1. /\ pc = "classes" /\ index' = [c \in Classes |-> Found(c)] /\ rodata' = rodata
        /\ pc' = IF \E c \in Classes : Found(c) = 0 THEN "failed" ELSE "relocations"
    BY <1>4 DEF FindClasses
  <2>2. Viewed'
    BY <1>1, <1>2, <2>1 DEF Viewed
  <2>3. \A c : Found(c)' = Found(c)
    BY <1>1 DEF Found
  <2>4. ClassesFound'
    BY <1>1, <2>1, <2>3 DEF ClassesFound, Resolved, Typed
  <2>. QED
    BY <1>1, <2>1, <2>2, <2>4
    DEF ScanInv, Preparing, Typed, Prologue, Mapping, Scanned, RowsRecovered, CrashNeedsStray
<1>5. CASE ReadRelocations
  <2>1. /\ pc = "relocations" /\ pc' = "symbols" /\ rodata' = rodata /\ index' = index
        /\ relocmap' = [a \in At("ni") \union At("si") \union At("vmi") |->
                          CHOOSE c \in {"ni", "si", "vmi"} : a \in At(c)]
        /\ pureset' = At("pure")
    BY <1>5 DEF ReadRelocations, At
  <2>2. Resolved' = Resolved /\ \A class : At(class)' = At(class)
    BY <1>1, <2>1, FixedClasses
  <2>3. Viewed'
    BY <1>1, <1>2, <2>1 DEF Viewed
  <2>4. ClassesFound'
    BY <1>1, <2>1, <2>2 DEF ClassesFound
  <2>5. Mapping'
    BY <2>1, <2>2 DEF Mapping, ClassMap
  <2>6. Scanned'
    <3>1. n' = 1 /\ DOMAIN typeinfos' = {} /\ section' = section /\ section \in Sections
      BY <1>1, <2>1 DEF Prologue, Typed
    <3>2. \A k \in Objects("vtable") \union Objects("typeinfo") : k \in Int /\ k >= 1
      BY <3>1, Layout DEF Objects
    <3>3. \A kind : Objects(kind)' = Objects(kind)
      BY <1>1, Fixed
    <3>4. \A k : Addr(k)' = Addr(k)
      BY <1>1, Fixed
    <3>. QED
      BY <3>1, <3>2, <3>3, <3>4 DEF Scanned
  <2>. QED
    BY <1>1, <2>1, <2>3, <2>4, <2>5, <2>6
    DEF ScanInv, Preparing, Typed, Prologue, RowsRecovered, CrashNeedsStray
<1>. QED
  BY <1>3, <1>4, <1>5

LEMMA FillStep ==
  ASSUME ScanInv, Fill
  PROVE  ScanInv'
<1>1. /\ pc = "symbols" /\ n \notin DOMAIN Symbols /\ pc' = "done"
      /\ tables' = [vtables |-> VtableRows, roots |-> RootRows, defs |-> DefRows]
      /\ UNCHANGED <<input, rodata, index, relocmap, pureset, n, vtables, typeinfos>>
  BY DEF Fill, VtableRows, RootRows, DefRows
<1>2. /\ Preparing /\ Typed /\ n \in Nat /\ n >= 1
      /\ section' = section /\ strays' = strays /\ sh_offset' = sh_offset
      /\ section \in Sections /\ strays \in Strays
  BY <1>1 DEF ScanInv, Preparing, Typed, input
<1>3. Preparing'
  BY <1>1, <1>2, ScanPrepared
<1>4. \A k \in DOMAIN section.objects : k < n
  BY <1>1, <1>2, SymbolIs
<1>5. ASSUME Within, NEW k \in Objects("vtable") \ skipped
      PROVE  /\ SlotRows(k) \subseteq tables'.vtables
             /\ Closed(k) => Rows(tables'.vtables, Addr(k)) = SlotRows(k)
  <2>1. k < n
    BY <1>4 DEF Objects
  <2>2. Addr(k) \in DOMAIN vtables /\ GoodVtable(k)
    BY <1>1, <1>5, <2>1 DEF ScanInv, Scanned
  <2>3. tables'.vtables = VtableRows
    BY <1>1
  <2>. QED
    BY <2>2, <2>3, SlotsFilled
<1>6. ASSUME Within, NEW k \in Objects("typeinfo") \ skipped
      PROVE  /\ Rows(tables'.defs, Addr(k)) = BaseRows(k)
             /\ Rows(tables'.roots, Addr(k)) = {RootRow(k)}
  <2>1. k < n
    BY <1>4 DEF Objects
  <2>2. Addr(k) \in DOMAIN typeinfos /\ typeinfos[Addr(k)] = Described(k)
    BY <1>1, <1>6, <2>1 DEF ScanInv, Scanned
  <2>3. tables'.defs = DefRows /\ tables'.roots = RootRows
    BY <1>1
  <2>. QED
    BY <2>2, <2>3, InfoFilled
<1>7. /\ Within' = Within /\ skipped' = skipped
      /\ \A kind : Objects(kind)' = Objects(kind)
      /\ \A k : Addr(k)' = Addr(k) /\ Object(k)' = Object(k) /\ Closed(k)' = Closed(k)
                /\ Readable(k)' = Readable(k)
  BY <1>1, <1>2, Fixed DEF input
<1>8. \A k : SlotRows(k)' = SlotRows(k) /\ BaseRows(k)' = BaseRows(k) /\ RootRow(k)' = RootRow(k)
  BY <1>7 DEF SlotRows, BaseRows, RootRow
<1>9. \A a : /\ Rows(tables.vtables, a)' = Rows(tables'.vtables, a)
             /\ Rows(tables.defs, a)' = Rows(tables'.defs, a)
             /\ Rows(tables.roots, a)' = Rows(tables'.roots, a)
  BY DEF Rows
<1>10. RowsRecovered'
  BY <1>5, <1>6, <1>7, <1>8 DEF RowsRecovered
<1>. QED
  BY <1>1, <1>3, <1>10 DEF ScanInv, Scanned, CrashNeedsStray

LEMMA StutterStep ==
  ASSUME ScanInv, UNCHANGED vars
  PROVE  ScanInv'
<1>1. /\ UNCHANGED <<section, strays, skipped, dynsym, sh_offset, rodata, index, relocmap, pureset>>
      /\ UNCHANGED <<pc, n, vtables, typeinfos, tables>>
  BY DEF vars, input
<1>2. /\ Within' = Within /\ Section' = Section
      /\ \A kind : Objects(kind)' = Objects(kind)
      /\ \A k : /\ Addr(k)' = Addr(k) /\ Object(k)' = Object(k)
                /\ Readable(k)' = Readable(k) /\ Closed(k)' = Closed(k)
                /\ Described(k)' = Described(k)
  BY <1>1, Fixed
<1>3. Resolved' = Resolved /\ \A class : At(class)' = At(class)
  BY <1>1, FixedClasses
<1>4. Preparing'
  BY <1>1, <1>2, <1>3
  DEF ScanInv, Preparing, Typed, Prologue, Viewed, ClassesFound, Mapping, ClassMap
<1>5. Scanned'
  <2>1. \A k : GoodVtable(k)' = GoodVtable(k)
    BY <1>1, <1>2 DEF GoodVtable
  <2>. QED
    BY <1>1, <1>2, <2>1 DEF ScanInv, Scanned
<1>6. RowsRecovered'
  <2>1. \A k : SlotRows(k)' = SlotRows(k) /\ BaseRows(k)' = BaseRows(k) /\ RootRow(k)' = RootRow(k)
    BY <1>2 DEF SlotRows, BaseRows, RootRow
  <2>. QED
    BY <1>1, <1>2, <2>1 DEF ScanInv, RowsRecovered
<1>7. CrashNeedsStray'
  <2>1. Cause' = Cause
    BY <1>1, FixedCause
  <2>. QED
    BY <1>1, <2>1 DEF ScanInv, CrashNeedsStray, Cause
<1>. QED
  BY <1>4, <1>5, <1>6, <1>7 DEF ScanInv

\* The objects that the scan has passed were kept as they were laid out, and what
\* it goes by is what the file says (CLI/main.cpp:337-387, 470-516).
THEOREM ScanInvariant == Spec => []ScanInv
<1>1. Init => ScanInv
  <2>1. SUFFICES ASSUME Init PROVE ScanInv
    OBVIOUS
  <2>2. Typed /\ Prologue /\ pc = "section"
    BY <2>1 DEF Init, Typed, Prologue
  <2>. QED
    BY <2>2 DEF ScanInv, Preparing, Viewed, ClassesFound, Mapping, Scanned, RowsRecovered,
                CrashNeedsStray
<1>2. ScanInv /\ [Next]_vars => ScanInv'
  <2>1. SUFFICES ASSUME ScanInv, [Next]_vars PROVE ScanInv'
    OBVIOUS
  <2>2. CASE GetSection \/ FindClasses \/ ReadRelocations
    BY <2>1, <2>2, PrologueSteps
  <2>3. CASE ScanVtable
    BY <2>1, <2>3, ScanVtableStep
  <2>4. CASE ScanTypeinfo
    BY <2>1, <2>4, ScanTypeinfoStep
  <2>5. CASE ScanOther
    BY <2>1, <2>5, ScanOtherStep
  <2>6. CASE Fill
    BY <2>1, <2>6, FillStep
  <2>7. CASE Ended
    BY <2>1, <2>7, StutterStep DEF Ended
  <2>8. CASE UNCHANGED vars
    BY <2>1, <2>8, StutterStep
  <2>. QED
    BY <2>1, <2>2, <2>3, <2>4, <2>5, <2>6, <2>7, <2>8 DEF Next
<1>. QED
  BY <1>1, <1>2, PTL DEF Spec

\* Whatever a section is made of, the database receives the slots of each of its
\* vtables up to an imported one, nothing else for a vtable that is closed, and
\* the class and bases of each type_info (CLI/main.cpp:480-516).
THEOREM SectionRecovered == Spec => []RowsRecovered
<1>1. ScanInv => RowsRecovered
  BY DEF ScanInv
<1>. QED
  BY <1>1, ScanInvariant, PTL

\* The process ends only for a stray symbol, for a vtable with no zero behind it
\* but pure virtual slots, or for a section beyond the first 4 GiB of its file
\* (CLI/main.cpp:484, 490, elf.h:26, windowscommon.h:72).
THEOREM CrashExplained == Spec => []CrashNeedsStray
<1>1. ScanInv => CrashNeedsStray
  BY DEF ScanInv
<1>. QED
  BY <1>1, ScanInvariant, PTL
=============================================================================
