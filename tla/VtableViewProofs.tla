-------------------------- MODULE VtableViewProofs --------------------------
(* The safety properties of the vtable page, for any database, vtable and     *)
(* symbols: PageInv is inductive, and what the export writes follows from it. *)
EXTENDS VtableView, SequenceTheorems, TLAPS

-----------------------------------------------------------------------------
(* The queue of queries.                                                     *)

\* What a queue consists of after pushing.
LEMMA PushElements ==
  ASSUME NEW S, NEW q \in Seq(S), NEW x \in S
  PROVE  /\ Append(q, x) \in Seq(S)
         /\ Len(Append(q, x)) = Len(q) + 1 /\ Len(q) \in Nat
         /\ \A i \in 1..Len(q) : Append(q, x)[i] = q[i]
         /\ Append(q, x)[Len(q) + 1] = x
         /\ \A i \in 1..Len(Append(q, x)) : i = Len(q) + 1 \/ i \in 1..Len(q)
<1>. QED
  BY AppendProperties

\* What a queue consists of after popping.
LEMMA PopElements ==
  ASSUME NEW S, NEW q \in Seq(S), q # <<>>
  PROVE  /\ Tail(q) \in Seq(S)
         /\ Len(Tail(q)) = Len(q) - 1 /\ Len(q) \in Nat /\ Len(q) > 0
         /\ \A i \in 1..Len(Tail(q)) : i + 1 \in 1..Len(q) /\ Tail(q)[i] = q[i + 1]
         /\ \A i \in 1..Len(q) : i = 1 \/ (i - 1 \in 1..Len(Tail(q)) /\ Tail(q)[i - 1] = q[i])
         /\ Head(q) = q[1] /\ Head(q) \in S
<1>. QED
  BY HeadTailProperties, EmptySeq

Found == [Names -> [full : Symbols \union {NoSymbol}, prefix : SUBSET Symbols]]

\* The fields of the queries and demanglings on their way.
LEMMA QueryTypes ==
  ASSUME PageInv
  PROVE  /\ \A i \in 1..Len(asked) : /\ asked[i] \in Query /\ asked[i].rec \in Nat
                                    /\ asked[i].name \in Names
         /\ \A i \in 1..Len(mangled) : mangled[i].rec \in Nat /\ mangled[i].raw \in Symbols
         /\ Len(asked) \in Nat /\ Len(mangled) \in Nat
         /\ Slots = 1..Len(rows) /\ Len(rows) \in Nat
<1>1. asked \in Seq(Query) /\ mangled \in Seq(Demangling) /\ rows \in Seq(Items)
  BY DEF PageInv, TypeOK
<1>2. \A i \in 1..Len(asked) : asked[i] \in Query
  BY <1>1
<1>3. \A i \in 1..Len(mangled) : mangled[i] \in Demangling
  BY <1>1
<1>. QED
  BY <1>1, <1>2, <1>3 DEF Query, Demangling, Slots

\* The page opens with its first query.
LEMMA InitInv == Init => PageInv
<1> SUFFICES ASSUME Init PROVE PageInv
  OBVIOUS
<1> USE DEF Init
<1>1. <<>> \in Seq(Items) /\ <<>> \in Seq(Query) /\ <<>> \in Seq(Demangling)
      /\ Len(<<>>) = 0 /\ DOMAIN <<>> = {}
  BY EmptySeq
<1>2. TypeOK
  <2>1. DOMAIN rows = {} /\ full = <<>> /\ decoded = <<>>
    BY <1>1
  <2>2. full \in [{} -> Symbols \union {NoSymbol}] /\ decoded \in [{} -> Decodable \union {NoSymbol}]
    BY <2>1, <1>1
  <2>3. crashed \in BOOLEAN
    BY Zenon
  <2>. QED
    BY <1>1, <2>1, <2>2, <2>3 DEF TypeOK, Slots
<1>3. OwnAnswer
  BY <1>1 DEF OwnAnswer, Slots
<1>4. AskedInv /\ MangledInv /\ LoopInv
  BY <1>1 DEF AskedInv, MangledInv, LoopInv, Slots
<1>5. AnswersInv
  BY <1>1 DEF AnswersInv, Slots
<1>. QED
  BY <1>2, <1>3, <1>4, <1>5 DEF PageInv

\* The slots arrive, all of them without an answer.
LEMMA ShowRowsInv == PageInv /\ ShowRows => PageInv'
<1> SUFFICES ASSUME PageInv, ShowRows PROVE PageInv'
  OBVIOUS
<1>1. PICK n \in 1..MaxRows :
        /\ rows' \in [1..n -> Items]
        /\ full' = [r \in 1..n |-> NoSymbol]
        /\ decoded' = [r \in 1..n |-> NoSymbol]
  BY DEF ShowRows
<1>2. n \in Nat /\ rows' \in Seq(Items) /\ DOMAIN rows' = 1..n
  BY <1>1, MaxRowsAssumption
<1>3. /\ asked = <<>> /\ mangled = <<>> /\ next = 1 /\ rows = <<>>
      /\ asked' = <<>> /\ mangled' = <<>> /\ next' = 1 /\ Len(<<>>) = 0
  BY EmptySeq DEF ShowRows, PageInv, LoopInv
<1>4. failed' = {}
  BY <1>3, EmptySeq DEF ShowRows, PageInv, TypeOK, Slots
<1>5. TypeOK'
  BY <1>1, <1>2, <1>4 DEF TypeOK, Slots, ShowRows, PageInv
<1>6. OwnAnswer'
  BY <1>1, <1>2 DEF OwnAnswer, Slots
<1>7. AskedInv' /\ MangledInv' /\ LoopInv'
  BY <1>1, <1>2, <1>3 DEF AskedInv, MangledInv, LoopInv, Slots, ShowRows
<1>8. AnswersInv'
  <2>1. \A r \in 1..n : next' <= r
    BY <1>3
  <2>2. NoSymbol \notin Decodable
    BY SymbolsAssumption
  <2>. QED
    BY <1>1, <1>2, <1>3, <2>1, <2>2 DEF AnswersInv, Slots, Asking
<1>. QED
  BY <1>5, <1>6, <1>7, <1>8 DEF PageInv

\* No slots: only the page changes.
LEMMA PageOnlyInv ==
  ASSUME PageInv, page' \in {"loading", "filling", "shown", "error"}, page' # "loading",
         UNCHANGED <<found, rows, next, full, decoded, asked, mangled, failed>>,
         crashed' \in BOOLEAN
  PROVE  PageInv'
<1>1. TypeOK'
  BY DEF PageInv, TypeOK, Slots
<1>2. OwnAnswer'
  BY DEF PageInv, OwnAnswer, Slots, Matches
<1>3. AskedInv' /\ MangledInv' /\ LoopInv'
  BY DEF PageInv, AskedInv, MangledInv, LoopInv, Slots
<1>4. AnswersInv'
  BY DEF PageInv, AnswersInv, Slots, Matches, Asking, Demangled
<1>. QED
  BY <1>1, <1>2, <1>3, <1>4 DEF PageInv

\* One round of the loop over the slots.
LEMMA AskFullInv == PageInv /\ AskFull => PageInv'
<1> SUFFICES ASSUME PageInv, AskFull PROVE PageInv'
  OBVIOUS
<1> DEFINE q == [kind |-> "full", rec |-> next, name |-> rows[next]]
<1>0. /\ asked \in Seq(Query) /\ next \in Nat /\ next \in Slots /\ next' = next + 1
      /\ UNCHANGED <<found, page, rows, full, decoded, mangled, failed, crashed>>
      /\ page = "filling" /\ Len(asked) \in Nat
  BY DEF AskFull, PageInv, TypeOK
<1>1. CASE rows[next] \notin Names
  <2>0. asked' = asked
    BY <1>1 DEF AskFull
  <2>1. TypeOK'
    BY <1>0, <2>0 DEF PageInv, TypeOK, Slots
  <2>2. OwnAnswer'
    BY <1>0 DEF PageInv, OwnAnswer, Slots, Matches
  <2>3. AskedInv' /\ MangledInv' /\ LoopInv'
    <3>1. \A i \in 1..Len(asked) : asked[i].rec \in Nat
      BY QueryTypes
    <3>2. AskedInv'
      BY <1>0, <2>0, <3>1 DEF PageInv, AskedInv, Slots
    <3>3. LoopInv'
      BY <1>0, <2>0 DEF PageInv, TypeOK, LoopInv, Slots
    <3>. QED
      BY <1>0, <3>2, <3>3 DEF PageInv, MangledInv, Slots
  <2>4. AnswersInv'
    <3>1. \A r \in Slots : rows[r] \in Names /\ Asking(r) => Asking(r)'
      <4> TAKE r \in Slots
      <4>1. r \in Nat
        BY DEF PageInv, TypeOK, Slots
      <4>. QED
        BY <1>0, <1>1, <2>0, <4>1 DEF Asking
    <3>. QED
      BY <1>0, <2>0, <3>1 DEF PageInv, AnswersInv, Slots, Matches, Demangled
  <2>. QED
    BY <2>1, <2>2, <2>3, <2>4 DEF PageInv
<1>2. CASE rows[next] \in Names
  <2>0. asked' = Append(asked, q) /\ q \in Query
    BY <1>0, <1>2 DEF AskFull, Query
  <2>a. /\ Append(asked, q) \in Seq(Query)
        /\ Len(Append(asked, q)) = Len(asked) + 1
        /\ \A i \in 1..Len(asked) : Append(asked, q)[i] = asked[i]
        /\ Append(asked, q)[Len(asked) + 1] = q
        /\ \A i \in 1..Len(Append(asked, q)) : i = Len(asked) + 1 \/ i \in 1..Len(asked)
    BY <1>0, <2>0, PushElements
  <2>b. q.kind = "full" /\ q.rec = next /\ q.name = rows[next]
    OBVIOUS
  <2> HIDE DEF q
  <2>1. TypeOK'
    BY <1>0, <2>0, <2>a DEF PageInv, TypeOK, Slots
  <2>2. OwnAnswer'
    BY <1>0 DEF PageInv, OwnAnswer, Slots, Matches
  <2>3. AskedInv' /\ MangledInv' /\ LoopInv'
    <3>1. full[next] = NoSymbol
      BY <1>0 DEF PageInv, LoopInv
    <3>2. \A i \in 1..Len(asked) : asked[i].rec \in Nat /\ asked[i].rec < next
      BY QueryTypes DEF PageInv, AskedInv
    <3>3. \A i \in 1..Len(asked') : asked'[i].rec \in Slots /\ asked'[i].rec < next'
             /\ rows[asked'[i].rec] = asked'[i].name /\ full[asked'[i].rec] = NoSymbol
      BY <1>0, <2>0, <2>a, <2>b, <3>1, <3>2 DEF PageInv, AskedInv
    <3>4. \A i, j \in 1..Len(asked') : asked'[i].rec = asked'[j].rec => i = j
      BY <1>0, <2>0, <2>a, <2>b, <3>2 DEF PageInv, AskedInv
    <3>5. LoopInv'
      BY <1>0 DEF PageInv, TypeOK, LoopInv, Slots
    <3>. QED
      BY <1>0, <3>3, <3>4, <3>5 DEF PageInv, AskedInv, MangledInv, Slots
  <2>4. AnswersInv'
    <3>1. \A r \in Slots : Asking(r) => Asking(r)'
      <4> TAKE r \in Slots
      <4>1. r \in Nat
        BY DEF PageInv, TypeOK, Slots
      <4>. QED
        BY <1>0, <2>0, <2>a, <2>b, <4>1 DEF Asking
    <3>2. \A i \in 1..Len(asked') : asked'[i].kind = "prefix" =>
            i \in 1..Len(asked) /\ asked'[i] = asked[i]
      BY <2>0, <2>a, <2>b
    <3>. QED
      BY <1>0, <3>1, <3>2 DEF PageInv, AnswersInv, Slots, Matches, Demangled
  <2>. QED
    BY <2>1, <2>2, <2>3, <2>4 DEF PageInv
<1>. QED
  BY <1>1, <1>2

-----------------------------------------------------------------------------
(* The answers of the DB.                                                    *)

\* The first query leaves: what holds of the others.
LEMMA Answer ==
  ASSUME PageInv, asked # <<>>
  PROVE  LET q == Head(asked) IN
         /\ q = asked[1] /\ q \in Query /\ q.rec \in Slots /\ q.name \in Names /\ q.rec < next
         /\ rows[q.rec] = q.name /\ full[q.rec] = NoSymbol /\ decoded[q.rec] = NoSymbol
         /\ Tail(asked) \in Seq(Query) /\ Len(Tail(asked)) \in Nat
         /\ \A i \in 1..Len(Tail(asked)) :
              /\ Tail(asked)[i].rec # q.rec
              /\ i + 1 \in 1..Len(asked) /\ Tail(asked)[i] = asked[i + 1]
         /\ \A r \in Slots : Asking(r) /\ r # q.rec =>
              next <= r \/ \E i \in 1..Len(Tail(asked)) : Tail(asked)[i].rec = r
<1> DEFINE q == Head(asked)
           t == Tail(asked)
<1>1. asked \in Seq(Query)
  BY DEF PageInv, TypeOK
<1>2. /\ t \in Seq(Query) /\ Len(t) = Len(asked) - 1 /\ Len(asked) \in Nat /\ Len(asked) > 0
      /\ \A i \in 1..Len(t) : i + 1 \in 1..Len(asked) /\ t[i] = asked[i + 1]
      /\ \A i \in 1..Len(asked) : i = 1 \/ (i - 1 \in 1..Len(t) /\ t[i - 1] = asked[i])
      /\ q = asked[1] /\ q \in Query
  BY <1>1, PopElements
<1> HIDE DEF q, t
<1>3. 1 \in 1..Len(asked)
  BY <1>2
<1>4. q.rec \in Slots /\ q.name \in Names /\ q.rec < next
      /\ rows[q.rec] = q.name /\ full[q.rec] = NoSymbol
  BY <1>2, <1>3, QueryTypes DEF PageInv, AskedInv
<1>5. decoded[q.rec] = NoSymbol
  BY <1>4 DEF PageInv, OwnAnswer
<1>6. ASSUME NEW i \in 1..Len(t) PROVE t[i].rec # q.rec
  <2>1. i + 1 \in 1..Len(asked) /\ i + 1 # 1 /\ t[i] = asked[i + 1]
    BY <1>2
  <2>. QED
    BY <1>2, <1>3, <2>1 DEF PageInv, AskedInv
<1>7. ASSUME NEW r \in Slots, Asking(r), r # q.rec
      PROVE  next <= r \/ \E i \in 1..Len(t) : t[i].rec = r
  <2>1. CASE \E i \in 1..Len(asked) : asked[i].rec = r
    <3>1. PICK i \in 1..Len(asked) : asked[i].rec = r
      BY <2>1
    <3>2. i - 1 \in 1..Len(t) /\ t[i - 1] = asked[i]
      BY <1>2, <1>7, <3>1
    <3>. QED
      BY <3>1, <3>2
  <2>. QED
    BY <1>7, <2>1 DEF Asking
<1>8. Len(t) \in Nat
  BY <1>2
<1>. QED
  BY <1>2, <1>4, <1>5, <1>6, <1>7, <1>8 DEF q, t

\* A query leaves without an answer for its record.
LEMMA DropInv ==
  ASSUME PageInv, page = "shown", asked # <<>>, asked' = Tail(asked),
         UNCHANGED <<found, page, rows, next, full, decoded, mangled, crashed>>,
         failed' \in {failed, failed \union {Head(asked).rec}},
         Head(asked).rec \in failed' \/ Matches(Head(asked).rec) = {}
  PROVE  PageInv'
<1> DEFINE q == Head(asked)
           t == Tail(asked)
<1>1. /\ q \in Query /\ q.rec \in Slots /\ q.rec < next
      /\ t \in Seq(Query) /\ Len(t) \in Nat
      /\ \A i \in 1..Len(t) : i + 1 \in 1..Len(asked) /\ t[i] = asked[i + 1]
      /\ \A r \in Slots : Asking(r) /\ r # q.rec =>
           next <= r \/ \E i \in 1..Len(t) : t[i].rec = r
  BY Answer
<1> HIDE DEF q, t
<1>t. asked' = t /\ failed' \in {failed, failed \union {q.rec}} /\ failed \subseteq failed'
      /\ (q.rec \in failed' \/ Matches(q.rec) = {})
  BY DEF q, t
<1>2. TypeOK'
  BY <1>1, <1>t DEF PageInv, TypeOK, Slots
<1>3. OwnAnswer'
  BY DEF PageInv, OwnAnswer, Slots, Matches
<1>4. AskedInv'
  <2>1. \A i, j \in 1..Len(t) : t[i].rec = t[j].rec => i = j
    <3> TAKE i, j \in 1..Len(t)
    <3>1. /\ i + 1 \in 1..Len(asked) /\ t[i] = asked[i + 1]
          /\ j + 1 \in 1..Len(asked) /\ t[j] = asked[j + 1]
      BY <1>1
    <3>2. t[i].rec = t[j].rec => i + 1 = j + 1
      BY <3>1 DEF PageInv, AskedInv
    <3>. QED
      BY <3>2
  <2>. QED
    BY <1>1, <1>t, <2>1 DEF PageInv, AskedInv, Slots
<1>5. MangledInv' /\ LoopInv'
  BY DEF PageInv, MangledInv, LoopInv, Slots
<1>6. AnswersInv'
  <2>1. \A i \in 1..Len(asked') : asked'[i].kind = "prefix" /\ asked'[i].rec \notin failed'
          => found'[asked'[i].name].full = NoSymbol
    BY <1>1, <1>t DEF PageInv, AnswersInv
  <2>2. ASSUME NEW r \in Slots, rows[r] \in Names, full[r] = NoSymbol, ~Asking(r)', r \notin failed'
        PROVE  Matches(r) = {}
    <3>1. CASE r = q.rec
      BY <1>t, <2>2, <3>1
    <3>2. CASE r # q.rec
      <4>1. ~Asking(r)
        BY <1>1, <1>t, <2>2, <3>2 DEF Asking
      <4>2. r \notin failed
        BY <1>t, <2>2
      <4>. QED
        BY <2>2, <4>1, <4>2 DEF PageInv, AnswersInv
    <3>. QED
      BY <3>1, <3>2
  <2>. QED
    BY <2>1, <2>2 DEF PageInv, AnswersInv, Slots, Matches, Demangled
<1>. QED
  BY <1>2, <1>3, <1>4, <1>5, <1>6 DEF PageInv

\* A query leaves with a symbol for its record, which goes to the extension.
LEMMA FillInv ==
  ASSUME PageInv, page = "shown", asked # <<>>, asked' = Tail(asked),
         NEW s \in Symbols, Fill(Head(asked), s), s \in Matches(Head(asked).rec),
         UNCHANGED <<found, page, rows, next, decoded, failed, crashed>>
  PROVE  PageInv'
<1> DEFINE q == Head(asked)
           t == Tail(asked)
           d == [rec |-> q.rec, raw |-> s]
<1>1. /\ q \in Query /\ q.rec \in Slots /\ q.rec < next /\ q.name \in Names
      /\ rows[q.rec] = q.name /\ full[q.rec] = NoSymbol /\ decoded[q.rec] = NoSymbol
      /\ t \in Seq(Query) /\ Len(t) \in Nat
      /\ \A i \in 1..Len(t) : t[i].rec # q.rec /\ i + 1 \in 1..Len(asked) /\ t[i] = asked[i + 1]
      /\ \A r \in Slots : Asking(r) /\ r # q.rec =>
           next <= r \/ \E i \in 1..Len(t) : t[i].rec = r
  BY Answer
<1>2. /\ d \in Demangling /\ d.rec = q.rec /\ d.raw = s
      /\ mangled \in Seq(Demangling)
  BY <1>1 DEF Demangling, Query, PageInv, TypeOK
<1> HIDE DEF q, t
<1>3. /\ asked' = t /\ s \in Matches(q.rec) /\ s # NoSymbol
      /\ full' = [full EXCEPT ![q.rec] = s] /\ mangled' = Append(mangled, d)
  BY SymbolsAssumption DEF q, t, Fill
<1> HIDE DEF d
<1>4. full \in [Slots -> Symbols \union {NoSymbol}] /\ full' \in [Slots -> Symbols \union {NoSymbol}]
      /\ full'[q.rec] = s /\ \A r \in Slots : r # q.rec => full'[r] = full[r]
  BY <1>1, <1>3 DEF PageInv, TypeOK
<1>5. /\ mangled' \in Seq(Demangling) /\ Len(mangled') = Len(mangled) + 1 /\ Len(mangled) \in Nat
      /\ \A i \in 1..Len(mangled) : mangled'[i] = mangled[i]
      /\ mangled'[Len(mangled) + 1] = d
      /\ \A i \in 1..Len(mangled') : i = Len(mangled) + 1 \/ i \in 1..Len(mangled)
  BY <1>2, <1>3, PushElements
<1>6. TypeOK'
  BY <1>1, <1>3, <1>4, <1>5 DEF PageInv, TypeOK, Slots
<1>7. OwnAnswer'
  <2>1. \A r \in Slots : Matches(r)' = Matches(r)
    BY DEF Matches
  <2>. QED
    BY <1>1, <1>3, <1>4, <2>1 DEF PageInv, OwnAnswer, Slots
<1>8. AskedInv'
  <2>1. \A i, j \in 1..Len(t) : t[i].rec = t[j].rec => i = j
    <3> TAKE i, j \in 1..Len(t)
    <3>. QED
      BY <1>1 DEF PageInv, AskedInv
  <2>. QED
    <3>1. ASSUME NEW i \in 1..Len(t)
          PROVE  /\ t[i].rec \in Slots /\ t[i].rec < next
                 /\ rows[t[i].rec] = t[i].name /\ full'[t[i].rec] = NoSymbol
      <4>1. t[i].rec # q.rec /\ i + 1 \in 1..Len(asked) /\ t[i] = asked[i + 1]
        BY <1>1
      <4>2. /\ t[i].rec \in Slots /\ t[i].rec < next
            /\ rows[t[i].rec] = t[i].name /\ full[t[i].rec] = NoSymbol
        BY <4>1 DEF PageInv, AskedInv
      <4>. QED
        BY <1>4, <4>1, <4>2
    <3>. QED
      BY <1>3, <2>1, <3>1 DEF AskedInv, Slots
<1>9. MangledInv'
  <2>1. ASSUME NEW i \in 1..Len(mangled)
        PROVE  mangled'[i].rec \in Slots /\ mangled'[i].raw = full'[mangled'[i].rec]
    <3>1. mangled[i].rec \in Slots /\ mangled[i].raw = full[mangled[i].rec]
      BY DEF PageInv, MangledInv
    <3>2. mangled[i].raw # NoSymbol
      BY QueryTypes, SymbolsAssumption
    <3>. QED
      BY <1>1, <1>4, <1>5, <3>1, <3>2
  <2>. QED
    BY <1>1, <1>2, <1>4, <1>5, <2>1 DEF MangledInv, Slots
<1>10. LoopInv'
  <2>1. q.rec \in Nat /\ next \in Nat
    BY <1>1 DEF Query, PageInv, TypeOK
  <2>. QED
    BY <1>1, <1>4, <2>1 DEF PageInv, LoopInv, Slots
<1>11. AnswersInv'
  <2>1. \A i \in 1..Len(asked') : asked'[i].kind = "prefix" /\ asked'[i].rec \notin failed'
          => found'[asked'[i].name].full = NoSymbol
    BY <1>1, <1>3 DEF PageInv, AnswersInv
  <2>2. ASSUME NEW r \in Slots, rows[r] \in Names, full'[r] = NoSymbol, ~Asking(r)', r \notin failed
        PROVE  Matches(r) = {}
    <3>1. r # q.rec /\ full[r] = NoSymbol
      BY <1>3, <1>4, <2>2
    <3>2. ~Asking(r)
      BY <1>1, <1>3, <2>2, <3>1 DEF Asking
    <3>. QED
      BY <2>2, <3>1, <3>2 DEF PageInv, AnswersInv
  <2>3. ASSUME NEW r \in Slots, full'[r] \in Decodable, decoded[r] = NoSymbol
        PROVE  ~Demangled(r)'
    <3>1. CASE r = q.rec
      BY <1>2, <1>5, <3>1 DEF Demangled
    <3>2. CASE r # q.rec
      <4>1. ~Demangled(r)
        BY <1>4, <2>3, <3>2 DEF PageInv, AnswersInv
      <4>. QED
        BY <1>5, <4>1 DEF Demangled
    <3>. QED
      BY <3>1, <3>2
  <2>. QED
    BY <2>1, <2>2, <2>3 DEF AnswersInv, Slots, Matches
<1>. QED
  BY <1>6, <1>7, <1>8, <1>9, <1>10, <1>11 DEF PageInv

\* No row, or an error: the prefix is asked for, behind the other queries.
LEMMA FullMissInv == PageInv /\ FullMiss => PageInv'
<1> SUFFICES ASSUME PageInv, FullMiss PROVE PageInv'
  OBVIOUS
<1> DEFINE q == Head(asked)
           t == Tail(asked)
           p == [q EXCEPT !.kind = "prefix"]
<1>1. asked # <<>>
  BY DEF FullMiss, Answered
<1>2. /\ q \in Query /\ q.rec \in Slots /\ q.rec < next /\ q.name \in Names
      /\ rows[q.rec] = q.name /\ full[q.rec] = NoSymbol
      /\ t \in Seq(Query) /\ Len(t) \in Nat
      /\ \A i \in 1..Len(t) : t[i].rec # q.rec /\ i + 1 \in 1..Len(asked) /\ t[i] = asked[i + 1]
      /\ \A r \in Slots : Asking(r) /\ r # q.rec =>
           next <= r \/ \E i \in 1..Len(t) : t[i].rec = r
  BY <1>1, Answer
<1>3. p \in Query /\ p.rec = q.rec /\ p.name = q.name
  BY <1>2 DEF Query
<1>4. /\ asked' = Append(t, p)
      /\ UNCHANGED <<found, page, rows, next, full, decoded, mangled, crashed>>
      /\ page = "shown"
      /\ failed' \subseteq Slots /\ failed \subseteq failed'
      /\ q.rec \notin failed' => found[q.name].full = NoSymbol
  BY <1>2 DEF FullMiss, Answered, PageInv, TypeOK, Slots
<1> HIDE DEF q, t, p
<1>5. /\ asked' \in Seq(Query) /\ Len(asked') = Len(t) + 1
      /\ \A i \in 1..Len(t) : asked'[i] = t[i]
      /\ asked'[Len(t) + 1] = p
      /\ \A i \in 1..Len(asked') : i = Len(t) + 1 \/ i \in 1..Len(t)
  BY <1>2, <1>3, <1>4, PushElements
<1>6. TypeOK'
  BY <1>4, <1>5 DEF PageInv, TypeOK, Slots
<1>7. OwnAnswer'
  BY <1>4 DEF PageInv, OwnAnswer, Slots, Matches
<1>8. AskedInv'
  <2>1. \A i, j \in 1..Len(t) : t[i].rec = t[j].rec => i = j
    <3> TAKE i, j \in 1..Len(t)
    <3>1. /\ i + 1 \in 1..Len(asked) /\ t[i] = asked[i + 1]
          /\ j + 1 \in 1..Len(asked) /\ t[j] = asked[j + 1]
      BY <1>2
    <3>2. t[i].rec = t[j].rec => i + 1 = j + 1
      BY <3>1 DEF PageInv, AskedInv
    <3>. QED
      BY <3>2
  <2>2. \A i, j \in 1..Len(asked') : asked'[i].rec = asked'[j].rec => i = j
    BY <1>2, <1>3, <1>5, <2>1
  <2>3. \A i \in 1..Len(t) : /\ t[i].rec \in Slots /\ t[i].rec < next
                             /\ rows[t[i].rec] = t[i].name /\ full[t[i].rec] = NoSymbol
    BY <1>2 DEF PageInv, AskedInv
  <2>. QED
    BY <1>2, <1>3, <1>4, <1>5, <2>2, <2>3 DEF AskedInv, Slots
<1>9. MangledInv' /\ LoopInv'
  BY <1>4 DEF PageInv, MangledInv, LoopInv, Slots
<1>10. AnswersInv'
  <2>1. \A i \in 1..Len(asked') : asked'[i].kind = "prefix" /\ asked'[i].rec \notin failed'
          => found[asked'[i].name].full = NoSymbol
    BY <1>2, <1>3, <1>4, <1>5 DEF PageInv, AnswersInv
  <2>2. ASSUME NEW r \in Slots, ~Asking(r)' PROVE ~Asking(r)
    <3>1. Len(t) + 1 \in 1..Len(asked')
      BY <1>2, <1>5
    <3>2. r # q.rec
      BY <1>3, <1>5, <2>2, <3>1 DEF Asking
    <3>3. \A i \in 1..Len(t) : i \in 1..Len(asked')
      BY <1>2, <1>5
    <3>. QED
      BY <1>2, <1>4, <1>5, <2>2, <3>2, <3>3 DEF Asking
  <2>. QED
    BY <1>4, <2>1, <2>2 DEF PageInv, AnswersInv, Slots, Matches, Demangled
<1>. QED
  BY <1>6, <1>7, <1>8, <1>9, <1>10 DEF PageInv

\* The other answers.
LEMMA DbAnswersInv == PageInv /\ DbAnswers => PageInv'
<1>1. ASSUME PageInv, FullHit PROVE PageInv'
  <2>1. Head(asked).rec \in Slots /\ rows[Head(asked).rec] = Head(asked).name
        /\ Head(asked).name \in Names
    BY <1>1, Answer DEF FullHit, Answered
  <2>2. found[Head(asked).name].full \in Symbols
    BY <1>1, <2>1 DEF FullHit, PageInv, TypeOK
  <2>3. found[Head(asked).name].full \in Matches(Head(asked).rec)
    BY <2>1, <2>2 DEF Matches
  <2>. QED
    BY <1>1, <2>2, <2>3, FillInv DEF FullHit, Answered
<1>2. ASSUME PageInv, PrefixHit PROVE PageInv'
  <2>1. Head(asked).rec \in Slots /\ rows[Head(asked).rec] = Head(asked).name
    BY <1>2, Answer DEF PrefixHit, Answered
  <2>2. PICK s \in Symbols : Sole(Head(asked).name, s) /\ Fill(Head(asked), s)
    BY <1>2 DEF PrefixHit
  <2>3. s \in Matches(Head(asked).rec)
    BY <2>1, <2>2 DEF Matches, Sole
  <2>. QED
    BY <1>2, <2>2, <2>3, FillInv DEF PrefixHit, Answered
<1>3. ASSUME PageInv, PrefixMiss PROVE PageInv'
  <2> DEFINE q == Head(asked)
  <2>1. /\ page = "shown" /\ asked # <<>> /\ asked' = Tail(asked) /\ q.kind = "prefix"
        /\ UNCHANGED <<found, page, rows, next, full, decoded, mangled, crashed>>
        /\ \/ (\A s \in Symbols : ~Sole(q.name, s)) /\ failed' = failed
           \/ failed' = failed \union {q.rec}
    BY <1>3 DEF PrefixMiss, Answered
  <2>2. q.rec \in Slots /\ rows[q.rec] = q.name /\ q = asked[1] /\ 1 \in 1..Len(asked)
    BY <1>3, <2>1, Answer, PopElements DEF PageInv, TypeOK
  <2>3. q.rec \in failed' \/ Matches(q.rec) = {}
    <3>1. q.rec \notin failed => found[q.name].full = NoSymbol
      BY <1>3, <2>1, <2>2 DEF PageInv, AnswersInv
    <3>2. CASE (\A s \in Symbols : ~Sole(q.name, s)) /\ failed' = failed
      BY <2>2, <3>1, <3>2, SymbolsAssumption DEF Matches, Sole
    <3>3. CASE failed' = failed \union {q.rec}
      BY <3>3
    <3>. QED
      BY <2>1, <3>2, <3>3
  <2>4. failed' \in {failed, failed \union {Head(asked).rec}}
    BY <2>1
  <2>. QED
    BY <1>3, <2>1, <2>3, <2>4, DropInv
<1>. QED
  BY <1>1, <1>2, <1>3, FullMissInv DEF DbAnswers

-----------------------------------------------------------------------------
(* The extension.                                                            *)

\* A demangling is done.
LEMMA DemanglesInv == PageInv /\ Demangles => PageInv'
<1> SUFFICES ASSUME PageInv, Refuse \/ Decode PROVE PageInv'
  <2>1. ASSUME PageInv, DecodeAndCrash PROVE PageInv'
    BY <2>1, PageOnlyInv DEF DecodeAndCrash
  <2>. QED
    BY <2>1 DEF Demangles
<1> DEFINE d == Head(mangled)
           t == Tail(mangled)
<1>1. mangled \in Seq(Demangling) /\ mangled # <<>>
  BY DEF PageInv, TypeOK, Refuse, Decode
<1>2. /\ t \in Seq(Demangling) /\ Len(t) \in Nat
      /\ \A i \in 1..Len(t) : i + 1 \in 1..Len(mangled) /\ t[i] = mangled[i + 1]
      /\ \A i \in 1..Len(mangled) : i = 1 \/ (i - 1 \in 1..Len(t) /\ t[i - 1] = mangled[i])
      /\ d = mangled[1] /\ 1 \in 1..Len(mangled)
  BY <1>1, PopElements
<1>3. d.rec \in Slots /\ d.raw = full[d.rec] /\ d.raw \in Symbols
  BY <1>2, QueryTypes DEF PageInv, MangledInv
<1>4. /\ UNCHANGED <<found, page, rows, next, full, asked, failed, crashed>>
      /\ mangled' = t
      /\ \/ d.raw \notin Decodable /\ decoded' = decoded
         \/ d.raw \in Decodable /\ decoded' = [decoded EXCEPT ![d.rec] = d.raw]
  BY DEF Refuse, Decode
<1> HIDE DEF d, t
<1>5. /\ decoded' \in [Slots -> Decodable \union {NoSymbol}]
      /\ \A r \in Slots : r # d.rec => decoded'[r] = decoded[r]
      /\ decoded'[d.rec] \in {decoded[d.rec], full[d.rec]}
      /\ full[d.rec] \in Decodable => decoded'[d.rec] # NoSymbol
  BY <1>3, <1>4, SymbolsAssumption DEF PageInv, TypeOK
<1>6. TypeOK'
  BY <1>2, <1>4, <1>5 DEF PageInv, TypeOK, Slots
<1>7. OwnAnswer'
  BY <1>3, <1>4, <1>5 DEF PageInv, OwnAnswer, Slots, Matches
<1>8. AskedInv' /\ LoopInv'
  <2>1. page # "loading"
    BY <1>1, EmptySeq DEF PageInv, LoopInv
  <2>. QED
    BY <1>4, <2>1 DEF PageInv, AskedInv, LoopInv, Slots
<1>9. MangledInv'
  BY <1>2, <1>4 DEF PageInv, MangledInv, Slots
<1>10. AnswersInv'
  <2>1. ASSUME NEW r \in Slots, full[r] \in Decodable, decoded'[r] = NoSymbol
        PROVE  ~Demangled(r)'
    <3>1. r # d.rec /\ decoded[r] = NoSymbol
      BY <1>5, <2>1
    <3>2. PICK i \in 1..Len(mangled) : mangled[i].rec = r
      BY <2>1, <3>1 DEF PageInv, AnswersInv, Demangled
    <3>3. i - 1 \in 1..Len(t) /\ t[i - 1] = mangled[i]
      BY <1>2, <3>1, <3>2
    <3>. QED
      BY <1>4, <3>2, <3>3 DEF Demangled
  <2>. QED
    BY <1>4, <2>1 DEF PageInv, AnswersInv, Slots, Matches, Asking
<1>. QED
  BY <1>6, <1>7, <1>8, <1>9, <1>10 DEF PageInv

-----------------------------------------------------------------------------
(* The theorems.                                                             *)

\* Every step keeps the invariant.
LEMMA NextInv == PageInv /\ [Next]_vars => PageInv'
<1> SUFFICES ASSUME PageInv, [Next]_vars PROVE PageInv'
  OBVIOUS
<1>0. crashed \in BOOLEAN
  BY DEF PageInv, TypeOK
<1>1. CASE ShowError \/ Filled
  BY <1>0, <1>1, PageOnlyInv DEF ShowError, Filled
<1>2. CASE UNCHANGED vars
  <2>1. UNCHANGED <<found, page, rows, next, full, decoded, asked, mangled, failed, crashed>>
    BY <1>2 DEF vars
  <2>2. TypeOK'
    BY <2>1 DEF PageInv, TypeOK, Slots
  <2>3. OwnAnswer' /\ AskedInv'
    BY <2>1 DEF PageInv, OwnAnswer, AskedInv, Slots, Matches
  <2>4. MangledInv' /\ LoopInv'
    BY <2>1 DEF PageInv, MangledInv, LoopInv, Slots
  <2>5. AnswersInv'
    BY <2>1 DEF PageInv, AnswersInv, Slots, Matches, Asking, Demangled
  <2>. QED
    BY <2>2, <2>3, <2>4, <2>5 DEF PageInv
<1>. QED
  BY <1>1, <1>2, ShowRowsInv, AskFullInv, DbAnswersInv, DemanglesInv DEF Next, Page, Halted

\* The parts on records, queries and demanglings are together inductive, for any
\* database and any number of slots (vtable.html, BedrockExt/main.cpp).
THEOREM PageInvariant == Spec => []PageInv
<1>. QED
  BY InitInv, NextInv, PTL DEF Spec

\* Every variable keeps its type: only names that the demangler accepted are
\* shown as decoded (BedrockExt/main.cpp:46).
THEOREM PageTypes == Spec => []TypeOK
<1>1. PageInv => TypeOK
  BY DEF PageInv
<1>. QED
  BY <1>1, PageInvariant, PTL

\* A record shows an answer to its own question (vtable.html:107-137).
THEOREM AnswersReachTheirRecord == Spec => []OwnAnswer
<1>1. PageInv => OwnAnswer
  BY DEF PageInv
<1>. QED
  BY <1>1, PageInvariant, PTL

\* The export never says more than is known (vtable.html:166-194).
THEOREM ExportNeverLies == Spec => []ExportHonest
<1>1. PageInv => ExportHonest
  <2> SUFFICES ASSUME PageInv, NEW r \in Slots
      PROVE  /\ Line(r) = "failed_to_decoded" /\ Demangled(r) => full[r] \notin Decodable
             /\ Line(r) = "unknown" /\ rows[r] \in Names /\ ~Asking(r) /\ r \notin failed
                  => Matches(r) = {}
             /\ Line(r) = "pure" <=> rows[r] = Pure
    BY DEF ExportHonest
  <2>1. rows[r] \in Items
    BY DEF PageInv, TypeOK, Slots
  <2>2. full[r] # NoSymbol => rows[r] \in Names
    BY DEF PageInv, OwnAnswer
  <2>3. decoded[r] # NoSymbol => full[r] # NoSymbol
    BY DEF PageInv, OwnAnswer
  <2>4. Line(r) = "failed_to_decoded" => decoded[r] = NoSymbol
    BY DEF Line
  <2>5. Line(r) = "unknown" => full[r] = NoSymbol
    BY DEF Line
  <2>6. Line(r) = "pure" <=> rows[r] = Pure
    BY <2>1, <2>2, <2>3, ItemsAssumption DEF Line, Items
  <2>. QED
    BY <2>4, <2>5, <2>6 DEF PageInv, AnswersInv
<1>. QED
  BY <1>1, PageInvariant, PTL
=============================================================================
