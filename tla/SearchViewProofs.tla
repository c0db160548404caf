-------------------------- MODULE SearchViewProofs --------------------------
(* The window of the virtual list and the answers of the search page, for    *)
(* arrays, views and any number of queries of every size: ViewInv is         *)
(* inductive, and the view is covered because of it.                         *)
EXTENDS SearchView, SequenceTheorems, TLAPS

-----------------------------------------------------------------------------
(* The queue of queries.                                                     *)

\* What a queue consists of after pushing.
LEMMA PushElements ==
  ASSUME NEW S, NEW q \in Seq(S), NEW x \in S
  PROVE  /\ Append(q, x) \in Seq(S)
         /\ Len(Append(q, x)) = Len(q) + 1 /\ Len(q) \in Nat
         /\ \A i \in 1..Len(q) : Append(q, x)[i] = q[i]
         /\ Append(q, x)[Len(q) + 1] = x
         /\ \A i \in 1..Len(Append(q, x)) : i = Len(q) + 1 \/ i \in 1..Len(q)
<1>. QED
  BY AppendProperties

\* What a queue consists of after popping.
LEMMA PopElements ==
  ASSUME NEW S, NEW q \in Seq(S), q # <<>>
  PROVE  /\ Tail(q) \in Seq(S)
         /\ Len(Tail(q)) = Len(q) - 1 /\ Len(q) \in Nat /\ Len(q) > 0
         /\ \A i \in 1..Len(Tail(q)) : i + 1 \in 1..Len(q) /\ Tail(q)[i] = q[i + 1]
         /\ \A i \in 1..Len(q) : i = 1 \/ (i - 1 \in 1..Len(Tail(q)) /\ Tail(q)[i - 1] = q[i])
         /\ Head(q) = q[1] /\ Head(q) \in S
<1>. QED
  BY HeadTailProperties, EmptySeq

-----------------------------------------------------------------------------
(* The window of rendered records.                                           *)

Versions == 0..MaxVersion
Element == [src : Nat, idx : Nat, ver : Versions]

\* The elements are those of an array from the index lo on.
Shows(e, src, array, lo) ==
  \A j \in 1..Len(e) :
    e[j] = [src |-> src, idx |-> lo + j - 1, ver |-> array[lo + j]]

-----------------------------------------------------------------------------
(* Sequences of elements.                                                    *)

\* Rendering n records that the array has makes n elements; none if n < 1.
LEMMA RenderedFacts ==
  ASSUME NEW src \in Nat, NEW array \in Seq(Versions), NEW lo \in Nat, NEW n \in Int,
         lo + n <= Len(array) \/ n <= 0
  PROVE  /\ Rendered(src, array, lo, n) \in Seq(Element)
         /\ Len(Rendered(src, array, lo, n)) = Greatest(0, n)
         /\ Shows(Rendered(src, array, lo, n), src, array, lo)
<1> DEFINE e == Rendered(src, array, lo, n)
           m == Greatest(0, n)
<1>1. m \in Nat /\ 1..n = 1..m
  BY DEF Greatest
<1>2. \A j \in 1..m : array[lo + j] \in Versions
  <2>1. \A j \in 1..m : lo + j \in 1..Len(array)
    BY LenProperties DEF Greatest
  <2>. QED
    BY <2>1
<1>3. \A j \in 1..m : [src |-> src, idx |-> lo + j - 1, ver |-> array[lo + j]] \in Element
  BY <1>1, <1>2 DEF Element
<1>4. e = [j \in 1..m |-> [src |-> src, idx |-> lo + j - 1, ver |-> array[lo + j]]]
  BY <1>1 DEF Rendered
<1>. HIDE DEF e, m
<1>5. e \in [1..m -> Element]
  BY <1>3, <1>4
<1>6. e \in Seq(Element) /\ Len(e) = m
  BY <1>1, <1>5
<1>7. Shows(e, src, array, lo)
  BY <1>4, <1>6 DEF Shows
<1>. QED
  BY <1>6, <1>7 DEF e, m

\* Elements of adjacent parts of an array, one after the other.
LEMMA JoinedFacts ==
  ASSUME NEW a \in Seq(Element), NEW b \in Seq(Element)
  PROVE  /\ a \o b \in Seq(Element)
         /\ Len(a \o b) = Len(a) + Len(b)
         /\ \A src, array : \A lo \in Nat :
              Shows(a, src, array, lo) /\ Shows(b, src, array, lo + Len(a))
                => Shows(a \o b, src, array, lo)
<1>1. /\ a \o b \in Seq(Element)
      /\ Len(a \o b) = Len(a) + Len(b)
      /\ \A i \in 1 .. Len(a) + Len(b) :
           (a \o b)[i] = IF i <= Len(a) THEN a[i] ELSE b[i - Len(a)]
      /\ Len(a) \in Nat /\ Len(b) \in Nat
  BY ConcatProperties, LenProperties
<1>2. ASSUME NEW src, NEW array, NEW lo \in Nat, NEW j \in 1..Len(a \o b),
             Shows(a, src, array, lo), Shows(b, src, array, lo + Len(a))
      PROVE  (a \o b)[j] = [src |-> src, idx |-> lo + j - 1, ver |-> array[lo + j]]
  <2>1. CASE j <= Len(a)
    BY <1>1, <1>2, <2>1 DEF Shows
  <2>2. CASE j > Len(a)
    <3>1. j - Len(a) \in 1..Len(b) /\ (lo + Len(a)) + (j - Len(a)) = lo + j
      BY <1>1, <2>2
    <3>2. (a \o b)[j] = b[j - Len(a)]
      BY <1>1, <2>2
    <3>. QED
      BY <1>2, <3>1, <3>2 DEF Shows
  <2>. QED
    BY <1>1, <2>1, <2>2
<1>. QED
  BY <1>1, <1>2 DEF Shows

\* A part of the elements.
LEMMA PartFacts ==
  ASSUME NEW e \in Seq(Element), NEW m \in Int, NEW n \in Int, 1 <= m, n <= Len(e)
  PROVE  /\ SubSeq(e, m, n) \in Seq(Element)
         /\ Len(SubSeq(e, m, n)) = Greatest(0, n - m + 1)
         /\ \A src, array : \A lo \in Nat :
              Shows(e, src, array, lo) => Shows(SubSeq(e, m, n), src, array, lo + m - 1)
<1> DEFINE p == SubSeq(e, m, n)
<1>1. \A i \in m..n : e[i] \in Element
  BY LenProperties
<1>2. /\ p \in Seq(Element)
      /\ Len(p) = IF m <= n THEN n - m + 1 ELSE 0
      /\ \A i \in 1 .. n - m + 1 : p[i] = e[m + i - 1]
  BY <1>1, SubSeqProperties
<1>. HIDE DEF p
<1>3. Len(p) = Greatest(0, n - m + 1)
  BY <1>2 DEF Greatest
<1>4. ASSUME NEW src, NEW array, NEW lo \in Nat, NEW j \in 1..Len(p), Shows(e, src, array, lo)
      PROVE  p[j] = [src |-> src, idx |-> lo + m - 1 + j - 1, ver |-> array[lo + m - 1 + j]]
  <2>1. j \in 1 .. n - m + 1 /\ m + j - 1 \in 1..Len(e)
    BY <1>2, LenProperties
  <2>2. p[j] = e[m + j - 1]
    BY <1>2, <2>1
  <2>3. lo + (m + j - 1) - 1 = lo + m - 1 + j - 1 /\ lo + (m + j - 1) = lo + m - 1 + j
    BY <2>1
  <2>. QED
    BY <1>4, <2>1, <2>2, <2>3 DEF Shows
<1>. QED
  BY <1>2, <1>3, <1>4 DEF Shows, p

-----------------------------------------------------------------------------
(* The three ways to fill the window.                                        *)

\* The window is full: it reaches the end of the array or has all its elements.
Full(bs, e, size, n) == bs + Len(e) >= Least(bs + size, n)

\* It does not go beyond the end.
Within(bs, e, n) == bs + Len(e) <= n

\* Filled anew, the window is in the array and full.
LEMMA ResetViewFacts ==
  ASSUME NEW src \in Nat, NEW array \in Seq(Versions), NEW start \in Int, NEW size \in Nat,
         ResetView(src, array, start, size)
  PROVE  /\ buffer_start' = Greatest(0, IF start + size > Len(array)
                                         THEN Len(array) - size ELSE start)
         /\ buffer_start' \in Nat /\ buffer_start' <= Len(array)
         /\ els' \in Seq(Element)
         /\ Shows(els', src, array, buffer_start')
         /\ Full(buffer_start', els', size, Len(array))
         /\ Within(buffer_start', els', Len(array))
         /\ skewed' = FALSE
<1>1. Len(array) \in Nat
  OBVIOUS
<1>2. /\ buffer_start' = Greatest(0, IF start + size > Len(array)
                                       THEN Len(array) - size ELSE start)
      /\ els' = Rendered(src, array, buffer_start', Least(size, Len(array) - buffer_start'))
      /\ skewed' = FALSE
  BY DEF ResetView
<1>3. buffer_start' \in Nat /\ buffer_start' <= Len(array)
  BY <1>1, <1>2 DEF Greatest
<1>4. /\ Least(size, Len(array) - buffer_start') \in Nat
      /\ buffer_start' + Least(size, Len(array) - buffer_start') <= Len(array)
  BY <1>1, <1>3 DEF Least
<1>5. /\ els' \in Seq(Element)
      /\ Len(els') = Least(size, Len(array) - buffer_start')
      /\ Shows(els', src, array, buffer_start')
  BY <1>2, <1>3, <1>4, RenderedFacts DEF Greatest
<1>6. Full(buffer_start', els', size, Len(array)) /\ Within(buffer_start', els', Len(array))
  BY <1>1, <1>3, <1>4, <1>5 DEF Full, Within, Least
<1>. QED
  BY <1>2, <1>3, <1>5, <1>6

\* Where a window may begin that moves down.
LEMMA ClampFacts ==
  ASSUME recs \in Seq(Versions), NEW i \in Nat, NEW size \in Nat, size >= 3
  PROVE  /\ ClampAfter(i, size) \in Nat
         /\ ClampAfter(i, size) <= Size
         /\ ClampAfter(i, size) <= i
         /\ ClampAfter(i, size) + size >= Least(i + size, Size)
<1>1. Len(recs) \in Nat
  OBVIOUS
<1>. QED
  BY <1>1 DEF ClampAfter, Greatest, Least, Size

\* A full window that begins or ends where it has to covers a view of vis rows.
LEMMA Reach ==
  ASSUME NEW bs \in Nat, NEW len \in Nat, NEW vis \in Nat, NEW n \in Nat, NEW t \in Nat,
         \/ bs + len >= Least(t + vis + 3, n)
         \/ /\ bs + len >= Least(bs + vis + 3, n)
            /\ bs + vis + 3 >= Least(t + vis + 1, n)
  PROVE  bs + len >= Least(t + vis + 1, n)
  BY DEF Least

\* A window that begins where the view asks for a position p near its own reaches
\* as far as the view.
LEMMA FollowReach ==
  ASSUME NEW bs \in Nat, NEW vis \in Nat, NEW p \in Nat, NEW n \in Nat, NEW t \in Nat,
         p + vis >= Least(t + vis, n - 1),
         \/ bs + vis + 3 >= Least(p + vis + 3, n)
         \/ p + vis < bs + vis + 3
  PROVE  bs + vis + 3 >= Least(t + vis + 1, n)
  BY DEF Least

\* What covers a view covers one with fewer rows, or any of an empty array.
LEMMA Shrink ==
  ASSUME NEW bs \in Nat, NEW len \in Nat, NEW n \in Nat, NEW t \in Nat, NEW vis \in Nat,
         NEW less \in Nat, NEW u \in Nat, u <= t, less < vis \/ n = 0,
         bs + len >= Least(t + vis + 1, n)
  PROVE  bs + len >= Least(u + less + 1, n)
  BY DEF Least

\* Moved down, the window is full, and if its elements were not taken for others
\* they are the right ones and in the array.
LEMMA PumpAfterFacts ==
  ASSUME ListTypeOK, PlaceInv, WindowFaithful,
         NEW i \in Nat, NEW size \in Nat, size >= 3, PumpAfter(i, size)
  PROVE  /\ buffer_start' = ClampAfter(i, size)
         /\ buffer_start' \in Nat /\ buffer_start' <= Size
         /\ els' \in Seq(Element)
         /\ skewed' \in BOOLEAN
         /\ Full(buffer_start', els', size, Size)
         /\ ~skewed' => /\ Shows(els', source, recs, buffer_start')
                        /\ Within(buffer_start', els', Size)
<1> DEFINE first == ClampAfter(i, size)
           m == Greatest(0, first - buffer_start) + 1
           kept == SubSeq(els, m, Len(els))
           lo == first + Len(kept)
           n == Least(first + size, Size) - first - Len(kept)
           more == Rendered(source, recs, lo, n)
<1>1. /\ source \in Nat /\ recs \in Seq(Versions) /\ buffer_start \in Nat
      /\ els \in Seq(Element) /\ skewed \in BOOLEAN /\ Size \in Nat /\ Len(els) \in Nat
  BY DEF ListTypeOK, Versions, Element, Size
<1>2. first \in Nat /\ first <= Size
  BY <1>1, ClampFacts
<1>3. /\ buffer_start' = first
      /\ els' = kept \o more
      /\ skewed' = (skewed \/ (first < buffer_start /\ els # <<>>))
  BY DEF PumpAfter
<1>. HIDE DEF first
<1>4. m \in Nat /\ 1 <= m
  BY <1>1, <1>2 DEF Greatest
<1>. HIDE DEF m
<1>5. /\ kept \in Seq(Element) /\ Len(kept) = Greatest(0, Len(els) - m + 1)
      /\ \A lo0 \in Nat : Shows(els, source, recs, lo0)
           => Shows(kept, source, recs, lo0 + m - 1)
  <2>1. m \in Int /\ Len(els) \in Int /\ Len(els) <= Len(els)
    BY <1>1, <1>4
  <2>. QED
    BY <1>1, <1>4, <2>1, PartFacts
<1>. HIDE DEF kept
<1>6. Len(kept) \in Nat /\ lo \in Nat /\ n \in Int /\ (lo + n <= Size \/ n <= 0)
  BY <1>1, <1>2, <1>5 DEF Least
<1>7. /\ more \in Seq(Element)
      /\ Len(more) = Greatest(0, n)
      /\ Shows(more, source, recs, first + Len(kept))
  BY <1>1, <1>6, RenderedFacts DEF Size
<1>. HIDE DEF more
<1>8. /\ els' \in Seq(Element) /\ Len(els') = Len(kept) + Len(more)
      /\ Shows(kept, source, recs, first) => Shows(els', source, recs, first)
  BY <1>2, <1>3, <1>5, <1>7, JoinedFacts
<1>9. skewed' \in BOOLEAN
  BY <1>1, <1>3
<1>10. Full(first, els', size, Size)
  BY <1>1, <1>2, <1>6, <1>7, <1>8 DEF Full, Greatest, Least
<1>11. ASSUME ~skewed'
       PROVE  Shows(els', source, recs, first) /\ Within(first, els', Size)
  <2>1. ~skewed /\ (first >= buffer_start \/ els = <<>>)
    <3>1. ~skewed /\ ~(first < buffer_start /\ els # <<>>)
      BY <1>1, <1>3, <1>11, Zenon
    <3>. QED
      BY <1>1, <1>2, <3>1
  <2>2. Shows(els, source, recs, buffer_start) /\ buffer_start + Len(els) <= Size
    BY <1>1, <2>1 DEF WindowFaithful, PlaceInv, Shows, Greatest
  <2>3. CASE els = <<>>
    <3>1. Len(els) = 0
      BY <2>3, EmptySeq
    <3>2. Len(kept) = 0
      BY <1>1, <1>4, <1>5, <3>1 DEF Greatest
    <3>3. Shows(kept, source, recs, first)
      BY <3>2 DEF Shows
    <3>4. Within(first, els', Size)
      BY <1>1, <1>2, <1>7, <1>8, <3>2 DEF Within, Greatest, Least
    <3>. QED
      BY <1>8, <3>3, <3>4
  <2>4. CASE first >= buffer_start
    <3>1. m = first - buffer_start + 1 /\ buffer_start + m - 1 = first
      BY <1>1, <1>2, <2>4 DEF Greatest, m
    <3>2. Shows(kept, source, recs, first)
      BY <1>1, <1>5, <2>2, <3>1
    <3>3. first + Len(kept) <= Size
      BY <1>1, <1>2, <1>5, <2>2, <3>1 DEF Greatest
    <3>4. Within(first, els', Size)
      BY <1>1, <1>2, <1>6, <1>7, <1>8, <3>3 DEF Within, Greatest, Least
    <3>. QED
      BY <1>8, <3>2, <3>4
  <2>. QED
    BY <2>1, <2>3, <2>4
<1>. QED
  BY <1>2, <1>3, <1>8, <1>9, <1>11, <1>10 DEF first

\* Moved up, the window begins where it has to, is in the array and full.
LEMMA PumpBeforeFacts ==
  ASSUME ListTypeOK, PlaceInv, WindowFaithful,
         NEW i \in Nat, NEW size \in Nat, size >= 3, i < buffer_start,
         buffer_start + Len(els) >= Least(buffer_start + size, Size),
         PumpBefore(i, size)
  PROVE  /\ buffer_start' \in Nat /\ buffer_start' <= Size /\ buffer_start' <= i
         /\ els' \in Seq(Element)
         /\ skewed' = skewed
         /\ Full(buffer_start', els', size, Size)
         /\ buffer_start' + Len(els') >= Least(i + size, Size)
         /\ ~skewed => /\ Shows(els', source, recs, buffer_start')
                       /\ Within(buffer_start', els', Size)
<1> DEFINE l == Least(Len(els), i + size - buffer_start)
           kept == SubSeq(els, 1, l)
           n == IF kept # <<>> THEN buffer_start ELSE Least(Size, i + size)
           count == Least(n, size - Len(kept))
           more == Rendered(source, recs, n - count, count)
<1>1. /\ source \in Nat /\ recs \in Seq(Versions) /\ buffer_start \in Nat
      /\ els \in Seq(Element) /\ skewed \in BOOLEAN /\ Size \in Nat /\ Len(els) \in Nat
      /\ Size = Len(recs) /\ buffer_start <= Size
  BY DEF ListTypeOK, Versions, Element, Size, PlaceInv
<1>2. l \in Int /\ l <= Len(els) /\ l <= i + size - buffer_start
  BY <1>1 DEF Least
<1>3. /\ buffer_start' = n - count
      /\ els' = more \o kept
      /\ skewed' = skewed
  BY DEF PumpBefore
<1>. HIDE DEF l
<1>4. /\ kept \in Seq(Element) /\ Len(kept) = Greatest(0, l)
      /\ \A lo \in Nat : Shows(els, source, recs, lo) => Shows(kept, source, recs, lo)
  <2>1. PICK m \in Int : m = 1
    OBVIOUS
  <2>2. /\ SubSeq(els, m, l) \in Seq(Element)
        /\ Len(SubSeq(els, m, l)) = Greatest(0, l - m + 1)
        /\ \A lo \in Nat : Shows(els, source, recs, lo)
             => Shows(SubSeq(els, m, l), source, recs, lo + m - 1)
    <3>1. 1 <= m
      BY <2>1
    <3>. QED
      BY <1>1, <1>2, <3>1, PartFacts
  <2>3. l - m + 1 = l /\ \A lo \in Nat : lo + m - 1 = lo
    BY <1>2, <2>1
  <2>. QED
    BY <2>1, <2>2, <2>3
<1>. HIDE DEF kept
<1>5. /\ Len(kept) \in Nat /\ Len(kept) < size
      /\ kept = <<>> <=> Len(kept) = 0
  <2>1. Len(kept) \in Nat /\ Len(kept) < size
    BY <1>1, <1>2, <1>4 DEF Greatest
  <2>2. Len(<<>>) = 0 /\ (kept # <<>> => Len(kept) \in Nat \ {0})
    BY <1>4, EmptySeq
  <2>. QED
    BY <2>1, <2>2
<1>6. n \in Nat /\ n <= Size
  BY <1>1 DEF Least
<1>7. count \in Nat /\ count <= n /\ count <= size - Len(kept)
      /\ (count = n \/ count = size - Len(kept))
  BY <1>5, <1>6 DEF Least
<1>8. n - count \in Nat /\ n - count <= i
  <2>1. CASE kept = <<>>
    BY <1>1, <1>5, <1>6, <1>7, <2>1 DEF Least
  <2>2. CASE kept # <<>>
    BY <1>1, <1>2, <1>4, <1>5, <1>6, <1>7, <2>2 DEF Greatest
  <2>. QED
    BY <2>1, <2>2
<1>9. kept # <<>> => n = buffer_start
  OBVIOUS
<1>10. kept = <<>> => n = Least(Size, i + size)
  OBVIOUS
<1>. HIDE DEF n
<1>. HIDE DEF count
<1>11. /\ more \in Seq(Element) /\ Len(more) = count
       /\ Shows(more, source, recs, n - count)
  <2>1. (n - count) + count <= Len(recs) /\ count \in Int /\ Greatest(0, count) = count
    BY <1>1, <1>6, <1>7 DEF Greatest
  <2>. QED
    BY <1>1, <1>8, <2>1, RenderedFacts
<1>. HIDE DEF more
<1>12. /\ els' \in Seq(Element) /\ Len(els') = count + Len(kept)
       /\ Shows(kept, source, recs, n) => Shows(els', source, recs, n - count)
  <2>1. (n - count) + count = n
    BY <1>6, <1>7
  <2>. QED
    BY <1>3, <1>4, <1>8, <1>11, <2>1, JoinedFacts
<1>13. kept # <<>> => Len(kept) <= Len(els)
                      /\ (Len(kept) = Len(els) \/ Len(kept) = i + size - buffer_start)
  BY <1>1, <1>2, <1>4, <1>5 DEF Greatest, Least, l
<1>14. Full(n - count, els', size, Size) /\ (n - count) + Len(els') >= Least(i + size, Size)
  <2>1. CASE kept = <<>>
    BY <1>1, <1>5, <1>6, <1>7, <1>8, <1>10, <1>12, <2>1 DEF Full, Least
  <2>2. CASE kept # <<>>
    BY <1>1, <1>5, <1>6, <1>7, <1>8, <1>9, <1>12, <1>13, <2>2, SMTT(30) DEF Full, Least
  <2>. QED
    BY <2>1, <2>2
<1>15. ASSUME ~skewed
       PROVE  Shows(els', source, recs, n - count) /\ Within(n - count, els', Size)
  <2>1. Shows(els, source, recs, buffer_start) /\ buffer_start + Len(els) <= Size
    BY <1>1, <1>15 DEF WindowFaithful, Shows, Greatest
  <2>2. CASE kept = <<>>
    <3>1. Shows(kept, source, recs, n)
      BY <1>5, <2>2 DEF Shows
    <3>2. Within(n - count, els', Size)
      BY <1>1, <1>5, <1>6, <1>7, <1>8, <1>12, <2>2 DEF Within
    <3>. QED
      BY <1>12, <3>1, <3>2
  <2>3. CASE kept # <<>>
    <3>1. Shows(kept, source, recs, n)
      BY <1>1, <1>4, <1>9, <2>1, <2>3
    <3>2. Within(n - count, els', Size)
      BY <1>1, <1>5, <1>6, <1>7, <1>8, <1>9, <1>12, <1>13, <2>1, <2>3 DEF Within
    <3>. QED
      BY <1>12, <3>1, <3>2
  <2>. QED
    BY <2>2, <2>3
<1>. QED
  BY <1>1, <1>3, <1>6, <1>7, <1>8, <1>12, <1>15, <1>14

-----------------------------------------------------------------------------
(* The steps of the list.                                                    *)

\* What the parts of ViewInv say about the list, collected.
LEMMA ListFacts ==
  ASSUME ViewInv
  PROVE  /\ scrollPos \in Int /\ scrollPos >= NoEvent /\ told \in BOOLEAN
         /\ NoEvent = -1 /\ told => scrollPos \in {NoEvent, top}
         /\ Followed => buffer_start <= top
         /\ ListTypeOK /\ PlaceInv /\ WindowFaithful /\ Covered
         /\ source \in Nat /\ recs \in Seq(Versions) /\ buffer_start \in Nat
         /\ visible_items \in Nat /\ els \in Seq(Element) /\ top \in Nat
         /\ skewed \in BOOLEAN /\ Size \in Nat /\ Len(els) \in Nat /\ Size = Len(recs)
         /\ BufferSize(visible_items) \in Nat /\ BufferSize(visible_items) >= 3
         /\ Element = [src : Nat, idx : Nat, ver : 0..MaxVersion]
         /\ MaxRecords \in Nat /\ MaxVisible \in Nat /\ MaxVersion \in Nat
  BY BoundsAssumption DEF ViewInv, ListInv, ListTypeOK, Versions, Element, Size, BufferSize, NoEvent, PlaceInv

\* A window that is right and full, in the next state.
LEMMA WindowKept ==
  ASSUME buffer_start' \in Nat, els' \in Seq(Element), recs' \in Seq(Versions),
         visible_items' \in Nat,
         Full(buffer_start', els', BufferSize(visible_items'), Size'),
         ~skewed' => /\ Shows(els', source', recs', buffer_start')
                     /\ Within(buffer_start', els', Size')
  PROVE  /\ WindowFaithful'
         /\ buffer_start' + Len(els')
              >= Least(buffer_start' + BufferSize(visible_items'), Size')
<1>1. Len(els') \in Nat /\ Size' \in Nat
  BY DEF Size
<1>2. Within(buffer_start', els', Size')
        => buffer_start' + Len(els') <= Greatest(buffer_start', Size')
  BY <1>1 DEF Within, Greatest
<1>. QED
  BY <1>2 DEF WindowFaithful, Shows, Full

\* A move of the position that the list handles later: it is told with an event that
\* waits, or it is not told, or the position stays.
LEMMA MoveFacts ==
  ASSUME ViewInv, NEW p \in Nat, ScrollTo(p)
  PROVE  /\ top' = p
         /\ scrollPos' \in Nat \cup {NoEvent} /\ told' \in BOOLEAN
         /\ told' => scrollPos' \in {NoEvent, top'}
         /\ Followed' => Followed /\ p = top
<1>1. /\ scrollPos \in Nat \cup {NoEvent} /\ told \in BOOLEAN
      /\ told => scrollPos \in {NoEvent, top}
  BY DEF ViewInv, ListInv, ListTypeOK, PlaceInv
<1>2. p # NoEvent
  BY DEF NoEvent
<1>3. CASE p = top /\ UNCHANGED <<scrollPos, told>>
  BY <1>1, <1>3 DEF ScrollTo, Followed
<1>4. CASE scrollPos' = p /\ told' = TRUE
  BY <1>2, <1>4 DEF ScrollTo, Followed
<1>5. CASE told' = FALSE /\ UNCHANGED scrollPos
  BY <1>1, <1>5 DEF ScrollTo, Followed
<1>. QED
  BY <1>3, <1>4, <1>5 DEF ScrollTo

\* Another array: SetValue fills the window anew.
LEMMA SetValueInv ==
  ASSUME ListTypeOK, PlaceInv, WindowFaithful, ViewInv,
         NEW src \in Nat \ {0}, NEW array \in Seq(Versions), SetValue(src, array)
  PROVE  ListTypeOK' /\ PlaceInv' /\ WindowFaithful' /\ Covered' /\ source' = src
<1>0. /\ ListTypeOK /\ PlaceInv /\ WindowFaithful /\ Covered
      /\ source \in Nat /\ recs \in Seq(Versions) /\ buffer_start \in Nat
      /\ visible_items \in Nat /\ els \in Seq(Element) /\ top \in Nat
      /\ skewed \in BOOLEAN /\ Size \in Nat /\ Len(els) \in Nat /\ Size = Len(recs)
      /\ BufferSize(visible_items) = visible_items + 3
      /\ Element = [src : Nat, idx : Nat, ver : 0..MaxVersion]
  BY ListFacts DEF BufferSize
<1>. USE <1>0
<1>1. /\ source' = src /\ recs' = array /\ top' = 0 /\ visible_items' = visible_items
      /\ ResetView(src, array, buffer_start, BufferSize(visible_items))
      /\ ScrollTo(0)
  BY DEF SetValue, ScrollTo
<1>m. /\ scrollPos' \in Nat \cup {NoEvent} /\ told' \in BOOLEAN
      /\ told' => scrollPos' \in {NoEvent, top'}
      /\ Followed' => Followed /\ top = 0
  <2>1. PICK p \in Nat : p = 0
    OBVIOUS
  <2>2. ScrollTo(p)
    BY <1>1, <2>1
  <2>. QED
    BY <2>1, <2>2, MoveFacts
<1>2. /\ buffer_start' = Greatest(0, IF buffer_start + BufferSize(visible_items) > Len(array)
                                       THEN Len(array) - BufferSize(visible_items)
                                       ELSE buffer_start)
      /\ buffer_start' \in Nat /\ buffer_start' <= Len(array)
      /\ els' \in Seq(Element)
      /\ Shows(els', src, array, buffer_start')
      /\ Full(buffer_start', els', BufferSize(visible_items), Len(array))
      /\ Within(buffer_start', els', Len(array))
      /\ skewed' = FALSE
  <2>1. /\ src \in Nat /\ buffer_start \in Int /\ BufferSize(visible_items) \in Nat
        /\ ResetView(src, array, buffer_start, BufferSize(visible_items))
    BY <1>1
  <2>. HIDE DEF BufferSize
  <2>. QED
    BY <2>1, ResetViewFacts
<1>3. Size' = Len(array) /\ Len(array) \in Nat
  BY <1>1 DEF Size
<1>4. Followed' => buffer_start' <= top'
  <2>1. Followed' => Followed /\ top = 0
    BY <1>m
  <2>2. Followed /\ top = 0 => buffer_start = 0
    BY DEF PlaceInv
  <2>3. buffer_start = 0 => buffer_start' = 0
    BY <1>2, <1>3 DEF Greatest
  <2>. QED
    BY <1>1, <2>1, <2>2, <2>3
<1>5. WindowFaithful' /\ buffer_start' + Len(els')
                           >= Least(buffer_start' + BufferSize(visible_items'), Size')
  BY <1>1, <1>2, <1>3, WindowKept
<1>7. ListTypeOK'
  BY <1>1, <1>2, <1>m DEF ListTypeOK, Versions, Element
<1>8. top' <= Greatest(0, Size' - visible_items')
  BY <1>1, <1>3 DEF Greatest
<1>9. Covered'
  <2>1. BufferSize(visible_items') = visible_items + 3 /\ Len(els') \in Nat
    BY <1>1, <1>2 DEF BufferSize
  <2>. QED
    BY <1>1, <1>2, <1>3, <1>4, <1>5, <2>1 DEF Covered, Least
<1>. QED
  BY <1>1, <1>2, <1>3, <1>4, <1>5, <1>7, <1>8, <1>9, <1>m DEF PlaceInv

\* The user scrolls: nothing moves but the position.
LEMMA ScrollInv ==
  ASSUME ViewInv, Scroll
  PROVE  ListTypeOK' /\ PlaceInv' /\ WindowFaithful' /\ Covered'
<1>0. /\ ListTypeOK /\ PlaceInv /\ WindowFaithful /\ Covered
      /\ source \in Nat /\ recs \in Seq(Versions) /\ buffer_start \in Nat
      /\ visible_items \in Nat /\ els \in Seq(Element) /\ top \in Nat
      /\ skewed \in BOOLEAN /\ Size \in Nat /\ Len(els) \in Nat /\ Size = Len(recs)
      /\ BufferSize(visible_items) = visible_items + 3
      /\ Element = [src : Nat, idx : Nat, ver : 0..MaxVersion]
  BY ListFacts DEF BufferSize
<1>. USE <1>0
<1>1. /\ UNCHANGED <<source, recs, visible_items, buffer_start, els, skewed>>
      /\ scrollPos' = top' /\ told' = TRUE /\ ~Followed'
      /\ top' \in Nat /\ top' <= Greatest(0, Size - visible_items)
  BY DEF Scroll, Greatest, LastTop, Followed, NoEvent
<1>2. ListTypeOK'
  BY <1>1 DEF ListTypeOK
<1>3. PlaceInv'
  BY <1>1 DEF PlaceInv, Size
<1>4. WindowFaithful'
  BY <1>1 DEF WindowFaithful, Size
<1>5. Covered'
  BY <1>1 DEF Covered
<1>. QED
  BY <1>2, <1>3, <1>4, <1>5

\* A record is picked: nothing moves but the position.
LEMMA SetCurrentInv ==
  ASSUME ViewInv, SetCurrent
  PROVE  ListTypeOK' /\ PlaceInv' /\ WindowFaithful' /\ Covered'
<1>0. /\ ListTypeOK /\ PlaceInv /\ WindowFaithful /\ Covered
      /\ source \in Nat /\ recs \in Seq(Versions) /\ buffer_start \in Nat
      /\ visible_items \in Nat /\ els \in Seq(Element) /\ top \in Nat
      /\ skewed \in BOOLEAN /\ Size \in Nat /\ Len(els) \in Nat /\ Size = Len(recs)
  BY ListFacts
<1>1. UNCHANGED <<source, recs, visible_items, buffer_start, els, skewed>>
  BY DEF SetCurrent
<1>2. PICK y \in Int : ScrollTo(Greatest(0, Least(y, LastTop)))
  <2>1. PICK index \in 0..Size - 1 :
          LET end == buffer_start + Len(els)
              above == index < buffer_start \/ (index < end /\ index < top)
              below == index >= end \/ index >= top + visible_items
              y == IF above THEN index
                   ELSE IF below THEN index - visible_items + 1 ELSE top
          IN  ScrollTo(Greatest(0, Least(y, LastTop)))
    BY DEF SetCurrent
  <2>2. index \in Int /\ index - visible_items + 1 \in Int /\ top \in Int
    BY <1>0
  <2>. QED
    BY <2>1, <2>2
<1>3. PICK p \in Nat : /\ p = Greatest(0, Least(y, LastTop))
                       /\ p <= Greatest(0, Size - visible_items)
  <2>1. LastTop \in Nat /\ LastTop = Greatest(0, Size - visible_items)
    BY <1>0 DEF Greatest, LastTop
  <2>2. /\ Greatest(0, Least(y, LastTop)) \in Nat
        /\ Greatest(0, Least(y, LastTop)) <= LastTop
    BY ONLY <2>1, y \in Int DEF Greatest, Least
  <2>. QED
    BY <2>1, <2>2
<1>4. /\ top' = p
      /\ scrollPos' \in Nat \cup {NoEvent} /\ told' \in BOOLEAN
      /\ told' => scrollPos' \in {NoEvent, top'}
      /\ Followed' => Followed /\ p = top
  BY <1>2, <1>3, MoveFacts
<1>5. ListTypeOK'
  BY <1>0, <1>1, <1>4 DEF ListTypeOK
<1>6. PlaceInv'
  BY <1>0, <1>1, <1>3, <1>4 DEF PlaceInv, Size
<1>7. WindowFaithful'
  BY <1>0, <1>1 DEF WindowFaithful, Size
<1>8. Covered'
  BY <1>0, <1>1, <1>4 DEF Covered, Size
<1>. QED
  BY <1>5, <1>6, <1>7, <1>8

\* The window follows.
LEMMA OnScrollInv ==
  ASSUME ViewInv, OnScroll
  PROVE  ListTypeOK' /\ PlaceInv' /\ WindowFaithful' /\ Covered'
<1>0. /\ ListTypeOK /\ PlaceInv /\ WindowFaithful /\ Covered
      /\ source \in Nat /\ recs \in Seq(Versions) /\ buffer_start \in Nat
      /\ visible_items \in Nat /\ els \in Seq(Element) /\ top \in Nat
      /\ skewed \in BOOLEAN /\ Size \in Nat /\ Len(els) \in Nat /\ Size = Len(recs)
      /\ BufferSize(visible_items) = visible_items + 3
      /\ Element = [src : Nat, idx : Nat, ver : 0..MaxVersion]
  BY ListFacts DEF BufferSize
<1>. USE <1>0
<1> DEFINE p == Greatest(0, Least(scrollPos, Size - 1 - visible_items))
           size == BufferSize(visible_items)
<1>1. /\ scrollPos' = NoEvent /\ scrollPos # NoEvent
      /\ UNCHANGED <<source, recs, visible_items, top, told>>
      /\ \/ Below(p) /\ PumpAfter(p, size)
         \/ ~Below(p) /\ p < buffer_start /\ PumpBefore(p, size)
         \/ ~Below(p) /\ p >= buffer_start /\ UNCHANGED <<buffer_start, els, skewed>>
  BY DEF OnScroll
<1>2. p \in Nat
  <2>1. scrollPos \in Nat
    BY <1>1 DEF ListTypeOK
  <2>. QED
    BY <2>1 DEF Greatest, Least
<1>t. ASSUME told
      PROVE  p <= top /\ top <= p + 1 /\ p + visible_items >= Least(top + visible_items, Size - 1)
  <2>1. top <= Greatest(0, Size - visible_items) /\ scrollPos = top
    BY <1>1, <1>t DEF PlaceInv
  <2>2. /\ top \in Nat /\ Size \in Nat /\ visible_items \in Nat
    OBVIOUS
  <2>. QED
    BY ONLY <2>1, <2>2 DEF Greatest, Least
<1>z. size \in Nat /\ size >= 3 /\ size = visible_items + 3
  OBVIOUS
<1>. HIDE DEF p, size
\* Of an event of any position.
<1>3. /\ buffer_start' \in Nat /\ buffer_start' <= Size
      /\ els' \in Seq(Element) /\ skewed' \in BOOLEAN
      /\ Full(buffer_start', els', size, Size)
      /\ buffer_start' <= p
      /\ \/ buffer_start' + Len(els') >= Least(p + size, Size)
         \/ buffer_start' + size >= Least(p + size, Size)
         \/ p + visible_items < buffer_start' + size
      /\ ~skewed' => /\ Shows(els', source, recs, buffer_start')
                     /\ Within(buffer_start', els', Size)
  <2>1. CASE PumpAfter(p, size)
    <3>1. /\ buffer_start' = ClampAfter(p, size)
          /\ buffer_start' \in Nat /\ buffer_start' <= Size
          /\ els' \in Seq(Element) /\ skewed' \in BOOLEAN
          /\ Full(buffer_start', els', size, Size)
          /\ ~skewed' => /\ Shows(els', source, recs, buffer_start')
                         /\ Within(buffer_start', els', Size)
      BY <1>2, <1>z, <2>1, PumpAfterFacts
    <3>2. ClampAfter(p, size) <= p /\ ClampAfter(p, size) + size >= Least(p + size, Size)
      BY <1>2, <1>z, ClampFacts
    <3>. QED
      BY <3>1, <3>2
  <2>2. CASE p < buffer_start /\ PumpBefore(p, size)
    <3>1. buffer_start + Len(els) >= Least(buffer_start + size, Size)
      BY <1>z DEF PlaceInv
    <3>2. /\ buffer_start' \in Nat /\ buffer_start' <= Size /\ buffer_start' <= p
          /\ els' \in Seq(Element) /\ skewed' = skewed
          /\ Full(buffer_start', els', size, Size)
          /\ buffer_start' + Len(els') >= Least(p + size, Size)
          /\ ~skewed => /\ Shows(els', source, recs, buffer_start')
                        /\ Within(buffer_start', els', Size)
      BY <1>2, <1>z, <2>2, <3>1, PumpBeforeFacts
    <3>. QED
      BY <3>2
  <2>3. CASE ~Below(p) /\ p >= buffer_start /\ UNCHANGED <<buffer_start, els, skewed>>
    <3>1. ~skewed => Shows(els, source, recs, buffer_start)
      BY DEF WindowFaithful, Shows
    <3>2. Full(buffer_start, els, size, Size)
      BY <1>z DEF PlaceInv, Full
    <3>3. ~skewed => Within(buffer_start, els, Size)
      BY DEF WindowFaithful, PlaceInv, Within, Greatest
    <3>4. buffer_start <= Size
      BY <1>z DEF PlaceInv
    <3>5. p + visible_items < buffer_start + size
      BY <1>2, <1>z, <2>3 DEF Below
    <3>. QED
      BY <1>2, <2>3, <3>1, <3>2, <3>3, <3>4, <3>5
  <2>. QED
    BY <1>1, <2>1, <2>2, <2>3
\* Of an event of the position the view is at.
<1>c. ASSUME told
      PROVE  /\ buffer_start' <= top
             /\ buffer_start' + Len(els') >= Least(top + visible_items + 1, Size)
  <2>1. Len(els') \in Nat /\ buffer_start' <= top
    BY <1>2, <1>3, <1>t, <1>c
  <2>2. buffer_start' + Len(els') >= Least(buffer_start' + visible_items + 3, Size)
    BY <1>z, <1>3 DEF Full
  <2>3. /\ p \in Nat /\ p + visible_items >= Least(top + visible_items, Size - 1)
        /\ size = visible_items + 3 /\ visible_items \in Nat /\ top \in Nat /\ Size \in Nat
        /\ buffer_start' \in Nat
    BY <1>2, <1>z, <1>3, <1>t, <1>c
  <2>4. p + size >= top + visible_items + 1 \/ p + size >= Size
    BY ONLY <2>3, SMTT(30) DEF Least
  <2>5. CASE buffer_start' + Len(els') >= Least(p + size, Size)
    BY ONLY <2>1, <2>3, <2>4, <2>5, SMTT(30) DEF Least
  <2>6. CASE \/ buffer_start' + size >= Least(p + size, Size)
             \/ p + visible_items < buffer_start' + size
    <3>1. \/ buffer_start' + visible_items + 3 >= Least(p + visible_items + 3, Size)
          \/ p + visible_items < buffer_start' + visible_items + 3
      <4>1. /\ p + size = p + visible_items + 3
            /\ buffer_start' + size = buffer_start' + visible_items + 3
        BY ONLY <2>3
      <4>. QED
        BY ONLY <2>6, <4>1
    <3>2. buffer_start' + visible_items + 3 >= Least(top + visible_items + 1, Size)
      BY ONLY <2>3, <3>1, FollowReach
    <3>. QED
      BY <2>1, <2>2, <2>3, <3>2, Reach
  <2>. QED
    BY <1>3, <2>1, <2>5, <2>6
<1>4. Size' = Size /\ size = BufferSize(visible_items')
  BY <1>1 DEF Size, size
<1>5. WindowFaithful' /\ buffer_start' + Len(els')
                           >= Least(buffer_start' + BufferSize(visible_items'), Size')
  BY <1>1, <1>3, <1>4, WindowKept
<1>6. ListTypeOK'
  BY <1>1, <1>3 DEF ListTypeOK, Element
<1>f. /\ Followed' => told
      /\ told' => scrollPos' \in {NoEvent, top'}
  BY <1>1 DEF Followed
<1>7. PlaceInv'
  BY <1>1, <1>3, <1>4, <1>5, <1>c, <1>f DEF PlaceInv
<1>8. Covered'
  BY <1>1, <1>3, <1>4, <1>c, <1>f DEF Covered
<1>. QED
  BY <1>5, <1>6, <1>7, <1>8

\* A view that grows: the window is filled, or made anew at the end of the array.
LEMMA GrowFacts ==
  ASSUME ViewInv, NEW visible \in 0..MaxVisible, NEW size \in Nat, size = visible + 3,
         visible > visible_items,
         top' = Least(top, Greatest(0, Size - visible)),
         IF buffer_start + size >= Size
           THEN ResetView(source, recs, Size - visible + 1, size)
           ELSE PumpAfter(top', size)
  PROVE  /\ buffer_start' \in Nat /\ buffer_start' <= Size
         /\ Followed => buffer_start' <= top'
         /\ els' \in Seq(Element) /\ skewed' \in BOOLEAN
         /\ Full(buffer_start', els', size, Size)
         /\ buffer_start' + Len(els') >= Least(top' + visible + 1, Size)
         /\ ~skewed' => /\ Shows(els', source, recs, buffer_start')
                        /\ Within(buffer_start', els', Size)
<1>0. /\ source \in Nat /\ recs \in Seq(Versions) /\ buffer_start \in Nat
      /\ visible_items \in Nat /\ top \in Nat /\ Size \in Nat /\ Size = Len(recs)
      /\ visible \in Nat /\ ListTypeOK /\ PlaceInv /\ WindowFaithful
  BY ListFacts
<1>1. top' \in Nat /\ top' <= top /\ top' <= Greatest(0, Size - visible)
  BY <1>0 DEF Least, Greatest
<1>2. CASE buffer_start + size >= Size
  <2>1. PICK start \in Int : /\ start = Size - visible + 1
                             /\ ResetView(source, recs, start, size)
    <3>1. Size - visible + 1 \in Int /\ ResetView(source, recs, Size - visible + 1, size)
      BY <1>0, <1>2
    <3>. QED
      BY <3>1
  <2>2. /\ buffer_start' = Greatest(0, IF start + size > Len(recs)
                                         THEN Len(recs) - size ELSE start)
        /\ buffer_start' \in Nat /\ buffer_start' <= Len(recs)
        /\ els' \in Seq(Element)
        /\ Shows(els', source, recs, buffer_start')
        /\ Full(buffer_start', els', size, Len(recs))
        /\ Within(buffer_start', els', Len(recs))
        /\ skewed' = FALSE
    <3>1. ResetView(source, recs, start, size)
      BY <2>1
    <3>2. source \in Nat /\ recs \in Seq(Versions) /\ start \in Int /\ size \in Nat
      BY <1>0
    <3>. QED
      BY <3>1, <3>2, ResetViewFacts
  <2>3. buffer_start' = Greatest(0, Size - size)
    <3>1. start + size > Len(recs)
      BY <1>0, <2>1
    <3>. QED
      BY <1>0, <2>2, <3>1
  <2>4. Followed => buffer_start' <= top'
    <3>1. Followed => buffer_start <= top
      BY <1>0 DEF PlaceInv
    <3>. QED
      BY <1>0, <1>2, <2>3, <3>1 DEF Least, Greatest
  <2>5. buffer_start' + Len(els') >= Least(top' + visible + 1, Size)
    <3>1. Len(els') \in Nat /\ buffer_start' + Len(els') >= Least(buffer_start' + visible + 3, Size)
      BY <1>0, <2>2, SMTT(30) DEF Full
    <3>2. buffer_start' + visible + 3 >= Size
      BY <1>0, <2>3 DEF Greatest
    <3>3. buffer_start' + visible + 3 >= Least(top' + visible + 1, Size)
      BY <1>0, <1>1, <2>2, <3>2, SMTT(30) DEF Least
    <3>. QED
      BY <1>0, <1>1, <2>2, <3>1, <3>3, Reach
  <2>. QED
    BY <1>0, <2>2, <2>4, <2>5
<1>3. CASE ~(buffer_start + size >= Size)
  <2>1. PumpAfter(top', size)
    BY <1>3
  <2>2. PICK i \in Nat : i = top'
    BY <1>1
  <2>3. PumpAfter(i, size) /\ size >= 3
    BY <1>0, <2>1, <2>2
  <2>4. /\ buffer_start' = ClampAfter(i, size)
        /\ buffer_start' \in Nat /\ buffer_start' <= Size
        /\ els' \in Seq(Element)
        /\ skewed' \in BOOLEAN
        /\ Full(buffer_start', els', size, Size)
        /\ ~skewed' => /\ Shows(els', source, recs, buffer_start')
                       /\ Within(buffer_start', els', Size)
    BY <1>0, <2>3, PumpAfterFacts
  <2>5. ClampAfter(i, size) <= i /\ ClampAfter(i, size) + size >= Least(i + size, Size)
    BY <1>0, <2>3, ClampFacts
  <2>6. buffer_start' + visible + 3 >= Least(i + visible + 1, Size)
    BY <1>0, <2>4, <2>5 DEF Least
  <2>7. buffer_start' + Len(els') >= Least(i + visible + 1, Size)
    <3>1. Len(els') \in Nat
      BY <2>4
    <3>2. buffer_start' + Len(els') >= Least(buffer_start' + visible + 3, Size)
      BY <1>0, <2>4 DEF Full
    <3>. QED
      BY <1>0, <2>4, <2>6, <3>1, <3>2, Reach
  <2>. QED
    BY <2>2, <2>4, <2>5, <2>7
<1>. QED
  BY <1>2, <1>3

\* The view gets another height.
LEMMA OnSizeInv ==
  ASSUME ViewInv, OnSize
  PROVE  ListTypeOK' /\ PlaceInv' /\ WindowFaithful' /\ Covered'
<1>0. /\ ListTypeOK /\ PlaceInv /\ WindowFaithful /\ Covered
      /\ source \in Nat /\ recs \in Seq(Versions) /\ buffer_start \in Nat
      /\ visible_items \in Nat /\ els \in Seq(Element) /\ top \in Nat
      /\ skewed \in BOOLEAN /\ Size \in Nat /\ Len(els) \in Nat
      /\ Element = [src : Nat, idx : Nat, ver : 0..MaxVersion]
  BY ListFacts
<1>1. PICK visible \in 0..MaxVisible :
        /\ visible_items' = visible
        /\ top' = Least(top, Greatest(0, Size - visible))
        /\ UNCHANGED <<source, recs>>
        /\ \/ top' = top /\ UNCHANGED <<scrollPos, told>>
           \/ top' # top /\ scrollPos' = top' /\ told' = TRUE
           \/ top' # top /\ told' = (told /\ scrollPos = NoEvent) /\ UNCHANGED scrollPos
        /\ \/ /\ visible < visible_items \/ source = 0
              /\ UNCHANGED <<buffer_start, els, skewed>>
           \/ /\ visible > visible_items
              /\ IF buffer_start + (visible + 3) >= Size
                   THEN ResetView(source, recs, Size - visible + 1, visible + 3)
                   ELSE PumpAfter(top', visible + 3)
  BY DEF OnSize, BufferSize
<1>2. /\ visible \in Nat /\ Size' = Size
      /\ BufferSize(visible_items') = visible + 3
      /\ BufferSize(visible_items) = visible_items + 3
  BY <1>1, ListFacts DEF Size, BufferSize
<1>3. top' \in Nat /\ top' <= top /\ top' <= Greatest(0, Size - visible)
  BY <1>0, <1>1, <1>2 DEF Least, Greatest
<1>4. /\ buffer_start' \in Nat /\ buffer_start' <= Size
      /\ Followed => buffer_start' <= top'
      /\ els' \in Seq(Element) /\ skewed' \in BOOLEAN
      /\ Full(buffer_start', els', visible + 3, Size)
      /\ Followed => buffer_start' + Len(els') >= Least(top' + visible + 1, Size)
      /\ ~skewed' => /\ Shows(els', source, recs, buffer_start')
                     /\ Within(buffer_start', els', Size)
  <2>1. CASE (visible < visible_items \/ source = 0) /\ UNCHANGED <<buffer_start, els, skewed>>
    <3>1. source = 0 => Size = 0
      BY <1>0, EmptySeq DEF PlaceInv, Size
    <3>2. buffer_start <= Size /\ (Followed => buffer_start <= top)
          /\ top <= Greatest(0, Size - visible_items)
      BY <1>0 DEF PlaceInv
    <3>3. Followed => buffer_start <= top'
      BY <1>0, <1>1, <1>2, <2>1, <3>1, <3>2 DEF Greatest, Least
    <3>4. ~skewed => Shows(els, source, recs, buffer_start)
      BY <1>0 DEF WindowFaithful, Shows
    <3>5. ~skewed => Within(buffer_start, els, Size)
      BY <1>0, <3>2 DEF WindowFaithful, Within, Greatest
    <3>6. Full(buffer_start, els, visible + 3, Size)
      <4>1. buffer_start + Len(els) >= Least(buffer_start + visible_items + 3, Size)
        BY <1>0, <1>2 DEF PlaceInv
      <4>. QED
        BY <1>0, <1>2, <2>1, <3>1, <4>1 DEF Full, Least
    <3>7. Followed => buffer_start + Len(els) >= Least(top' + visible + 1, Size)
      <4>1. Followed => buffer_start + Len(els) >= Least(top + visible_items + 1, Size)
        BY <1>0 DEF Covered
      <4>. QED
        <5>1. visible < visible_items \/ Size = 0
          BY <2>1, <3>1
        <5>2. /\ buffer_start \in Nat /\ Len(els) \in Nat /\ Size \in Nat /\ top \in Nat
              /\ top' \in Nat /\ visible \in Nat /\ visible_items \in Nat /\ top' <= top
          BY <1>0, <1>2, <1>3
        <5>. QED
          BY <4>1, <5>1, <5>2, Shrink
    <3>. QED
      BY <1>0, <2>1, <3>2, <3>3, <3>4, <3>5, <3>6, <3>7
  <2>2. CASE /\ visible > visible_items
             /\ IF buffer_start + (visible + 3) >= Size
                  THEN ResetView(source, recs, Size - visible + 1, visible + 3)
                  ELSE PumpAfter(top', visible + 3)
    <3>1. PICK size \in Nat : size = visible + 3
      BY <1>2
    <3>2. IF buffer_start + size >= Size
            THEN ResetView(source, recs, Size - visible + 1, size)
            ELSE PumpAfter(top', size)
      BY <2>2, <3>1
    <3>3. /\ buffer_start' \in Nat /\ buffer_start' <= Size
          /\ Followed => buffer_start' <= top'
          /\ els' \in Seq(Element) /\ skewed' \in BOOLEAN
          /\ Full(buffer_start', els', size, Size)
          /\ buffer_start' + Len(els') >= Least(top' + visible + 1, Size)
          /\ ~skewed' => /\ Shows(els', source, recs, buffer_start')
                         /\ Within(buffer_start', els', Size)
      BY <1>1, <2>2, <3>1, <3>2, GrowFacts
    <3>. QED
      BY <3>1, <3>3
  <2>. QED
    BY <1>1, <2>1, <2>2
<1>5. WindowFaithful' /\ buffer_start' + Len(els')
                           >= Least(buffer_start' + BufferSize(visible_items'), Size')
  BY <1>0, <1>1, <1>2, <1>4, WindowKept
<1>e. /\ scrollPos' \in Nat \cup {NoEvent} /\ told' \in BOOLEAN
      /\ told' => scrollPos' \in {NoEvent, top'}
      /\ Followed' => Followed
  <2>0. /\ scrollPos \in Nat \cup {NoEvent} /\ told \in BOOLEAN
        /\ told => scrollPos \in {NoEvent, top}
    BY <1>0 DEF ListTypeOK, PlaceInv
  <2>1. CASE top' = top /\ UNCHANGED <<scrollPos, told>>
    BY <2>0, <2>1 DEF Followed
  <2>2. CASE scrollPos' = top' /\ told' = TRUE
    <3>1. scrollPos' # NoEvent
      BY <1>3, <2>2 DEF NoEvent
    <3>. QED
      BY <1>3, <2>2, <3>1 DEF Followed
  <2>3. CASE told' = (told /\ scrollPos = NoEvent) /\ UNCHANGED scrollPos
    BY <2>0, <2>3 DEF Followed
  <2>. QED
    BY <1>1, <2>1, <2>2, <2>3
<1>6. ListTypeOK'
  BY <1>0, <1>1, <1>3, <1>4, <1>e DEF ListTypeOK
<1>7. PlaceInv'
  BY <1>0, <1>1, <1>2, <1>3, <1>4, <1>5, <1>e DEF PlaceInv
<1>8. Covered'
  BY <1>1, <1>2, <1>4, <1>e DEF Covered
<1>. QED
  BY <1>5, <1>6, <1>7, <1>8

\* A record changes: its element is rendered again, the others stay.
LEMMA TouchInv ==
  ASSUME ViewInv, Touch
  PROVE  ListTypeOK' /\ PlaceInv' /\ WindowFaithful' /\ Covered'
<1>0. /\ ListTypeOK /\ PlaceInv /\ WindowFaithful
      /\ source \in Nat /\ recs \in Seq(Versions) /\ buffer_start \in Nat
      /\ visible_items \in Nat /\ els \in Seq(Element) /\ top \in Nat
      /\ Size \in Nat /\ Len(els) \in Nat /\ Size = Len(recs) /\ MaxVersion \in Nat
      /\ Covered
  BY ListFacts
<1>1. PICK i \in 0..Size - 1 :
        /\ recs[i + 1] < MaxVersion
        /\ recs' = [recs EXCEPT ![i + 1] = @ + 1]
        /\ els' = [j \in 1..Len(els) |->
                     IF InWindow(i) /\ els[j].src = source /\ els[j].idx = i
                       THEN [els[j] EXCEPT !.ver = recs[i + 1] + 1] ELSE els[j]]
        /\ UNCHANGED <<source, buffer_start, visible_items, top, scrollPos, told, skewed>>
  BY DEF Touch
<1>2. /\ i + 1 \in 1..Len(recs) /\ recs[i + 1] \in Versions /\ recs[i + 1] + 1 \in Versions
  <2>1. i + 1 \in 1..Len(recs)
    BY <1>0
  <2>2. recs[i + 1] \in Versions
    BY <1>0, <2>1
  <2>. QED
    BY <1>0, <1>1, <2>1, <2>2 DEF Versions
<1>3. /\ recs' \in Seq(Versions) /\ Size' = Size
      /\ recs'[i + 1] = recs[i + 1] + 1
      /\ \A k \in 1..Size : k # i + 1 => recs'[k] = recs[k]
  BY <1>0, <1>1, <1>2, ExceptSeq DEF Size
<1>4. \A j \in 1..Len(els) : /\ els[j] \in Element
                             /\ [els[j] EXCEPT !.ver = recs[i + 1] + 1] \in Element
  <2>1. \A j \in 1..Len(els) : els[j] \in Element
    BY <1>0
  <2>2. \A e \in Element : [e EXCEPT !.ver = recs[i + 1] + 1] \in Element
    BY <1>2 DEF Element
  <2>. QED
    BY <2>1, <2>2
<1>5. els' \in Seq(Element) /\ Len(els') = Len(els)
  <2>1. PICK n \in Nat : n = Len(els)
    BY <1>0
  <2>2. els' \in [1..n -> Element]
    <3>1. els' = [j \in 1..n |->
                     IF InWindow(i) /\ els[j].src = source /\ els[j].idx = i
                       THEN [els[j] EXCEPT !.ver = recs[i + 1] + 1] ELSE els[j]]
      BY <1>1, <2>1
    <3>. HIDE DEF InWindow, Element
    <3>. QED
      BY <1>4, <2>1, <3>1
  <2>. QED
    BY <2>1, <2>2
<1>6. ASSUME ~skewed, NEW j \in 1..Len(els)
      PROVE  els'[j] = [src |-> source, idx |-> buffer_start + j - 1,
                        ver |-> recs'[buffer_start + j]]
  <2>1. /\ els[j] = [src |-> source, idx |-> buffer_start + j - 1,
                     ver |-> recs[buffer_start + j]]
        /\ buffer_start + Len(els) <= Size
    <3>1. WindowFaithful /\ buffer_start <= Size
      BY <1>0 DEF PlaceInv
    <3>. QED
      BY <1>0, <1>6, <3>1 DEF WindowFaithful, Greatest
  <2>2. buffer_start + j \in 1..Size
    BY <1>0, <2>1
  <2>3. CASE buffer_start + j - 1 = i
    <3>1. InWindow(i) /\ els[j].src = source /\ els[j].idx = i
      BY <1>0, <2>1, <2>3 DEF InWindow
    <3>2. buffer_start + j = i + 1
      BY <1>0, <2>3
    <3>3. els'[j] = [els[j] EXCEPT !.ver = recs[i + 1] + 1]
      BY <1>1, <3>1
    <3>. QED
      BY <1>3, <2>1, <3>2, <3>3
  <2>4. CASE buffer_start + j - 1 # i
    <3>1. els[j].idx # i
      BY <2>1, <2>4
    <3>2. els'[j] = els[j]
      BY <1>1, <3>1
    <3>3. buffer_start + j # i + 1
      BY <1>0, <2>4
    <3>. QED
      BY <1>3, <2>1, <2>2, <3>2, <3>3
  <2>. QED
    BY <2>3, <2>4
<1>7. WindowFaithful'
  BY <1>0, <1>1, <1>3, <1>5, <1>6 DEF WindowFaithful
<1>8. ListTypeOK'
  BY <1>0, <1>1, <1>3, <1>5 DEF ListTypeOK, Versions, Element
<1>f. Followed' <=> Followed
  BY <1>1 DEF Followed
<1>9. PlaceInv'
  <2>1. source # 0
    BY <1>0, <1>1, EmptySeq DEF PlaceInv
  <2>. QED
    BY <1>0, <1>1, <1>3, <1>5, <1>f, <2>1 DEF PlaceInv, BufferSize
<1>10. Covered'
  BY <1>0, <1>1, <1>3, <1>5, <1>f DEF Covered
<1>. QED
  BY <1>7, <1>8, <1>9, <1>10

-----------------------------------------------------------------------------
(* The page.                                                                 *)

\* The list keeps its array.
LEMMA ListNextInv ==
  ASSUME ViewInv, ListNext
  PROVE  ListTypeOK' /\ PlaceInv' /\ WindowFaithful' /\ Covered' /\ source' = source
<1>1. source' = source
  BY DEF ListNext, Scroll, SetCurrent, OnScroll, OnSize, Touch
<1>. QED
  BY <1>1, ScrollInv, SetCurrentInv, OnScrollInv, OnSizeInv, TouchInv DEF ListNext

\* The queue of the page.
LEMMA AskedFacts ==
  ASSUME ViewInv
  PROVE  /\ asked \in Seq(1..MaxReloads) /\ issued \in 0..MaxReloads
         /\ error \in 0..MaxReloads /\ Len(asked) \in Nat /\ MaxReloads \in Nat \ {0}
         /\ issued - Len(asked) >= 0
         /\ \A i \in 1..Len(asked) : asked[i] = issued - Len(asked) + i
         /\ IF error = 0 THEN source = issued - Len(asked) ELSE error = issued - Len(asked)
  BY BoundsAssumption DEF ViewInv, ListInv, AnswersInv

\* An answer leaves the queue.
LEMMA AnswerFacts ==
  ASSUME ViewInv, asked # <<>>, asked' = Tail(asked), issued' = issued
  PROVE  /\ asked' \in Seq(1..MaxReloads)
         /\ Len(asked') = Len(asked) - 1 /\ Len(asked') \in Nat
         /\ Head(asked) = issued - Len(asked') /\ Head(asked) \in 1..MaxReloads
         /\ \A i \in 1..Len(asked') : asked'[i] = issued' - Len(asked') + i
<1>1. /\ Tail(asked) \in Seq(1..MaxReloads)
      /\ Len(Tail(asked)) = Len(asked) - 1 /\ Len(asked) \in Nat /\ Len(asked) > 0
      /\ \A i \in 1..Len(Tail(asked)) : i + 1 \in 1..Len(asked) /\ Tail(asked)[i] = asked[i + 1]
      /\ Head(asked) = asked[1] /\ Head(asked) \in 1..MaxReloads
  BY AskedFacts, PopElements
<1>2. Len(Tail(asked)) \in Nat /\ Head(asked) = issued - Len(Tail(asked))
  <2>1. 1 \in 1..Len(asked)
    BY <1>1
  <2>2. asked[1] = issued - Len(asked) + 1
    BY <2>1, AskedFacts
  <2>. QED
    BY <1>1, <2>2, AskedFacts
<1>3. ASSUME NEW i \in 1..Len(Tail(asked)) PROVE Tail(asked)[i] = issued - Len(Tail(asked)) + i
  <2>1. i + 1 \in 1..Len(asked) /\ Tail(asked)[i] = asked[i + 1]
    BY <1>1
  <2>2. asked[i + 1] = issued - Len(asked) + (i + 1)
    BY <2>1, AskedFacts
  <2>3. Len(Tail(asked)) = Len(asked) - 1 /\ Len(asked) \in Nat /\ issued \in Int /\ i \in Int
    BY <1>1, AskedFacts
  <2>. QED
    BY <2>1, <2>2, <2>3
<1>. QED
  BY <1>1, <1>2, <1>3

\* Every step of the page keeps the invariant.
LEMMA NextInv == ViewInv /\ [Next]_vars => ViewInv'
<1> SUFFICES ASSUME ViewInv, [Next]_vars PROVE ViewInv'
  OBVIOUS
<1>1. ASSUME Reload PROVE ViewInv'
  <2>1. /\ issued' = issued + 1 /\ issued' \in 1..MaxReloads
        /\ asked' = Append(asked, issued')
        /\ UNCHANGED <<error, listVars>>
    BY <1>1, AskedFacts DEF Reload
  <2>2. /\ asked' \in Seq(1..MaxReloads)
        /\ Len(asked') = Len(asked) + 1
        /\ \A i \in 1..Len(asked) : asked'[i] = asked[i]
        /\ asked'[Len(asked) + 1] = issued'
        /\ \A i \in 1..Len(asked') : i = Len(asked) + 1 \/ i \in 1..Len(asked)
    BY <2>1, AskedFacts, PushElements
  <2>3. AnswersInv'
    <3>1. issued' - Len(asked') = issued - Len(asked)
      BY <2>1, <2>2, AskedFacts
    <3>2. \A i \in 1..Len(asked') : asked'[i] = issued - Len(asked) + i
      <4>1. \A i \in 1..Len(asked) : asked'[i] = issued - Len(asked) + i
        BY <2>2, AskedFacts
      <4>2. asked'[Len(asked) + 1] = issued - Len(asked) + (Len(asked) + 1)
        BY <2>1, <2>2, AskedFacts
      <4>. QED
        BY <2>2, <4>1, <4>2
    <3>. QED
      BY <2>1, <3>1, <3>2, AskedFacts DEF AnswersInv, listVars
  <2>4. ListTypeOK' /\ WindowFaithful' /\ PlaceInv' /\ Covered'
    BY <2>1, ListFacts DEF listVars, ListTypeOK, WindowFaithful, PlaceInv, Covered, Followed, Size
  <2>. QED
    BY <2>1, <2>2, <2>3, <2>4, AskedFacts DEF ViewInv, ListInv
<1>2. ASSUME ShowResult PROVE ViewInv'
  <2>1. /\ asked # <<>> /\ asked' = Tail(asked) /\ issued' = issued /\ error' = 0
    BY <1>2 DEF ShowResult
  <2>2. PICK n \in 1..MaxRecords : SetValue(Head(asked), [i \in 1..n |-> 0])
    BY <1>2 DEF ShowResult
  <2>3. [i \in 1..n |-> 0] \in Seq(Versions)
    BY ListFacts DEF Versions
  <2>4. Head(asked) \in Nat \ {0}
    BY <2>1, AnswerFacts
  <2>5. ListTypeOK' /\ PlaceInv' /\ WindowFaithful' /\ Covered' /\ source' = Head(asked)
    BY <2>2, <2>3, <2>4, ListFacts, SetValueInv
  <2>6. AnswersInv'
    BY <2>1, <2>5, AnswerFacts DEF AnswersInv
  <2>. QED
    BY <2>1, <2>5, <2>6, AskedFacts, AnswerFacts DEF ViewInv, ListInv
<1>3. ASSUME ShowError PROVE ViewInv'
  <2>1. /\ asked # <<>> /\ asked' = Tail(asked) /\ issued' = issued
        /\ error' = Head(asked) /\ UNCHANGED listVars
    BY <1>3 DEF ShowError
  <2>2. AnswersInv'
    BY <2>1, AnswerFacts DEF AnswersInv
  <2>3. ListTypeOK' /\ WindowFaithful' /\ PlaceInv' /\ Covered'
    BY <2>1, ListFacts DEF listVars, ListTypeOK, WindowFaithful, PlaceInv, Covered, Followed, Size
  <2>. QED
    BY <2>1, <2>2, <2>3, AskedFacts, AnswerFacts DEF ViewInv, ListInv
<1>4. ASSUME ListNext, UNCHANGED pageVars PROVE ViewInv'
  <2>1. ListTypeOK' /\ PlaceInv' /\ WindowFaithful' /\ Covered' /\ source' = source
    BY <1>4, ListNextInv
  <2>2. AnswersInv'
    BY <1>4, <2>1, AskedFacts DEF AnswersInv, pageVars
  <2>. QED
    BY <1>4, <2>1, <2>2, AskedFacts DEF ViewInv, ListInv, pageVars
<1>5. CASE UNCHANGED vars
  <2>1. UNCHANGED <<listVars, asked, issued, error>>
    BY <1>5 DEF vars
  <2>2. ListTypeOK' /\ WindowFaithful' /\ PlaceInv' /\ Covered'
    BY <2>1, ListFacts DEF listVars, ListTypeOK, WindowFaithful, PlaceInv, Covered, Followed, Size
  <2>3. AnswersInv'
    BY <2>1, AskedFacts DEF AnswersInv, listVars
  <2>. QED
    BY <2>1, <2>2, <2>3, AskedFacts DEF ViewInv, ListInv
<1>. QED
  BY <1>1, <1>2, <1>3, <1>4, <1>5 DEF Next

\* The page opens with one query and an empty list.
LEMMA InitInv == Init => ViewInv
<1> SUFFICES ASSUME Init PROVE ViewInv
  OBVIOUS
<1>1. /\ asked = <<1>> /\ issued = 1 /\ error = 0 /\ source = 0 /\ recs = <<>>
      /\ buffer_start = 0 /\ visible_items \in 0..MaxVisible /\ els = <<>> /\ top = 0
      /\ scrollPos = NoEvent /\ told = TRUE /\ skewed = FALSE
  BY DEF Init, ListInit
<1>2. Len(<<>>) = 0 /\ Size = 0 /\ Len(els) = 0
  BY <1>1, EmptySeq DEF Size
<1>3. ListTypeOK
  <2>1. skewed \in BOOLEAN
    BY <1>1, Zenon
  <2>. QED
    BY <1>1, <2>1, EmptySeq DEF ListTypeOK
<1>4. WindowFaithful /\ PlaceInv /\ Covered
  BY <1>1, <1>2, BoundsAssumption DEF WindowFaithful, PlaceInv, Covered, Followed, Greatest, Least, BufferSize
<1>5. asked \in Seq(1..MaxReloads) /\ Len(asked) = 1 /\ asked[1] = 1
  BY <1>1, BoundsAssumption
<1>6. AnswersInv
  BY <1>1, <1>5 DEF AnswersInv
<1>. QED
  BY <1>1, <1>3, <1>4, <1>5, <1>6, BoundsAssumption DEF ViewInv, ListInv

-----------------------------------------------------------------------------
(* The theorems.                                                             *)

\* The parts on the window, its place and the queries are together inductive
\* (vlist.tis, search.html:197-216).
THEOREM ViewInvariant == Spec => []ViewInv
<1>. QED
  BY InitInv, NextInv, PTL DEF Spec

\* The elements are the records the window says they are (vlist.tis:105-254).
THEOREM WindowIsFaithful == Spec => []ListInv
<1>1. ViewInv => ListInv
  BY DEF ViewInv
<1>. QED
  BY <1>1, ViewInvariant, PTL

\* No row of the view is left blank (vlist.tis:256-292).
THEOREM ViewIsCovered == Spec => []Covered
<1>1. ViewInv => Covered
  BY DEF ViewInv
<1>. QED
  BY <1>1, ViewInvariant, PTL

\* When every query is answered the page shows what the last one brought
\* (search.html:197-216).
THEOREM LatestIsShown == Spec => []LatestShown
<1>1. ViewInv => LatestShown
  BY AskedFacts, EmptySeq DEF LatestShown
<1>. QED
  BY <1>1, ViewInvariant, PTL
=============================================================================
