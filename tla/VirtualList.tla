---------------------------- MODULE VirtualList ----------------------------
(***************************************************************************)
(* The list of results (data/common/vlist.tis): an array of records of     *)
(* which only a sliding window has elements.  The window follows the       *)
(* scroll position (onScroll), the height of the view (onSize), another    *)
(* array (the property value) and changes of its records (observers).      *)
(*                                                                         *)
(* A record is the array it is in, its index and its version; an element   *)
(* shows a record as of some version.  Indices count from 0: record i is   *)
(* recs[i + 1].  Pixels are left out: positions are counted in rows, and   *)
(* the height of a row is known from the start, the constructor measures   *)
(* it on the template (vlist.tis:93-97, 538); pumpAfter measures again     *)
(* only while it is 10 pixels, the value before (vlist.tis:143-153).       *)
(***************************************************************************)
EXTENDS Integers, Sequences

CONSTANTS
  MaxRecords,           \* bound: records of an array
  MaxVisible,           \* bound: rows the view has room for
  MaxVersion            \* bound: changes of one record of an array; the others
                        \*   then stay as they are

VARIABLES
  source,               \* the array that is shown; 0: records is null
  recs,                 \* its records, as their versions
  buffer_start,         \* index of the first element
  visible_items,        \* rows the view has room for
  els,                  \* the elements, from the top
  top,                  \* the scroll position
  scrollPos,            \* the position the waiting scroll event tells, or NoEvent
  told,                 \* FALSE: the last move of the position sent no event
  skewed                \* history: elements were taken for others (see PumpAfter)

listVars == <<source, recs, buffer_start, visible_items, els, top, scrollPos, told, skewed>>

NoEvent == -1

Least(a, b) == IF a < b THEN a ELSE b
Greatest(a, b) == IF a > b THEN a ELSE b
Size == Len(recs)

\* calcMetrics: the number of elements in the window; its first run is part of
\* the construction of the list.
BufferSize(visible) == visible + 3

ListInit ==
  /\ source = 0
  /\ recs = <<>>
  /\ buffer_start = 0
  /\ visible_items \in 0..MaxVisible
  /\ els = <<>>
  /\ top = 0
  /\ scrollPos = NoEvent
  /\ told = TRUE
  /\ skewed = FALSE

\* The elements of n records of an array from lo on, freshly rendered.
Rendered(src, array, lo, n) ==
  [j \in 1..n |-> [src |-> src, idx |-> lo + j - 1, ver |-> array[lo + j]]]

-----------------------------------------------------------------------------
(* The three ways to fill the window.                                       *)

\* All elements anew, as near to start as the array allows.
ResetView(src, array, start, size) ==
  LET first == Greatest(0, IF start + size > Len(array) THEN Len(array) - size ELSE start)
  IN  /\ buffer_start' = first
      /\ els' = Rendered(src, array, first, Least(size, Len(array) - first))
      /\ skewed' = FALSE

ClampAfter(i, size) ==
  IF i + size > Size THEN Greatest(0, Size - size + 1) ELSE i

\* The window moves down to i: elements before i are dropped, others appended.
\* Nothing handles an i above the window: its elements stay and count from i.
PumpAfter(i, size) ==
  LET first == ClampAfter(i, size)
      kept == SubSeq(els, Greatest(0, first - buffer_start) + 1, Len(els))
      end == Least(first + size, Size)
  IN  /\ buffer_start' = first
      /\ els' = kept \o Rendered(source, recs, first + Len(kept), end - first - Len(kept))
      /\ skewed' = (skewed \/ (first < buffer_start /\ els # <<>>))

\* The window moves up to i: elements past its end are dropped, others prepended
\* until it is full.
PumpBefore(i, size) ==
  LET kept == SubSeq(els, 1, Least(Len(els), i + size - buffer_start))
      n == IF kept # <<>> THEN buffer_start ELSE Least(Size, i + size)
      count == Least(n, size - Len(kept))
  IN  /\ buffer_start' = n - count
      /\ els' = Rendered(source, recs, n - count, count) \o kept
      /\ UNCHANGED skewed

-----------------------------------------------------------------------------
(* Events.                                                                  *)

\* list.scrollTo: the position moves to p.  Whether that sends an event is up to
\* the engine; without one, an event that waits tells of a position that is past.
ScrollTo(p) ==
  /\ top' = p
  /\ \/ p = top /\ UNCHANGED <<scrollPos, told>>
     \/ p # top /\ scrollPos' = p /\ told' = TRUE
     \/ p # top /\ told' = FALSE /\ UNCHANGED scrollPos

\* Another array is assigned: the elements go, the window is filled from the
\* old buffer_start, and the list scrolls to its top.
SetValue(src, array) ==
  /\ source' = src
  /\ recs' = array
  /\ ResetView(src, array, buffer_start, BufferSize(visible_items))
  /\ ScrollTo(0)
  /\ UNCHANGED visible_items

LastTop == Greatest(0, Size - visible_items)

\* The user scrolls; of several events that wait the last one counts.
Scroll ==
  /\ source # 0
  /\ \E p \in 0..LastTop : p # top /\ top' = p /\ scrollPos' = p
  /\ told' = TRUE
  /\ UNCHANGED <<source, recs, buffer_start, visible_items, els, skewed>>

\* setCurrent: a click or a key picks a record, and the list scrolls until its row
\* is in the view.  The elements stay until an event tells of it.
SetCurrent ==
  /\ \E index \in 0..Size - 1 :
       LET end == buffer_start + Len(els)
           above == index < buffer_start \/ (index < end /\ index < top)
           below == index >= end \/ index >= top + visible_items
           y == IF above THEN index
                ELSE IF below THEN index - visible_items + 1 ELSE top
       IN  ScrollTo(Greatest(0, Least(y, LastTop)))
  /\ UNCHANGED <<source, recs, buffer_start, visible_items, els, skewed>>

\* Only a row that is past the window, not the one at its end.
BugBelow(p) == p + visible_items > buffer_start + BufferSize(visible_items)

Below(p) == p + visible_items >= buffer_start + BufferSize(visible_items)

\* onScroll: the window moves if it has to.
OnScroll ==
  LET p == Greatest(0, Least(scrollPos, Size - 1 - visible_items))
      size == BufferSize(visible_items)
  IN  /\ scrollPos # NoEvent
      /\ \/ Below(p) /\ PumpAfter(p, size)
         \/ ~Below(p) /\ p < buffer_start /\ PumpBefore(p, size)
         \/ ~Below(p) /\ p >= buffer_start /\ UNCHANGED <<buffer_start, els, skewed>>
      /\ scrollPos' = NoEvent
      /\ UNCHANGED <<source, recs, visible_items, top, told>>

\* onSize: the view gets another height, and with it the position that is still
\* possible: an event may tell of it, but onSize itself goes by that position.
\* A larger window is filled; at the end of the array it is made anew.
\* Without an array the handler throws after calcMetrics.
OnSize ==
  \E visible \in 0..MaxVisible :
    LET size == BufferSize(visible) IN
      /\ visible # visible_items
      /\ visible_items' = visible
      /\ top' = Least(top, Greatest(0, Size - visible))
      /\ \/ /\ visible < visible_items \/ source = 0
            /\ UNCHANGED <<buffer_start, els, skewed>>
         \/ /\ visible > visible_items /\ source # 0
            /\ IF buffer_start + size >= Size
                 THEN ResetView(source, recs, Size - visible + 1, size)
                 ELSE PumpAfter(top', size)
      /\ \/ top' = top /\ UNCHANGED <<scrollPos, told>>
         \/ top' # top /\ scrollPos' = top' /\ told' = TRUE
         \/ /\ top' # top
            /\ told' = (told /\ scrollPos = NoEvent)
            /\ UNCHANGED scrollPos
      /\ UNCHANGED <<source, recs>>

\* The last element forgotten.
BugInWindow(i) == i >= buffer_start /\ i < buffer_start + Len(els) - 1

InWindow(i) == i >= buffer_start /\ i < buffer_start + Len(els)

\* A record changes: its element, if it has one, is rendered again.  The observer
\* belongs to the element that was made for the record.
Touch ==
  \E i \in 0..Size - 1 :
    /\ recs[i + 1] < MaxVersion
    /\ \A k \in 1..Size : k # i + 1 => recs[k] = 0
    /\ recs' = [recs EXCEPT ![i + 1] = @ + 1]
    /\ els' = [j \in 1..Len(els) |->
                 IF InWindow(i) /\ els[j].src = source /\ els[j].idx = i
                   THEN [els[j] EXCEPT !.ver = recs[i + 1] + 1] ELSE els[j]]
    /\ UNCHANGED <<source, buffer_start, visible_items, top, scrollPos, told, skewed>>

ListNext == Scroll \/ SetCurrent \/ OnScroll \/ OnSize \/ Touch

-----------------------------------------------------------------------------
\* The type of every variable.
ListTypeOK ==
  /\ source \in Nat
  /\ recs \in Seq(0..MaxVersion)
  /\ buffer_start \in Nat
  /\ visible_items \in 0..MaxVisible
  /\ els \in Seq([src : Nat, idx : Nat, ver : 0..MaxVersion])
  /\ top \in Nat
  /\ scrollPos \in Nat \cup {NoEvent}
  /\ told \in BOOLEAN
  /\ skewed \in BOOLEAN

\* Element j is the current version of record buffer_start + j of the array that
\* is assigned: on that rests every translation between the two (vlist.tis:66-72,
\* 518-536).  When the view grows before the list has followed a scroll to a row
\* above the window, the elements are kept under other numbers (vlist.tis:126).
WindowFaithful ==
  ~skewed =>
    /\ buffer_start + Len(els) <= Greatest(buffer_start, Size)
    /\ \A j \in 1..Len(els) :
         els[j] = [src |-> source, idx |-> buffer_start + j - 1,
                   ver |-> recs[buffer_start + j]]

\* The list has been told of every move of the position.
Followed == told /\ scrollPos = NoEvent

\* Every row that the view has room for has an element once the scroll event is
\* handled, the row that is cut off at the bottom included (vlist.tis:256-292).
\* A move without an event is excluded until the next one (vlist.tis:423, 449-464).
Covered ==
  Followed =>
    /\ buffer_start <= top
    /\ buffer_start + Len(els) >= Least(top + visible_items + 1, Size)

\* Why: where the window and the scroll position are, and that the window is
\* full: it has all its elements or reaches the end of the array.
PlaceInv ==
  /\ buffer_start <= Size
  /\ top <= Greatest(0, Size - visible_items)
  /\ Followed => buffer_start <= top
  /\ told => scrollPos \in {NoEvent, top}
  /\ buffer_start + Len(els) >= Least(buffer_start + BufferSize(visible_items), Size)
  /\ source = 0 => recs = <<>>
=============================================================================
