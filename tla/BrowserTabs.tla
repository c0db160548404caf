---------------------------- MODULE BrowserTabs ----------------------------
(***************************************************************************)
(* The tabs of the browser window (data/browser.html): the array tabs, the *)
(* index selected, one frame per tab, and the row of tab elements.  Frames *)
(* follow the array at once (its observer), the elements in a posted task  *)
(* (plus.tis, RepeatRepeater), and closeTab posts the new selection as     *)
(* well, because the click on the close button goes on to the tab below it *)
(* and runs activeTab(idx) there.                                          *)
(*                                                                         *)
(* Posted tasks run in order.  Whether the user can get an input in before *)
(* them is the engine's choice: here he can, and late remembers it.        *)
(*                                                                         *)
(* Indices count from 0 as in the code: tab i is tabs[i + 1].              *)
(***************************************************************************)
EXTENDS Integers, Sequences

CONSTANTS
  MaxTabs,              \* bound: addTab is called this often
  MaxPosted             \* bound: no input while more tasks than this are posted

ASSUME BoundsAssumption == MaxTabs \in Nat /\ MaxPosted \in Nat

VARIABLES
  tabs,                 \* DataModel.tabs; a tab is the number of its addTab
  selected,             \* DataModel.selected
  frames,               \* the children of #content
  shown,                \* the children of #tabs, with idx and tab as rendered
  posted,               \* posted tasks: ["render"], ["scroll"], ["select", to]
  made,                 \* number of addTab calls so far
  late                  \* history: an input came between a close and its posted
                        \*   selection ("input"), and it was a close ("close")

vars == <<tabs, selected, frames, shown, posted, made, late>>

Home == 0
TabIds == 0..MaxTabs
Without(row, k) == SubSeq(row, 1, k - 1) \o SubSeq(row, k + 1, Len(row))

Render == [do |-> "render", to |-> 0]
Scroll == [do |-> "scroll", to |-> 0]
SelectLater(n) == [do |-> "select", to |-> n]

Pending(do) == \E i \in 1..Len(posted) : posted[i].do = do

\* post(task, true): not if the same task is posted already.
PostOnce(queue, task) ==
  IF \E i \in 1..Len(queue) : queue[i] = task THEN queue ELSE Append(queue, task)

\* The observer of selected posts the scrolling when it changes, each time anew:
\* post(..., true) gets a closure made for this change (plus.tis:719-725).
Observed(queue, old, new) == IF old = new THEN queue ELSE Append(queue, Scroll)

Init ==
  /\ tabs = <<Home>>
  /\ selected = 0
  /\ frames = <<Home>>
  /\ shown = <<Home>>
  /\ posted = <<Scroll>>
  /\ made = 0
  /\ late = "no"

\* An input while a selection is still posted.
Note(input) ==
  late' = IF ~Pending("select") \/ late = "close" THEN late ELSE input

-----------------------------------------------------------------------------
(* Inputs.                                                                  *)

\* startSearch, or a double click on a vtable in a search page.
AddTab ==
  /\ made < MaxTabs
  /\ Len(posted) <= MaxPosted
  /\ made' = made + 1
  /\ tabs' = Append(tabs, made')
  /\ frames' = Append(frames, made')
  /\ selected' = Len(tabs)
  /\ posted' = Observed(PostOnce(posted, Render), selected, Len(tabs))
  /\ Note("input")
  /\ UNCHANGED shown

\* A click on the tab element idx.
ActiveTab(idx) ==
  /\ Len(posted) <= MaxPosted
  /\ selected' = idx
  /\ posted' = Observed(posted, selected, idx)
  /\ Note("input")
  /\ UNCHANGED <<tabs, frames, shown, made>>

\* The tab itself is closed but not what is right of it.
BugAfterClose(idx) == IF selected > idx THEN selected - 1 ELSE selected

\* One to the left in any case.
BugAlwaysLeft(idx) == selected - 1

\* The selection that closeTab computes.
AfterClose(idx) == IF selected >= idx THEN selected - 1 ELSE selected

\* The frame removed is the one shown.
BugFramesWithout(idx) == Without(frames, selected + 1)

\* The observer removes the frame at the index of the tab.
FramesWithout(idx) == Without(frames, idx + 1)

\* The selection assigned at once: the click that goes on to the tab undoes it.
BugSelectNext(queue, idx) == queue

SelectNext(queue, idx) == Append(queue, SelectLater(AfterClose(idx)))

\* A click on the close button of the element idx: closeTab(idx), and activeTab
\* when the event reaches the tab.  The element may be stale, the array shorter
\* than its idx: splice then removes nothing and tells no observer.
CloseTab(idx) ==
  LET there == idx < Len(tabs) IN
    /\ Len(posted) <= MaxPosted
    /\ shown[idx + 1] # Home
    /\ tabs' = IF there THEN Without(tabs, idx + 1) ELSE tabs
    /\ frames' = IF there THEN FramesWithout(idx) ELSE frames
    /\ selected' = idx
    /\ posted' = LET queue == IF there THEN PostOnce(posted, Render) ELSE posted
                 IN  Observed(SelectNext(queue, idx), selected, idx)
    /\ Note("close")
    /\ UNCHANGED <<shown, made>>

-----------------------------------------------------------------------------
(* Posted tasks.                                                            *)

Run(do) == posted # <<>> /\ Head(posted).do = do

RunRender ==
  /\ Run("render")
  /\ shown' = tabs
  /\ posted' = Tail(posted)
  /\ UNCHANGED <<tabs, selected, frames, made, late>>

RunSelect ==
  /\ Run("select")
  /\ selected' = Head(posted).to
  /\ posted' = Observed(Tail(posted), selected, Head(posted).to)
  /\ UNCHANGED <<tabs, frames, shown, made, late>>

\* The content moves and the tab element is scrolled into view.
RunScroll ==
  /\ Run("scroll")
  /\ posted' = Tail(posted)
  /\ UNCHANGED <<tabs, selected, frames, shown, made, late>>

Input ==
  \/ AddTab
  \/ \E idx \in 0..MaxTabs :
       idx < Len(shown) /\ (ActiveTab(idx) \/ CloseTab(idx))

Posted == RunRender \/ RunSelect \/ RunScroll

Next == Input \/ Posted

Spec == Init /\ [][Next]_vars

-----------------------------------------------------------------------------
(* What the window guarantees.                                              *)

\* The type of every variable.
TypeOK ==
  /\ tabs \in Seq(TabIds)
  /\ selected \in TabIds
  /\ frames \in Seq(TabIds)
  /\ shown \in Seq(TabIds)
  /\ posted \in Seq({Render, Scroll} \union {SelectLater(n) : n \in TabIds})
  /\ made \in TabIds
  /\ late \in {"no", "input", "close"}

\* Each tab has its own frame at its own place, whatever is closed in whatever
\* state of the elements; the elements are those tabs unless their rendering is
\* still posted; the home page stays where it is (browser.html:130-145).
FramesFollow ==
  /\ frames = tabs
  /\ shown = tabs \/ Pending("render")
  /\ tabs # <<>> /\ tabs[1] = Home

Exists(i) == i < Len(tabs)

\* selected is a tab whenever no correction of it is posted, and the element is
\* there when it is scrolled to, unless an input came before its rendering
\* (browser.html:147-160).  Two closes without the posted selection in
\* between are the exception: the second starts from an index that the click on
\* the first has overwritten.
SelectedExists ==
  late # "close" =>
    /\ ~Pending("select") => Exists(selected)
    /\ Run("scroll") => selected < Len(shown) \/ Pending("render")
    /\ \A i \in 1..Len(posted) : posted[i].do = "select" => Exists(posted[i].to)

\* What sel will be once the selections posted in q have run.
FinalOf(q, sel) ==
  LET selects == {i \in 1..Len(q) : q[i].do = "select"} IN
    IF selects = {} THEN sel
    ELSE q[CHOOSE i \in selects : \A j \in selects : j <= i].to

Final == FinalOf(posted, selected)

Bar == INSTANCE TabBar WITH
  Tabs <- TabIds,
  open <- tabs,
  current <- IF Exists(Final) THEN tabs[Final + 1] ELSE Home

\* The indices, elements and posted tasks add up to a plain row of tabs, as long
\* as no input comes between a close and its posted selection.
ImplementsTabBar ==
  Bar!Init /\ [][Bar!Next \/ late' # "no"]_(Bar!vars)

-----------------------------------------------------------------------------
(* Why: the posted tasks come in an order in which the elements are rendered *)
(* before anything relies on their number.                                   *)

Tasks == {Render, Scroll} \union {SelectLater(n) : n \in TabIds}

HasRender(q) == \E i \in 1..Len(q) : q[i] = Render

\* Numbers of tabs are new ones, each is there once, the home page first.
TabsInv ==
  /\ Len(tabs) <= made + 1
  /\ \A k \in 1..Len(tabs) : tabs[k] <= made
  /\ \A k, l \in 1..Len(tabs) : tabs[k] = tabs[l] => k = l
  /\ shown # <<>> /\ shown[1] = Home

\* No selection is posted in q, sel is selected of tb tabs with sh elements: the
\* elements are at most the tabs, and fewer if they are to be rendered.
Settled(q, sel, sh, tb) ==
  /\ sel < tb
  /\ sh <= tb
  /\ HasRender(q) => sh < tb

\* The selection posted at i: elements too many are rendered before it, and an
\* element that is not there is scrolled to only before they are rendered.
Correction(q, i, sel, sh, tb) ==
  /\ q[i].to < tb
  /\ \A k \in i + 1..Len(q) : q[k] = Render => sh < tb
  /\ sh > tb => \E k \in 1..i - 1 : q[k] = Render
  /\ sh > tb \/ sel >= tb =>
       \A j \in 1..i - 1 : q[j] = Scroll => \E k \in j + 1..i - 1 : q[k] = Render

Ordered(q, sel, sh, tb) ==
  /\ \A i, j \in 1..Len(q) : q[i] = Render /\ q[j] = Render => i = j
  /\ \A i, j \in 1..Len(q) : q[i].do = "select" /\ q[j].do = "select" => i = j
  /\ (\A i \in 1..Len(q) : q[i].do # "select") => Settled(q, sel, sh, tb)
  /\ \A i \in 1..Len(q) : q[i].do = "select" => Correction(q, i, sel, sh, tb)

SelectionInv == late # "close" => Ordered(posted, selected, Len(shown), Len(tabs))

BarInv == TypeOK /\ FramesFollow /\ TabsInv /\ SelectionInv
=============================================================================
