------------------------- MODULE BrowserTabsProofs --------------------------
(* The safety properties of the tabs, for any number of tabs and of posted    *)
(* tasks.  The order of the posted tasks (Ordered) is inductive by one lemma  *)
(* for each way to change the queue.                                          *)
EXTENDS BrowserTabs, SequenceTheorems, TLAPS

-----------------------------------------------------------------------------
(* The queue of posted tasks.                                                *)

\* The three tasks are told apart by what they do.
LEMMA TaskKinds ==
  /\ Render \in Tasks /\ Scroll \in Tasks
  /\ Render # Scroll
  /\ \A t \in Tasks : t.do = "render" <=> t = Render
  /\ \A t \in Tasks : t.do = "scroll" <=> t = Scroll
  /\ \A n \in TabIds : SelectLater(n) \in Tasks
  /\ \A n : SelectLater(n).do = "select" /\ SelectLater(n).to = n
  /\ Render.do = "render" /\ Scroll.do = "scroll"
  /\ \A t \in Tasks : t.do = "select" => t.to \in TabIds
<1>1. Render.do = "render" /\ Scroll.do = "scroll" /\ Render # Scroll
  BY DEF Render, Scroll
<1>2. \A n : SelectLater(n).do = "select" /\ SelectLater(n).to = n
  BY DEF SelectLater
<1>3. Render \in Tasks /\ Scroll \in Tasks /\ \A n \in TabIds : SelectLater(n) \in Tasks
  BY DEF Tasks
<1>4. ASSUME NEW t \in Tasks
      PROVE  t = Render \/ t = Scroll \/ \E n \in TabIds : t = SelectLater(n)
  BY DEF Tasks
<1>5. "render" # "select" /\ "scroll" # "select" /\ "render" # "scroll"
  OBVIOUS
<1>. QED
  BY <1>1, <1>2, <1>3, <1>4, <1>5, ZenonT(30)

\* Posting once leaves the queue or adds the task, which was not there.
LEMMA Posting ==
  ASSUME NEW q \in Seq(Tasks), NEW task \in Tasks
  PROVE  /\ PostOnce(q, task) \in Seq(Tasks)
         /\ \/ PostOnce(q, task) = q /\ \E i \in 1..Len(q) : q[i] = task
            \/ PostOnce(q, task) = Append(q, task) /\ \A i \in 1..Len(q) : q[i] # task
<1>. QED
  BY AppendProperties DEF PostOnce

\* An observer of selected leaves the queue or adds the scrolling.
LEMMA Observing ==
  ASSUME NEW q \in Seq(Tasks), NEW old, NEW new
  PROVE  /\ Observed(q, old, new) \in Seq(Tasks)
         /\ Observed(q, old, new) \in {q, Append(q, Scroll)}
<1>. QED
  BY Posting, TaskKinds DEF Observed

\* What Append does to a queue of tasks.
LEMMA Appended ==
  ASSUME NEW q \in Seq(Tasks), NEW task \in Tasks
  PROVE  /\ Append(q, task) \in Seq(Tasks)
         /\ Len(Append(q, task)) = Len(q) + 1 /\ Len(q) \in Nat
         /\ \A i \in 1..Len(q) : Append(q, task)[i] = q[i] /\ q[i] \in Tasks
         /\ Append(q, task)[Len(q) + 1] = task
<1>. QED
  BY AppendProperties

\* A rendering stays posted behind which another task is posted.
LEMMA StillRender ==
  ASSUME NEW q \in Seq(Tasks), NEW task \in Tasks, HasRender(q)
  PROVE  HasRender(Append(q, task))
<1>1. PICK i \in 1..Len(q) : q[i] = Render
  BY DEF HasRender
<1>2. i \in 1..Len(Append(q, task)) /\ Append(q, task)[i] = Render
  BY <1>1, Appended
<1>. QED
  BY <1>2 DEF HasRender

\* What Tail does to a queue of tasks.
LEMMA Popped ==
  ASSUME NEW q \in Seq(Tasks), q # <<>>
  PROVE  /\ Tail(q) \in Seq(Tasks)
         /\ Len(Tail(q)) = Len(q) - 1 /\ Len(q) \in Nat /\ Len(q) > 0
         /\ \A i \in 1..Len(q) - 1 : Tail(q)[i] = q[i + 1]
         /\ \A i \in 1..Len(q) : q[i] \in Tasks
         /\ Head(q) = q[1]
<1>. QED
  BY HeadTailProperties, EmptySeq

\* Scrolling may be posted at any time.
LEMMA PostScroll ==
  ASSUME NEW q \in Seq(Tasks), NEW sel \in Int, NEW sh \in Nat, NEW tb \in Nat,
         Ordered(q, sel, sh, tb)
  PROVE  Ordered(Append(q, Scroll), sel, sh, tb)
<1> DEFINE p == Append(q, Scroll)
<1>1. /\ Len(p) = Len(q) + 1 /\ Len(q) \in Nat
      /\ \A i \in 1..Len(q) : p[i] = q[i]
      /\ p[Len(q) + 1] = Scroll
  BY Appended, TaskKinds
<1>2. Scroll # Render /\ Scroll.do # "select"
  BY TaskKinds
<1> HIDE DEF p
<1>3. \A i, j \in 1..Len(p) : p[i] = Render /\ p[j] = Render => i = j
  BY <1>1, <1>2 DEF Ordered
<1>4. \A i, j \in 1..Len(p) : p[i].do = "select" /\ p[j].do = "select" => i = j
  BY <1>1, <1>2 DEF Ordered
<1>5. (\A i \in 1..Len(p) : p[i].do # "select") => Settled(p, sel, sh, tb)
  BY <1>1, <1>2 DEF Ordered, Settled, HasRender
<1>6. ASSUME NEW i \in 1..Len(p), p[i].do = "select"
      PROVE  Correction(p, i, sel, sh, tb)
  <2>1. i \in 1..Len(q) /\ Correction(q, i, sel, sh, tb)
    BY <1>1, <1>2, <1>6 DEF Ordered
  <2>. QED
    BY <1>1, <1>2, <2>1 DEF Correction
<1>. QED
  BY <1>3, <1>4, <1>5, <1>6 DEF Ordered, p

\* Rendering is posted when there are fewer elements than tabs.
LEMMA PostRender ==
  ASSUME NEW q \in Seq(Tasks), NEW sel \in Int, NEW sh \in Nat, NEW tb \in Nat,
         Ordered(q, sel, sh, tb), sh < tb, \A i \in 1..Len(q) : q[i] # Render
  PROVE  Ordered(Append(q, Render), sel, sh, tb)
<1> DEFINE p == Append(q, Render)
<1>1. /\ Len(p) = Len(q) + 1 /\ Len(q) \in Nat
      /\ \A i \in 1..Len(q) : p[i] = q[i]
      /\ p[Len(q) + 1] = Render
  BY Appended, TaskKinds
<1>2. Render.do # "select"
  BY TaskKinds
<1> HIDE DEF p
<1>3. \A i, j \in 1..Len(p) : p[i] = Render /\ p[j] = Render => i = j
  BY <1>1 DEF Ordered
<1>4. \A i, j \in 1..Len(p) : p[i].do = "select" /\ p[j].do = "select" => i = j
  BY <1>1, <1>2 DEF Ordered
<1>5. (\A i \in 1..Len(p) : p[i].do # "select") => Settled(p, sel, sh, tb)
  BY <1>1 DEF Ordered, Settled
<1>6. ASSUME NEW i \in 1..Len(p), p[i].do = "select"
      PROVE  Correction(p, i, sel, sh, tb)
  <2>1. i \in 1..Len(q) /\ Correction(q, i, sel, sh, tb)
    BY <1>1, <1>2, <1>6 DEF Ordered
  <2>. QED
    BY <1>1, <1>2, <2>1 DEF Correction
<1>. QED
  BY <1>3, <1>4, <1>5, <1>6 DEF Ordered, p

\* A tab is added and selected.
LEMMA TabAdded ==
  ASSUME NEW q \in Seq(Tasks), NEW sel \in Int, NEW sh \in Nat, NEW tb \in Nat,
         Ordered(q, sel, sh, tb)
  PROVE  Ordered(q, tb, sh, tb + 1)
<1>1. Settled(q, sel, sh, tb) => Settled(q, tb, sh, tb + 1)
  BY DEF Settled
<1>2. ASSUME NEW i \in 1..Len(q), q[i].do = "select"
      PROVE  Correction(q, i, tb, sh, tb + 1)
  <2>1. q[i] \in Tasks
    BY <1>2
  <2>2. q[i].to \in Nat
    BY <1>2, <2>1, TaskKinds, BoundsAssumption DEF TabIds
  <2>3. Correction(q, i, sel, sh, tb)
    BY <1>2 DEF Ordered
  <2>. QED
    BY <2>2, <2>3 DEF Correction
<1>. QED
  BY <1>1, <1>2 DEF Ordered

\* The tab of an element is selected.
LEMMA TabActivated ==
  ASSUME NEW q \in Seq(Tasks), NEW sel \in Int, NEW sh \in Nat, NEW tb \in Nat,
         Ordered(q, sel, sh, tb), NEW idx \in Nat, idx < sh
  PROVE  Ordered(q, idx, sh, tb)
<1>1. Settled(q, sel, sh, tb) => Settled(q, idx, sh, tb)
  BY DEF Settled
<1>2. ASSUME NEW i \in 1..Len(q), Correction(q, i, sel, sh, tb)
      PROVE  Correction(q, i, idx, sh, tb)
  <2>1. idx >= tb => sh > tb
    OBVIOUS
  <2>. QED
    BY <1>2, <2>1 DEF Correction
<1>. QED
  BY <1>1, <1>2 DEF Ordered

\* A tab is closed while no selection is posted: the rendering is posted, if it
\* is not yet, and then the selection.
LEMMA TabClosed ==
  ASSUME NEW q \in Seq(Tasks), NEW sel \in Int, NEW sh \in Nat, NEW tb \in Nat,
         Ordered(q, sel, sh, tb), \A i \in 1..Len(q) : q[i].do # "select",
         (\A i \in 1..Len(q) : q[i] # Render) => sh = tb,
         NEW idx \in Nat, 1 <= idx, idx < sh,
         NEW n \in TabIds, n < tb - 1
  PROVE  Ordered(Append(PostOnce(q, Render), SelectLater(n)), idx, sh, tb - 1)
<1> DEFINE r == PostOnce(q, Render)
           p == Append(r, SelectLater(n))
<1>0. r \in Seq(Tasks)
  BY Posting, TaskKinds
<1>1. /\ Len(p) = Len(r) + 1 /\ Len(r) \in Nat
      /\ \A i \in 1..Len(r) : p[i] = r[i]
      /\ p[Len(r) + 1] = SelectLater(n)
  BY <1>0, Appended, TaskKinds
<1>2. /\ SelectLater(n).do = "select" /\ SelectLater(n).to = n /\ SelectLater(n) # Render
      /\ Render.do # "select" /\ Render # Scroll
  BY TaskKinds
<1>3. PICK k \in 1..Len(r) :
        /\ r[k] = Render
        /\ \A i \in 1..Len(r) : r[i] = Render => i = k
        /\ \/ sh < tb
           \/ sh = tb /\ k = Len(r)
  <2>1. CASE r = q /\ \E i \in 1..Len(q) : q[i] = Render
    BY <2>1 DEF Ordered, Settled, HasRender
  <2>2. CASE r = Append(q, Render) /\ \A i \in 1..Len(q) : q[i] # Render
    <3>1. /\ Len(r) = Len(q) + 1 /\ Len(q) \in Nat
          /\ \A i \in 1..Len(q) : r[i] = q[i]
          /\ r[Len(q) + 1] = Render
      BY <2>2, Appended, TaskKinds
    <3>2. sh = tb
      BY <2>2
    <3> HIDE DEF r
    <3>. QED
      BY <3>1, <3>2, <2>2
  <2>. QED
    BY <2>1, <2>2, Posting, TaskKinds
<1>4. \A i \in 1..Len(r) : r[i].do # "select"
  <2>1. CASE r = q
    BY <2>1
  <2>2. CASE r = Append(q, Render)
    BY <2>2, Appended, TaskKinds
  <2>. QED
    BY <2>1, <2>2, Posting, TaskKinds
<1> HIDE DEF r, p
<1>p. \A i \in 1..Len(p) : i = Len(r) + 1 \/ (i \in 1..Len(r) /\ p[i] = r[i])
  BY <1>1, SMTT(30)
<1>5. \A i, j \in 1..Len(p) : p[i] = Render /\ p[j] = Render => i = j
  <2>1. \A i \in 1..Len(p) : p[i] = Render => i = k
    BY <1>1, <1>2, <1>3, <1>p
  <2>. QED
    BY <2>1
<1>6. \A i \in 1..Len(p) : p[i].do = "select" => i = Len(r) + 1
  BY <1>4, <1>p
<1>7. Correction(p, Len(r) + 1, idx, sh, tb - 1)
  <2>1. p[Len(r) + 1].to < tb - 1
    BY <1>1, <1>2
  <2>2. p[k] = Render /\ k \in 1..(Len(r) + 1) - 1
    BY <1>1, <1>3
  <2>3. sh > tb - 1 \/ idx >= tb - 1 => k = Len(r)
    BY <1>3
  <2>. QED
    BY <1>1, <1>2, <2>1, <2>2, <2>3 DEF Correction
<1>8. p[Len(r) + 1].do = "select" /\ Len(r) + 1 \in 1..Len(p)
  BY <1>1, <1>2
<1>. QED
  BY <1>5, <1>6, <1>7, <1>8 DEF Ordered, r, p

\* The elements are rendered.
LEMMA Rendering ==
  ASSUME NEW q \in Seq(Tasks), NEW sel \in Int, NEW sh \in Nat, NEW tb \in Nat,
         Ordered(q, sel, sh, tb), q # <<>>, Head(q) = Render
  PROVE  Ordered(Tail(q), sel, tb, tb)
<1> DEFINE p == Tail(q)
<1>1. /\ Len(p) = Len(q) - 1 /\ Len(q) \in Nat /\ Len(q) > 0
      /\ \A i \in 1..Len(q) - 1 : p[i] = q[i + 1]
      /\ q[1] = Render
  BY Popped
<1>2. Render.do # "select"
  BY TaskKinds
<1> HIDE DEF p
<1>3. \A i \in 1..Len(p) : p[i] # Render
  BY <1>1 DEF Ordered
<1>4. \A i, j \in 1..Len(p) : p[i].do = "select" /\ p[j].do = "select" => i = j
  <2> TAKE i, j \in 1..Len(p)
  <2>1. i + 1 \in 1..Len(q) /\ j + 1 \in 1..Len(q) /\ p[i] = q[i + 1] /\ p[j] = q[j + 1]
    BY <1>1
  <2>. QED
    BY <2>1 DEF Ordered
<1>5. (\A i \in 1..Len(p) : p[i].do # "select") => Settled(p, sel, tb, tb)
  <2> HAVE \A i \in 1..Len(p) : p[i].do # "select"
  <2>1. \A i \in 1..Len(q) : q[i].do # "select"
    <3> TAKE i \in 1..Len(q)
    <3>1. i = 1 \/ (i - 1 \in 1..Len(p) /\ p[i - 1] = q[i])
      BY <1>1
    <3>. QED
      BY <1>1, <1>2, <3>1
  <2>. QED
    BY <2>1, <1>3 DEF Ordered, Settled, HasRender
<1>6. ASSUME NEW i \in 1..Len(p), p[i].do = "select"
      PROVE  Correction(p, i, sel, tb, tb)
  <2>1. i + 1 \in 1..Len(q) /\ q[i + 1] = p[i] /\ Correction(q, i + 1, sel, sh, tb)
    BY <1>1, <1>6 DEF Ordered
  <2>2. ASSUME sel >= tb, NEW j \in 1..i - 1, p[j] = Scroll PROVE FALSE
    <3>1. j + 1 \in 1..(i + 1) - 1 /\ q[j + 1] = Scroll
      BY <1>1, <2>2
    <3>2. PICK k \in (j + 1) + 1..(i + 1) - 1 : q[k] = Render
      BY <2>1, <2>2, <3>1 DEF Correction
    <3>3. k - 1 \in 1..Len(p) /\ p[k - 1] = q[k]
      BY <1>1, <3>2
    <3>. QED
      BY <3>2, <3>3, <1>3
  <2>. QED
    BY <1>1, <1>3, <2>1, <2>2 DEF Correction
<1>. QED
  BY <1>3, <1>4, <1>5, <1>6 DEF Ordered, p

\* An element is scrolled into view.
LEMMA Scrolling ==
  ASSUME NEW q \in Seq(Tasks), NEW sel \in Int, NEW sh \in Nat, NEW tb \in Nat,
         Ordered(q, sel, sh, tb), q # <<>>, Head(q) = Scroll
  PROVE  Ordered(Tail(q), sel, sh, tb)
<1> DEFINE p == Tail(q)
<1>1. /\ Len(p) = Len(q) - 1 /\ Len(q) \in Nat /\ Len(q) > 0
      /\ \A i \in 1..Len(q) - 1 : p[i] = q[i + 1]
      /\ q[1] = Scroll
  BY Popped
<1>2. Scroll.do # "select" /\ Scroll # Render
  BY TaskKinds
<1> HIDE DEF p
<1>3. \A i \in 1..Len(q) : i = 1 \/ (i - 1 \in 1..Len(p) /\ p[i - 1] = q[i])
  BY <1>1
<1>4. \A i \in 1..Len(p) : i + 1 \in 1..Len(q) /\ p[i] = q[i + 1]
  BY <1>1
<1>5. \A i, j \in 1..Len(p) : p[i] = Render /\ p[j] = Render => i = j
  <2> TAKE i, j \in 1..Len(p)
  <2>1. /\ i + 1 \in 1..Len(q) /\ p[i] = q[i + 1]
        /\ j + 1 \in 1..Len(q) /\ p[j] = q[j + 1]
    BY <1>4
  <2>2. p[i] = Render /\ p[j] = Render => i + 1 = j + 1
    BY <2>1 DEF Ordered
  <2>. QED
    BY <2>2
<1>6. \A i, j \in 1..Len(p) : p[i].do = "select" /\ p[j].do = "select" => i = j
  <2> TAKE i, j \in 1..Len(p)
  <2>1. /\ i + 1 \in 1..Len(q) /\ p[i] = q[i + 1]
        /\ j + 1 \in 1..Len(q) /\ p[j] = q[j + 1]
    BY <1>4
  <2>2. p[i].do = "select" /\ p[j].do = "select" => i + 1 = j + 1
    BY <2>1 DEF Ordered
  <2>. QED
    BY <2>2
<1>7. (\A i \in 1..Len(p) : p[i].do # "select") => Settled(p, sel, sh, tb)
  <2> HAVE \A i \in 1..Len(p) : p[i].do # "select"
  <2>1. \A i \in 1..Len(q) : q[i].do # "select"
    BY <1>1, <1>2, <1>3
  <2>2. HasRender(p) => HasRender(q)
    BY <1>4 DEF HasRender
  <2>. QED
    BY <2>1, <2>2 DEF Ordered, Settled
<1>8. ASSUME NEW i \in 1..Len(p), p[i].do = "select"
      PROVE  Correction(p, i, sel, sh, tb)
  <2>1. i + 1 \in 1..Len(q) /\ q[i + 1] = p[i] /\ Correction(q, i + 1, sel, sh, tb)
    BY <1>4, <1>8 DEF Ordered
  <2>2. \A k \in i + 1..Len(p) : p[k] = Render => sh < tb
    <3> TAKE k \in i + 1..Len(p)
    <3>1. k + 1 \in (i + 1) + 1..Len(q) /\ p[k] = q[k + 1]
      BY <1>1
    <3>. QED
      BY <2>1, <3>1 DEF Correction
  <2>3. sh > tb => \E k \in 1..i - 1 : p[k] = Render
    <3> HAVE sh > tb
    <3>1. PICK k \in 1..(i + 1) - 1 : q[k] = Render
      BY <2>1 DEF Correction
    <3>2. k - 1 \in 1..i - 1 /\ p[k - 1] = Render
      BY <1>1, <1>2, <3>1
    <3>. QED
      BY <3>2
  <2>4. ASSUME sh > tb \/ sel >= tb, NEW j \in 1..i - 1, p[j] = Scroll
        PROVE  \E k \in j + 1..i - 1 : p[k] = Render
    <3>1. j + 1 \in 1..(i + 1) - 1 /\ q[j + 1] = Scroll
      BY <1>1, <2>4
    <3>2. PICK k \in (j + 1) + 1..(i + 1) - 1 : q[k] = Render
      BY <2>1, <2>4, <3>1 DEF Correction
    <3>3. k - 1 \in j + 1..i - 1 /\ p[k - 1] = Render
      BY <1>1, <3>2
    <3>. QED
      BY <3>3
  <2>. QED
    BY <2>1, <2>2, <2>3, <2>4 DEF Correction
<1>. QED
  BY <1>5, <1>6, <1>7, <1>8 DEF Ordered, p

\* The posted selection is assigned.
LEMMA Selecting ==
  ASSUME NEW q \in Seq(Tasks), NEW sel \in Int, NEW sh \in Nat, NEW tb \in Nat,
         Ordered(q, sel, sh, tb), q # <<>>, Head(q).do = "select"
  PROVE  /\ Head(q).to \in TabIds /\ Head(q).to < tb
         /\ Ordered(Tail(q), Head(q).to, sh, tb)
<1> DEFINE p == Tail(q)
<1>1. /\ Len(p) = Len(q) - 1 /\ Len(q) \in Nat /\ Len(q) > 0
      /\ \A i \in 1..Len(q) - 1 : p[i] = q[i + 1]
      /\ Head(q) = q[1] /\ q[1].do = "select" /\ q[1] \in Tasks
  BY Popped
<1>2. 1 \in 1..Len(q) /\ Correction(q, 1, sel, sh, tb)
  BY <1>1 DEF Ordered
<1> HIDE DEF p
<1>3. q[1].to < tb /\ sh <= tb /\ q[1].to \in TabIds
  <2>1. ~(sh > tb)
    BY <1>2 DEF Correction
  <2>. QED
    BY <1>1, <1>2, <2>1, TaskKinds DEF Correction
<1>4. \A i \in 1..Len(p) : i + 1 \in 1..Len(q) /\ p[i] = q[i + 1]
  BY <1>1
<1>5. \A i, j \in 1..Len(p) : p[i] = Render /\ p[j] = Render => i = j
  <2> TAKE i, j \in 1..Len(p)
  <2>1. /\ i + 1 \in 1..Len(q) /\ p[i] = q[i + 1]
        /\ j + 1 \in 1..Len(q) /\ p[j] = q[j + 1]
    BY <1>4
  <2>2. p[i] = Render /\ p[j] = Render => i + 1 = j + 1
    BY <2>1 DEF Ordered
  <2>. QED
    BY <2>2
<1>6. \A i \in 1..Len(p) : p[i].do # "select"
  <2> TAKE i \in 1..Len(p)
  <2>1. i + 1 \in 1..Len(q) /\ i + 1 # 1 /\ p[i] = q[i + 1]
    BY <1>4
  <2>. QED
    BY <2>1, <1>1, <1>2 DEF Ordered
<1>7. HasRender(p) => sh < tb
  <2> SUFFICES ASSUME NEW i \in 1..Len(p), p[i] = Render PROVE sh < tb
    BY DEF HasRender
  <2>1. i + 1 \in 1 + 1..Len(q) /\ q[i + 1] = Render
    BY <1>1
  <2>. QED
    BY <1>2, <2>1 DEF Correction
<1>8. Settled(p, q[1].to, sh, tb)
  BY <1>3, <1>7 DEF Settled
<1>. QED
  BY <1>1, <1>3, <1>5, <1>6, <1>8 DEF Ordered, p

-----------------------------------------------------------------------------
(* The steps.                                                                *)

\* A row without its k-th element.
LEMMA WithoutFacts ==
  ASSUME NEW S, NEW row \in Seq(S), NEW k \in 1..Len(row)
  PROVE  /\ Without(row, k) \in Seq(S)
         /\ Len(Without(row, k)) = Len(row) - 1
         /\ \A i \in 1..Len(row) - 1 :
              Without(row, k)[i] = IF i < k THEN row[i] ELSE row[i + 1]
<1> DEFINE a == SubSeq(row, 1, k - 1)
           b == SubSeq(row, k + 1, Len(row))
<1>0. Len(row) \in Nat /\ \A i \in 1..Len(row) : row[i] \in S
  OBVIOUS
<1>1. /\ a \in Seq(S) /\ Len(a) = k - 1
      /\ \A i \in 1..k - 1 : a[i] = row[i]
  BY <1>0, SubSeqProperties
<1>2. /\ b \in Seq(S) /\ Len(b) = Len(row) - k
      /\ \A i \in 1..Len(row) - k : b[i] = row[k + i]
  <2>1. CASE k + 1 <= Len(row) + 1
    BY <1>0, <2>1, SubSeqProperties
  <2>. QED
    BY <1>0, <2>1
<1> HIDE DEF a, b
<1>3. /\ a \o b \in Seq(S)
      /\ Len(a \o b) = Len(row) - 1
      /\ \A i \in 1..Len(row) - 1 :
           (a \o b)[i] = IF i < k THEN a[i] ELSE b[i - (k - 1)]
  <2>1. /\ a \o b \in Seq(S) /\ Len(a \o b) = Len(a) + Len(b)
        /\ \A i \in 1..Len(a) + Len(b) :
             (a \o b)[i] = IF i <= Len(a) THEN a[i] ELSE b[i - Len(a)]
    BY <1>1, <1>2, ConcatProperties
  <2>. QED
    BY <1>0, <1>1, <1>2, <2>1
<1>4. \A i \in 1..Len(row) - 1 : (a \o b)[i] = IF i < k THEN row[i] ELSE row[i + 1]
  BY <1>0, <1>1, <1>2, <1>3
<1>. QED
  BY <1>3, <1>4 DEF Without, a, b

\* The facts about sizes that every step uses.
LEMMA Sizes ==
  ASSUME BarInv
  PROVE  /\ posted \in Seq(Tasks) /\ selected \in Nat /\ MaxTabs \in Nat
         /\ Len(tabs) \in Nat /\ Len(tabs) > 0 /\ Len(tabs) <= made + 1 /\ made \in TabIds
         /\ Len(shown) \in Nat /\ Len(shown) > 0
         /\ Pending("render") <=> HasRender(posted)
         /\ \A i \in 1..Len(posted) : posted[i] \in Tasks
<1>1. posted \in Seq(Tasks)
  BY DEF BarInv, TypeOK, Tasks
<1>2. \A i \in 1..Len(posted) : posted[i] \in Tasks
  BY <1>1
<1>3. Pending("render") <=> HasRender(posted)
  BY <1>2, TaskKinds DEF Pending, HasRender
<1>4. Len(tabs) > 0 /\ Len(shown) > 0
  BY EmptySeq DEF BarInv, TypeOK, FramesFollow, TabsInv
<1>. QED
  BY <1>1, <1>2, <1>3, <1>4, BoundsAssumption DEF BarInv, TypeOK, TabsInv, TabIds

\* The window opens with the home page.
LEMMA InitInv == Init => BarInv
<1> SUFFICES ASSUME Init PROVE BarInv
  OBVIOUS
<1> USE BoundsAssumption DEF Init
<1>1. 0 \in TabIds /\ Home = 0
  BY DEF TabIds, Home
<1>2. <<Home>> \in Seq(TabIds) /\ Len(<<Home>>) = 1 /\ <<Home>>[1] = Home
  BY <1>1
<1>3. posted \in Seq(Tasks) /\ Len(posted) = 1 /\ posted[1] = Scroll
  BY TaskKinds
<1>4. TypeOK
  BY <1>1, <1>2, <1>3 DEF TypeOK, Tasks
<1>5. FramesFollow
  BY <1>2 DEF FramesFollow
<1>6. TabsInv
  BY <1>1, <1>2 DEF TabsInv
<1>7. Ordered(posted, 0, 1, 1)
  BY <1>3, TaskKinds DEF Ordered, Settled, HasRender
<1>8. SelectionInv
  BY <1>2, <1>7 DEF SelectionInv
<1>. QED
  BY <1>4, <1>5, <1>6, <1>8 DEF BarInv

\* A new tab.
LEMMA AddTabInv == BarInv /\ AddTab => BarInv'
<1> SUFFICES ASSUME BarInv, AddTab PROVE BarInv'
  OBVIOUS
<1>0. /\ posted \in Seq(Tasks) /\ selected \in Nat /\ MaxTabs \in Nat
      /\ Len(tabs) \in Nat /\ Len(tabs) > 0 /\ Len(tabs) <= made + 1 /\ made \in TabIds
      /\ Len(shown) \in Nat
      /\ Pending("render") <=> HasRender(posted)
  BY Sizes
<1> DEFINE q == PostOnce(posted, Render)
<1>1. q \in Seq(Tasks) /\ HasRender(q)
      /\ (q = posted \/ (q = Append(posted, Render) /\ ~HasRender(posted)))
  <2>1. q \in Seq(Tasks)
    BY <1>0, Posting, TaskKinds
  <2>2. CASE q = posted /\ \E i \in 1..Len(posted) : posted[i] = Render
    BY <2>1, <2>2 DEF HasRender
  <2>3. CASE q = Append(posted, Render) /\ \A i \in 1..Len(posted) : posted[i] # Render
    <3>1. Len(q) = Len(posted) + 1 /\ q[Len(posted) + 1] = Render /\ Len(posted) \in Nat
      BY <1>0, <2>3, Appended, TaskKinds
    <3>. QED
      BY <2>1, <2>3, <3>1 DEF HasRender
  <2>. QED
    BY <1>0, <2>2, <2>3, Posting, TaskKinds
<1>2. posted' \in Seq(Tasks) /\ posted' \in {q, Append(q, Scroll)}
  BY <1>1, Observing DEF AddTab
<1>3. HasRender(posted')
  <2>1. CASE posted' = q
    BY <1>1, <2>1
  <2>2. CASE posted' = Append(q, Scroll)
    <3> HIDE DEF q
    <3>. QED
      BY <1>1, <2>2, Appended, TaskKinds DEF HasRender
  <2>. QED
    BY <1>2, <2>1, <2>2
<1>4. /\ made' = made + 1 /\ made' \in TabIds
      /\ Len(tabs') = Len(tabs) + 1
      /\ \A k \in 1..Len(tabs) : tabs'[k] = tabs[k]
      /\ tabs'[Len(tabs) + 1] = made + 1
      /\ tabs' \in Seq(TabIds)
  BY <1>0 DEF AddTab, BarInv, TypeOK, TabIds
<1>5. TypeOK'
  <2>1. frames' \in Seq(TabIds)
    BY <1>4 DEF AddTab, BarInv, TypeOK
  <2>2. selected' \in TabIds
    BY <1>0 DEF AddTab, TabIds
  <2>3. late' \in {"no", "input", "close"}
    BY DEF AddTab, Note, BarInv, TypeOK
  <2>. QED
    BY <1>2, <1>4, <2>1, <2>2, <2>3 DEF TypeOK, Tasks, AddTab, BarInv
<1>6. FramesFollow'
  <2>1. frames' = tabs'
    BY DEF AddTab, BarInv, FramesFollow
  <2>2. Pending("render")'
    BY <1>2, <1>3, TaskKinds DEF Pending, HasRender
  <2>3. tabs' # <<>> /\ tabs'[1] = Home
    BY <1>0, <1>4, EmptySeq DEF BarInv, FramesFollow
  <2>. QED
    BY <2>1, <2>2, <2>3 DEF FramesFollow
<1>7. TabsInv'
  <2>1. \A k \in 1..Len(tabs') : k = Len(tabs) + 1 \/ (k \in 1..Len(tabs) /\ tabs'[k] = tabs[k])
    BY <1>0, <1>4
  <2>2. \A k \in 1..Len(tabs) : tabs[k] \in Nat /\ tabs[k] <= made
    <3>1. \A k \in 1..Len(tabs) : tabs[k] \in TabIds
      BY DEF BarInv, TypeOK
    <3>2. \A k \in 1..Len(tabs) : tabs[k] <= made
      BY DEF BarInv, TabsInv
    <3>. QED
      BY <3>1, <3>2, BoundsAssumption DEF TabIds
  <2>3. \A k \in 1..Len(tabs') : tabs'[k] <= made'
    <3>1. \A k \in 1..Len(tabs) : tabs[k] <= made + 1
      <4>1. made \in Nat
        BY <1>0 DEF TabIds
      <4>. QED
        BY <2>2, <4>1
    <3>2. made' = made + 1 /\ tabs'[Len(tabs) + 1] = made + 1
      BY <1>0, <1>4
    <3>. QED
      BY <1>0, <2>1, <3>1, <3>2
  <2>4. \A k, l \in 1..Len(tabs') : tabs'[k] = tabs'[l] => k = l
    <3>1. \A k, l \in 1..Len(tabs) : tabs[k] = tabs[l] => k = l
      BY DEF BarInv, TabsInv
    <3>2. \A k \in 1..Len(tabs) : tabs[k] # made + 1
      <4>1. made \in Nat
        BY <1>0 DEF TabIds
      <4>. QED
        BY <2>2, <4>1
    <3> SUFFICES ASSUME NEW k \in 1..Len(tabs'), NEW l \in 1..Len(tabs'), tabs'[k] = tabs'[l]
                 PROVE  k = l
      OBVIOUS
    <3>3. CASE k = Len(tabs) + 1
      BY <1>4, <2>1, <3>2, <3>3
    <3>4. CASE l = Len(tabs) + 1
      BY <1>4, <2>1, <3>2, <3>4
    <3>5. CASE k # Len(tabs) + 1 /\ l # Len(tabs) + 1
      BY <2>1, <3>1, <3>5
    <3>. QED
      BY <3>3, <3>4, <3>5
  <2>. QED
    BY <1>0, <1>4, <2>3, <2>4 DEF TabsInv, AddTab, BarInv, TabIds
<1>8. SelectionInv'
  <2> SUFFICES ASSUME late' # "close"
               PROVE  Ordered(posted', Len(tabs), Len(shown), Len(tabs) + 1)
    BY <1>4 DEF SelectionInv, AddTab
  <2>1. Ordered(posted, selected, Len(shown), Len(tabs))
    BY DEF AddTab, Note, BarInv, SelectionInv
  <2>2. Ordered(posted, Len(tabs), Len(shown), Len(tabs) + 1)
    BY <1>0, <2>1, TabAdded
  <2>3. Ordered(q, Len(tabs), Len(shown), Len(tabs) + 1)
    <3>1. CASE ~HasRender(posted) /\ q = Append(posted, Render)
      <4>1. Len(shown) = Len(tabs)
        BY <1>0, <3>1 DEF BarInv, FramesFollow
      <4>. QED
        BY <1>0, <2>2, <3>1, <4>1, PostRender DEF HasRender
    <3>. QED
      BY <1>1, <2>2, <3>1
  <2>4. Ordered(Append(q, Scroll), Len(tabs), Len(shown), Len(tabs) + 1)
    BY <1>0, <1>1, <2>3, PostScroll
  <2>. QED
    BY <1>2, <2>3, <2>4
<1>. QED
  BY <1>5, <1>6, <1>7, <1>8 DEF BarInv

\* A click on a tab.
LEMMA ActiveTabInv ==
  ASSUME BarInv, NEW idx \in 0..MaxTabs, idx < Len(shown), ActiveTab(idx)
  PROVE  BarInv'
<1>0. /\ posted \in Seq(Tasks) /\ selected \in Nat
      /\ Len(tabs) \in Nat /\ Len(shown) \in Nat
      /\ Pending("render") <=> HasRender(posted)
      /\ idx \in Nat
  BY Sizes
<1>1. posted' \in Seq(Tasks) /\ posted' \in {posted, Append(posted, Scroll)}
  BY <1>0, Observing DEF ActiveTab
<1>2. HasRender(posted) => HasRender(posted')
  <2>1. CASE posted' = posted
    BY <2>1 DEF HasRender
  <2>2. CASE posted' = Append(posted, Scroll)
    <3>1. /\ Len(posted') = Len(posted) + 1 /\ Len(posted) \in Nat
          /\ \A i \in 1..Len(posted) : posted'[i] = posted[i]
      BY <1>0, <2>2, Appended, TaskKinds
    <3>. QED
      BY <3>1 DEF HasRender
  <2>. QED
    BY <1>1, <2>1, <2>2
<1>3. TypeOK'
  <2>1. late' \in {"no", "input", "close"}
    BY DEF ActiveTab, Note, BarInv, TypeOK
  <2>. QED
    BY <1>1, <2>1 DEF TypeOK, Tasks, ActiveTab, BarInv, TabIds
<1>4. FramesFollow'
  <2>1. HasRender(posted') => Pending("render")'
    BY <1>1, TaskKinds DEF Pending, HasRender
  <2>. QED
    BY <1>0, <1>2, <2>1 DEF FramesFollow, ActiveTab, BarInv
<1>5. TabsInv'
  BY DEF TabsInv, ActiveTab, BarInv
<1>6. SelectionInv'
  <2> SUFFICES ASSUME late' # "close"
               PROVE  Ordered(posted', idx, Len(shown), Len(tabs))
    BY DEF SelectionInv, ActiveTab
  <2>1. Ordered(posted, selected, Len(shown), Len(tabs))
    BY DEF ActiveTab, Note, BarInv, SelectionInv
  <2>2. Ordered(posted, idx, Len(shown), Len(tabs))
    BY <1>0, <2>1, TabActivated
  <2>3. Ordered(Append(posted, Scroll), idx, Len(shown), Len(tabs))
    BY <1>0, <2>2, PostScroll
  <2>. QED
    BY <1>1, <2>2, <2>3
<1>. QED
  BY <1>3, <1>4, <1>5, <1>6 DEF BarInv

\* A click on the close button of a tab.
LEMMA CloseTabInv ==
  ASSUME BarInv, NEW idx \in 0..MaxTabs, idx < Len(shown), CloseTab(idx)
  PROVE  BarInv'
<1>0. /\ posted \in Seq(Tasks) /\ selected \in Nat /\ MaxTabs \in Nat
      /\ Len(tabs) \in Nat /\ Len(tabs) <= made + 1 /\ made \in TabIds
      /\ Len(shown) \in Nat
      /\ Pending("render") <=> HasRender(posted)
      /\ \A i \in 1..Len(posted) : posted[i] \in Tasks
  BY Sizes
<1> DEFINE there == idx < Len(tabs)
           n == AfterClose(idx)
           q == IF there THEN PostOnce(posted, Render) ELSE posted
           p == Append(q, SelectLater(n))
<1>1. idx \in Nat /\ 1 <= idx
  BY <1>0 DEF CloseTab, BarInv, TabsInv
<1>2. n \in TabIds
  BY <1>0, <1>1 DEF AfterClose, BarInv, TypeOK, TabIds
<1>3. /\ q \in Seq(Tasks)
      /\ there => HasRender(q)
      /\ HasRender(posted) => HasRender(q)
  <2>1. CASE ~there
    BY <1>0, <2>1
  <2>2. CASE there /\ PostOnce(posted, Render) = posted /\ \E i \in 1..Len(posted) : posted[i] = Render
    BY <1>0, <2>2 DEF HasRender
  <2>3. CASE there /\ PostOnce(posted, Render) = Append(posted, Render)
    <3>1. q = Append(posted, Render)
      BY <2>3
    <3> HIDE DEF q
    <3>2. q \in Seq(Tasks) /\ Len(q) = Len(posted) + 1 /\ q[Len(posted) + 1] = Render
          /\ Len(posted) \in Nat
      BY <1>0, <3>1, Appended, TaskKinds
    <3>. QED
      BY <3>2 DEF HasRender
  <2>. QED
    BY <1>0, <2>1, <2>2, <2>3, Posting, TaskKinds
<1>4. p \in Seq(Tasks) /\ (HasRender(q) => HasRender(p))
  <2> HIDE DEF q, n
  <2>. QED
    BY <1>2, <1>3, Appended, StillRender, TaskKinds
<1>5. posted' = Observed(p, selected, idx)
  BY DEF CloseTab, SelectNext
<1> HIDE DEF p
<1>6. posted' \in Seq(Tasks) /\ posted' \in {p, Append(p, Scroll)}
  BY <1>4, <1>5, Observing
<1>7. HasRender(p) => HasRender(posted')
  BY <1>4, <1>6, StillRender, TaskKinds
<1>8. HasRender(posted') => Pending("render")'
  BY <1>6, TaskKinds DEF Pending, HasRender
<1> HIDE DEF q, n
<1>9. /\ tabs \in Seq(TabIds) /\ frames \in Seq(TabIds) /\ frames = tabs
      /\ tabs[1] = Home /\ tabs # <<>>
  BY DEF BarInv, TypeOK, FramesFollow
<1>10. /\ tabs' \in Seq(TabIds) /\ frames' = tabs' /\ tabs' # <<>> /\ tabs'[1] = Home
       /\ Len(tabs') <= Len(tabs)
       /\ \A k \in 1..Len(tabs') : \E i \in 1..Len(tabs) : tabs'[k] = tabs[i]
       /\ \A k, l \in 1..Len(tabs') : tabs'[k] = tabs'[l] => k = l
  <2>1. CASE ~there
    <3>1. tabs' = tabs /\ frames' = tabs
      BY <1>9, <2>1 DEF CloseTab
    <3>. QED
      BY <1>9, <3>1 DEF BarInv, TabsInv
  <2>2. CASE there
    <3>1. idx + 1 \in 1..Len(tabs)
      BY <1>0, <1>1, <2>2
    <3>2. /\ Without(tabs, idx + 1) \in Seq(TabIds)
          /\ Len(Without(tabs, idx + 1)) = Len(tabs) - 1
          /\ \A i \in 1..Len(tabs) - 1 : Without(tabs, idx + 1)[i] =
               IF i < idx + 1 THEN tabs[i] ELSE tabs[i + 1]
      BY <1>9, <3>1, WithoutFacts
    <3>3. tabs' = Without(tabs, idx + 1) /\ frames' = Without(tabs, idx + 1)
      BY <1>9, <2>2 DEF CloseTab, FramesWithout
    <3>4. /\ tabs' \in Seq(TabIds) /\ frames' = tabs' /\ Len(tabs') = Len(tabs) - 1
          /\ \A i \in 1..Len(tabs) - 1 : tabs'[i] =
               IF i < idx + 1 THEN tabs[i] ELSE tabs[i + 1]
      BY <3>2, <3>3
    <3>5. tabs' # <<>> /\ tabs'[1] = Home
      BY <1>0, <1>1, <1>9, <2>2, <3>4, EmptySeq
    <3>6. \A k \in 1..Len(tabs') : \E i \in 1..Len(tabs) : tabs'[k] = tabs[i]
      BY <1>0, <3>4
    <3>7. \A k, l \in 1..Len(tabs') : tabs'[k] = tabs'[l] => k = l
      <4> TAKE k, l \in 1..Len(tabs')
      <4>1. \A i, j \in 1..Len(tabs) : tabs[i] = tabs[j] => i = j
        BY DEF BarInv, TabsInv
      <4>2. k \in 1..Len(tabs) - 1 /\ l \in 1..Len(tabs) - 1
        BY <3>4
      <4>3. /\ tabs'[k] = IF k < idx + 1 THEN tabs[k] ELSE tabs[k + 1]
            /\ tabs'[l] = IF l < idx + 1 THEN tabs[l] ELSE tabs[l + 1]
        BY <3>4, <4>2
      <4>4. k \in 1..Len(tabs) /\ k + 1 \in 1..Len(tabs) /\ l \in 1..Len(tabs) /\ l + 1 \in 1..Len(tabs)
        BY <1>0, <4>2
      <4>. QED
        BY <1>0, <1>1, <4>1, <4>2, <4>3, <4>4
    <3>. QED
      BY <1>0, <3>4, <3>5, <3>6, <3>7
  <2>. QED
    BY <2>1, <2>2
<1>11. TypeOK'
  <2>1. late' \in {"no", "input", "close"}
    BY DEF CloseTab, Note, BarInv, TypeOK
  <2>2. selected' \in TabIds
    BY DEF CloseTab, TabIds
  <2>. QED
    BY <1>6, <1>10, <2>1, <2>2 DEF TypeOK, Tasks, CloseTab, BarInv
<1>12. FramesFollow'
  <2>1. CASE there
    BY <1>3, <1>4, <1>7, <1>8, <1>10, <2>1 DEF FramesFollow
  <2>2. CASE ~there
    BY <1>0, <1>3, <1>4, <1>7, <1>8, <1>10, <2>2 DEF FramesFollow, CloseTab, BarInv
  <2>. QED
    BY <2>1, <2>2
<1>13. TabsInv'
  <2>1. \A k \in 1..Len(tabs) : tabs[k] <= made
    BY DEF BarInv, TabsInv
  <2>2. \A k \in 1..Len(tabs') : tabs'[k] <= made
    BY <1>10, <2>1
  <2>3. Len(tabs') <= made + 1
    BY <1>0, <1>10 DEF TabIds
  <2>. QED
    BY <1>10, <2>2, <2>3 DEF TabsInv, CloseTab, BarInv
<1>14. SelectionInv'
  <2> SUFFICES ASSUME late' # "close"
               PROVE  Ordered(posted', idx, Len(shown), Len(tabs'))
    BY DEF SelectionInv, CloseTab
  <2>1. late # "close" /\ ~Pending("select")
    BY DEF CloseTab, Note
  <2>2. Ordered(posted, selected, Len(shown), Len(tabs))
    BY <2>1 DEF BarInv, SelectionInv
  <2>3. \A i \in 1..Len(posted) : posted[i].do # "select"
    BY <2>1 DEF Pending
  <2>4. Settled(posted, selected, Len(shown), Len(tabs))
    BY <2>2, <2>3 DEF Ordered
  <2>5. there
    BY <1>0, <1>1, <2>4 DEF Settled
  <2>6. Len(tabs') = Len(tabs) - 1
    <3>1. idx + 1 \in 1..Len(tabs)
      BY <1>0, <1>1, <2>5
    <3>. QED
      BY <1>9, <2>5, <3>1, WithoutFacts DEF CloseTab
  <2>7. n < Len(tabs) - 1
    BY <1>0, <1>1, <2>4, <2>5 DEF n, AfterClose, Settled
  <2>8. (\A i \in 1..Len(posted) : posted[i] # Render) => Len(shown) = Len(tabs)
    BY <1>0 DEF BarInv, FramesFollow, HasRender
  <2>9. Ordered(Append(PostOnce(posted, Render), SelectLater(n)), idx, Len(shown), Len(tabs) - 1)
    BY <1>0, <1>1, <1>2, <2>2, <2>3, <2>7, <2>8, TabClosed
  <2>10. Ordered(p, idx, Len(shown), Len(tabs'))
    BY <2>5, <2>6, <2>9 DEF p, q
  <2>11. Len(tabs') \in Nat
    BY <1>10
  <2>12. Ordered(Append(p, Scroll), idx, Len(shown), Len(tabs'))
    BY <1>0, <1>1, <1>4, <2>10, <2>11, PostScroll
  <2>. QED
    BY <1>6, <2>10, <2>12
<1>. QED
  BY <1>11, <1>12, <1>13, <1>14 DEF BarInv

\* The rendering of the elements.
LEMMA RunRenderInv == BarInv /\ RunRender => BarInv'
<1> SUFFICES ASSUME BarInv, RunRender PROVE BarInv'
  OBVIOUS
<1>0. /\ posted \in Seq(Tasks) /\ selected \in Nat
      /\ Len(tabs) \in Nat /\ Len(shown) \in Nat
  BY Sizes
<1>1. posted # <<>> /\ Head(posted) = Render /\ posted' = Tail(posted) /\ posted' \in Seq(Tasks)
  BY <1>0, Popped, TaskKinds DEF RunRender, Run
<1>2. TypeOK'
  BY <1>1 DEF RunRender, TypeOK, BarInv, Tasks
<1>3. FramesFollow'
  BY DEF RunRender, FramesFollow, BarInv
<1>4. TabsInv'
  BY DEF RunRender, TabsInv, BarInv, FramesFollow
<1>5. SelectionInv'
  BY <1>0, <1>1, Rendering DEF SelectionInv, RunRender, BarInv
<1>. QED
  BY <1>2, <1>3, <1>4, <1>5 DEF BarInv

\* The posted selection.
LEMMA RunSelectInv == BarInv /\ RunSelect => BarInv'
<1> SUFFICES ASSUME BarInv, RunSelect PROVE BarInv'
  OBVIOUS
<1>0. /\ posted \in Seq(Tasks) /\ selected \in Nat
      /\ Len(tabs) \in Nat /\ Len(shown) \in Nat
      /\ Pending("render") <=> HasRender(posted)
  BY Sizes
<1> DEFINE to == Head(posted).to
           p == Tail(posted)
<1>1. posted # <<>> /\ Head(posted).do = "select" /\ Head(posted) = posted[1]
      /\ p \in Seq(Tasks) /\ posted' = Observed(p, selected, to) /\ selected' = to
      /\ posted[1] \in Tasks /\ Len(posted) \in Nat /\ Len(posted) > 0
  BY <1>0, Popped DEF RunSelect, Run
<1>2. to \in TabIds
  BY <1>1, TaskKinds
<1>3. HasRender(posted) => HasRender(p)
  <2> SUFFICES ASSUME NEW i \in 1..Len(posted), posted[i] = Render PROVE HasRender(p)
    BY DEF HasRender
  <2>1. i # 1
    BY <1>1, TaskKinds
  <2>2. i - 1 \in 1..Len(p) /\ p[i - 1] = Render
    BY <1>0, <1>1, <2>1, Popped
  <2>. QED
    BY <2>2 DEF HasRender
<1> HIDE DEF p, to
<1>4. posted' \in Seq(Tasks) /\ posted' \in {p, Append(p, Scroll)}
  BY <1>1, Observing
<1>5. HasRender(p) => HasRender(posted')
  BY <1>1, <1>4, StillRender, TaskKinds
<1>6. HasRender(posted') => Pending("render")'
  BY <1>4, TaskKinds DEF Pending, HasRender
<1>7. TypeOK'
  BY <1>1, <1>2, <1>4 DEF RunSelect, TypeOK, BarInv, Tasks
<1>8. FramesFollow'
  BY <1>0, <1>3, <1>5, <1>6 DEF RunSelect, FramesFollow, BarInv
<1>9. TabsInv'
  BY DEF RunSelect, TabsInv, BarInv
<1>10. SelectionInv'
  <2> SUFFICES ASSUME late # "close"
               PROVE  Ordered(posted', to, Len(shown), Len(tabs))
    BY <1>1 DEF SelectionInv, RunSelect
  <2>1. Ordered(p, to, Len(shown), Len(tabs))
    BY <1>0, <1>1, Selecting DEF SelectionInv, BarInv, p, to
  <2>2. to \in Int
    BY <1>2 DEF TabIds
  <2>3. Ordered(Append(p, Scroll), to, Len(shown), Len(tabs))
    BY <1>0, <1>1, <2>1, <2>2, PostScroll
  <2>. QED
    BY <1>4, <2>1, <2>3
<1>. QED
  BY <1>7, <1>8, <1>9, <1>10 DEF BarInv

\* The scrolling into view.
LEMMA RunScrollInv == BarInv /\ RunScroll => BarInv'
<1> SUFFICES ASSUME BarInv, RunScroll PROVE BarInv'
  OBVIOUS
<1>0. /\ posted \in Seq(Tasks) /\ selected \in Nat
      /\ Len(tabs) \in Nat /\ Len(shown) \in Nat
      /\ Pending("render") <=> HasRender(posted)
  BY Sizes
<1>1. posted # <<>> /\ Head(posted) = Scroll /\ posted' = Tail(posted) /\ posted' \in Seq(Tasks)
      /\ posted[1] = Scroll
  BY <1>0, Popped, TaskKinds DEF RunScroll, Run
<1>2. HasRender(posted) => Pending("render")'
  <2> SUFFICES ASSUME NEW i \in 1..Len(posted), posted[i] = Render PROVE Pending("render")'
    BY DEF HasRender
  <2>1. i - 1 \in 1..Len(posted') /\ posted'[i - 1] = Render
    BY <1>0, <1>1, Popped, TaskKinds
  <2>. QED
    BY <2>1, TaskKinds DEF Pending
<1>3. TypeOK'
  BY <1>1 DEF RunScroll, TypeOK, BarInv, Tasks
<1>4. FramesFollow'
  BY <1>0, <1>2 DEF RunScroll, FramesFollow, BarInv
<1>5. TabsInv'
  BY DEF RunScroll, TabsInv, BarInv
<1>6. SelectionInv'
  BY <1>0, <1>1, Scrolling DEF SelectionInv, RunScroll, BarInv
<1>. QED
  BY <1>3, <1>4, <1>5, <1>6 DEF BarInv

\* Every step keeps the invariant.
LEMMA NextInv == BarInv /\ [Next]_vars => BarInv'
<1> SUFFICES ASSUME BarInv, [Next]_vars PROVE BarInv'
  OBVIOUS
<1>1. CASE AddTab
  BY <1>1, AddTabInv
<1>2. ASSUME NEW idx \in 0..MaxTabs, idx < Len(shown), ActiveTab(idx) PROVE BarInv'
  BY <1>2, ActiveTabInv
<1>3. ASSUME NEW idx \in 0..MaxTabs, idx < Len(shown), CloseTab(idx) PROVE BarInv'
  BY <1>3, CloseTabInv
<1>4. CASE Posted
  BY <1>4, RunRenderInv, RunSelectInv, RunScrollInv DEF Posted
<1>5. CASE UNCHANGED vars
  BY <1>5 DEF vars, BarInv, TypeOK, FramesFollow, Pending, TabsInv, SelectionInv
<1>. QED
  BY <1>1, <1>2, <1>3, <1>4, <1>5 DEF Next, Input

\* The parts on tabs, elements and posted tasks are together inductive, for any
\* number of tabs and of inputs before the posted tasks run (browser.html).
THEOREM TabBarInvariant == Spec => []BarInv
<1>. QED
  BY InitInv, NextInv, PTL DEF Spec

\* Every variable keeps its type: in particular no index becomes negative
\* (browser.html:156-160).
THEOREM TabTypes == Spec => []TypeOK
<1>1. BarInv => TypeOK
  BY DEF BarInv
<1>. QED
  BY <1>1, TabBarInvariant, PTL

\* Frames follow tabs, and elements once rendered (browser.html:130-145).
THEOREM FramesKeepUp == Spec => []FramesFollow
<1>1. BarInv => FramesFollow
  BY DEF BarInv
<1>. QED
  BY <1>1, TabBarInvariant, PTL

\* The index selected is a tab whenever no correction is posted, and its element
\* is there when it is scrolled to (browser.html:147-160).
THEOREM SelectionExists == Spec => []SelectedExists
<1>1. BarInv => SelectedExists
  <2> SUFFICES ASSUME BarInv, late # "close"
      PROVE  /\ ~Pending("select") => Exists(selected)
             /\ Run("scroll") => selected < Len(shown) \/ Pending("render")
             /\ \A i \in 1..Len(posted) : posted[i].do = "select" => Exists(posted[i].to)
    BY DEF SelectedExists
  <2>0. /\ posted \in Seq(Tasks) /\ selected \in Nat
        /\ Len(tabs) \in Nat /\ Len(shown) \in Nat
        /\ Pending("render") <=> HasRender(posted)
    BY Sizes
  <2>1. Ordered(posted, selected, Len(shown), Len(tabs))
    BY DEF BarInv, SelectionInv
  <2>2. ~Pending("select") => Exists(selected)
    BY <2>1 DEF Ordered, Settled, Pending, Exists
  <2>3. \A i \in 1..Len(posted) : posted[i].do = "select" => Exists(posted[i].to)
    BY <2>1 DEF Ordered, Correction, Exists
  <2>4. ASSUME Run("scroll"), ~HasRender(posted) PROVE selected < Len(shown)
    <3>1. Len(shown) = Len(tabs)
      BY <2>0, <2>4 DEF BarInv, FramesFollow
    <3>2. CASE ~Pending("select")
      BY <2>2, <3>1, <3>2 DEF Exists
    <3>3. CASE Pending("select")
      <4>1. PICK i \in 1..Len(posted) : posted[i].do = "select"
        BY <3>3 DEF Pending
      <4>2. posted # <<>> /\ posted[1] = Scroll /\ Len(posted) \in Nat /\ Len(posted) > 0
        BY <2>0, <2>4, Popped, TaskKinds DEF Run
      <4>3. 1 \in 1..i - 1
        BY <4>1, <4>2, TaskKinds
      <4>4. Correction(posted, i, selected, Len(shown), Len(tabs))
        BY <2>1, <4>1 DEF Ordered
      <4>5. ~(selected >= Len(tabs))
        BY <2>4, <4>1, <4>2, <4>3, <4>4 DEF Correction, HasRender
      <4>. QED
        BY <2>0, <3>1, <4>5
    <3>. QED
      BY <3>2, <3>3
  <2>. QED
    BY <2>0, <2>2, <2>3, <2>4
<1>. QED
  BY <1>1, TabBarInvariant, PTL

-----------------------------------------------------------------------------
(* The refinement of TabBar.                                                 *)

\* Without a posted selection the last one is final.
LEMMA FinalSelected ==
  ASSUME NEW q, NEW sel, \A i \in 1..Len(q) : q[i].do # "select"
  PROVE  FinalOf(q, sel) = sel
<1>. QED
  BY DEF FinalOf

\* The only selection that is posted is final.
LEMMA FinalPosted ==
  ASSUME NEW q, NEW sel, NEW i \in 1..Len(q), q[i].do = "select",
         \A j \in 1..Len(q) : q[j].do = "select" => j = i
  PROVE  FinalOf(q, sel) = q[i].to
<1> DEFINE selects == {j \in 1..Len(q) : q[j].do = "select"}
<1>1. selects = {i}
  OBVIOUS
<1>2. i <= i
  OBVIOUS
<1>3. (CHOOSE k \in selects : \A j \in selects : j <= k) = i
  BY <1>1, <1>2
<1>. QED
  BY <1>1, <1>3 DEF FinalOf

\* Tasks that select nothing leave it as it is.
LEMMA FinalAppend ==
  ASSUME NEW q \in Seq(Tasks), NEW task \in Tasks, task.do # "select", NEW sel, NEW other,
         NEW sh, NEW tb, Ordered(q, sel, sh, tb), \E i \in 1..Len(q) : q[i].do = "select"
  PROVE  FinalOf(Append(q, task), other) = FinalOf(q, sel)
<1> DEFINE p == Append(q, task)
<1>1. PICK i \in 1..Len(q) : q[i].do = "select"
  OBVIOUS
<1>2. \A j \in 1..Len(q) : q[j].do = "select" => j = i
  BY <1>1 DEF Ordered
<1>3. i \in 1..Len(p) /\ p[i] = q[i]
  BY Appended
<1>4. \A j \in 1..Len(p) : p[j].do = "select" => j = i
  BY <1>2, Appended
<1> HIDE DEF p
<1>5. FinalOf(p, other) = q[i].to
  BY <1>1, <1>3, <1>4, FinalPosted
<1>6. FinalOf(q, sel) = q[i].to
  BY <1>1, <1>2, FinalPosted
<1>. QED
  BY <1>5, <1>6 DEF p

\* A task that selects nothing and is done leaves it as it is.
LEMMA FinalTail ==
  ASSUME NEW q \in Seq(Tasks), q # <<>>, Head(q).do # "select", NEW sel,
         NEW sh, NEW tb, Ordered(q, sel, sh, tb)
  PROVE  FinalOf(Tail(q), sel) = FinalOf(q, sel)
<1> DEFINE p == Tail(q)
<1>1. /\ Len(p) = Len(q) - 1 /\ Len(q) \in Nat /\ Len(q) > 0
      /\ \A i \in 1..Len(q) - 1 : p[i] = q[i + 1]
      /\ q[1].do # "select"
  BY Popped
<1> HIDE DEF p
<1>2. CASE \A i \in 1..Len(q) : q[i].do # "select"
  <2>1. \A i \in 1..Len(p) : p[i].do # "select"
    <3> TAKE i \in 1..Len(p)
    <3>1. i + 1 \in 1..Len(q) /\ p[i] = q[i + 1]
      BY <1>1
    <3>. QED
      BY <1>2, <3>1
  <2>. QED
    BY <1>2, <2>1, FinalSelected DEF p
<1>3. ASSUME NEW i \in 1..Len(q), q[i].do = "select" PROVE FinalOf(p, sel) = FinalOf(q, sel)
  <2>1. \A j \in 1..Len(q) : q[j].do = "select" => j = i
    BY <1>3 DEF Ordered
  <2>2. i - 1 \in 1..Len(p) /\ p[i - 1] = q[i]
    BY <1>1, <1>3
  <2>3. \A j \in 1..Len(p) : p[j].do = "select" => j = i - 1
    <3> TAKE j \in 1..Len(p)
    <3>1. j + 1 \in 1..Len(q) /\ p[j] = q[j + 1]
      BY <1>1
    <3>. QED
      BY <2>1, <3>1
  <2>4. FinalOf(p, sel) = q[i].to
    BY <1>3, <2>2, <2>3, FinalPosted
  <2>5. FinalOf(q, sel) = q[i].to
    BY <1>3, <2>1, FinalPosted
  <2>. QED
    BY <2>4, <2>5
<1>. QED
  BY <1>2, <1>3 DEF p

\* The final selection is a tab.
LEMMA FinalExists ==
  ASSUME NEW q \in Seq(Tasks), NEW sel \in Nat, NEW sh \in Nat, NEW tb \in Nat,
         Ordered(q, sel, sh, tb)
  PROVE  FinalOf(q, sel) \in Nat /\ FinalOf(q, sel) < tb
<1>1. CASE \A i \in 1..Len(q) : q[i].do # "select"
  BY <1>1, FinalSelected DEF Ordered, Settled
<1>2. ASSUME NEW i \in 1..Len(q), q[i].do = "select"
      PROVE  FinalOf(q, sel) \in Nat /\ FinalOf(q, sel) < tb
  <2>1. \A j \in 1..Len(q) : q[j].do = "select" => j = i
    BY <1>2 DEF Ordered
  <2>2. FinalOf(q, sel) = q[i].to
    BY <1>2, <2>1, FinalPosted
  <2>3. q[i] \in Tasks
    OBVIOUS
  <2>4. q[i].to \in Nat
    BY <1>2, <2>3, TaskKinds, BoundsAssumption DEF TabIds
  <2>5. q[i].to < tb
    BY <1>2 DEF Ordered, Correction
  <2>. QED
    BY <2>2, <2>4, <2>5
<1>. QED
  BY <1>1, <1>2

\* Posting what selects nothing posts no selection.
LEMMA NoneAppended ==
  ASSUME NEW q \in Seq(Tasks), NEW task \in Tasks, task.do # "select",
         \A i \in 1..Len(q) : q[i].do # "select"
  PROVE  \A i \in 1..Len(Append(q, task)) : Append(q, task)[i].do # "select"
<1> DEFINE p == Append(q, task)
<1>1. Len(p) = Len(q) + 1 /\ Len(q) \in Nat
      /\ (\A i \in 1..Len(q) : p[i] = q[i]) /\ p[Len(q) + 1] = task
  BY Appended
<1> HIDE DEF p
<1>2. \A i \in 1..Len(p) : p[i].do # "select"
  BY <1>1
<1>. QED
  BY <1>2 DEF p

\* Nor does an observer of selected.
LEMMA NoneObserved ==
  ASSUME NEW q \in Seq(Tasks), \A i \in 1..Len(q) : q[i].do # "select",
         NEW r \in {q, Append(q, Scroll)}
  PROVE  \A i \in 1..Len(r) : r[i].do # "select"
<1>1. Scroll \in Tasks /\ Scroll.do # "select"
  BY TaskKinds
<1>2. CASE r = q
  BY <1>2
<1>3. CASE r = Append(q, Scroll)
  BY <1>1, <1>3, NoneAppended
<1>. QED
  BY <1>2, <1>3

\* The tab that Bar shows.
Shown == tabs[FinalOf(posted, selected) + 1]

LEMMA CurrentShown ==
  ASSUME BarInv, late = "no"
  PROVE  /\ (IF Exists(Final) THEN tabs[Final + 1] ELSE Home) = Shown
         /\ FinalOf(posted, selected) \in Nat /\ FinalOf(posted, selected) < Len(tabs)
<1>1. Ordered(posted, selected, Len(shown), Len(tabs))
  BY DEF BarInv, SelectionInv
<1>2. FinalOf(posted, selected) \in Nat /\ FinalOf(posted, selected) < Len(tabs)
  BY <1>1, Sizes, FinalExists
<1>. QED
  BY <1>2 DEF Exists, Final, Shown

\* A new tab is opened.
LEMMA AddTabOpens ==
  ASSUME BarInv, AddTab, late' = "no"
  PROVE  /\ \A k \in 1..Len(tabs) : tabs[k] # made'
         /\ made' \in TabIds
         /\ tabs' = Append(tabs, made') /\ Shown' = made'
<1>0. /\ posted \in Seq(Tasks) /\ selected \in Nat /\ MaxTabs \in Nat
      /\ Len(tabs) \in Nat /\ made \in TabIds
  BY Sizes
<1>1. \A i \in 1..Len(posted) : posted[i].do # "select"
  BY DEF AddTab, Note, Pending, BarInv, TypeOK
<1> DEFINE q == PostOnce(posted, Render)
<1>2. q \in Seq(Tasks) /\ \A i \in 1..Len(q) : q[i].do # "select"
  <2>1. q \in Seq(Tasks) /\ q \in {posted, Append(posted, Render)}
    BY <1>0, Posting, TaskKinds
  <2>2. \A i \in 1..Len(Append(posted, Render)) : Append(posted, Render)[i].do # "select"
    BY <1>0, <1>1, NoneAppended, TaskKinds
  <2> HIDE DEF q
  <2>. QED
    BY <1>1, <2>1, <2>2
<1> HIDE DEF q
<1>3. posted' \in {q, Append(q, Scroll)}
  BY <1>2, Observing DEF AddTab, q
<1>4. \A i \in 1..Len(posted') : posted'[i].do # "select"
  BY <1>2, <1>3, NoneObserved
<1>5. FinalOf(posted', selected') = Len(tabs)
  BY <1>4, FinalSelected DEF AddTab
<1>6. tabs'[Len(tabs) + 1] = made' /\ made' = made + 1 /\ made' \in TabIds
  BY <1>0 DEF AddTab, BarInv, TypeOK, TabIds
<1>7. \A k \in 1..Len(tabs) : tabs[k] # made'
  <2>1. \A k \in 1..Len(tabs) : tabs[k] <= made /\ tabs[k] \in TabIds
    BY DEF BarInv, TypeOK, TabsInv
  <2>. QED
    BY <1>0, <1>6, <2>1, BoundsAssumption DEF TabIds
<1>. QED
  BY <1>5, <1>6, <1>7 DEF Shown, AddTab

\* A tab is selected.
LEMMA ActiveTabSelects ==
  ASSUME BarInv, NEW idx \in 0..MaxTabs, idx < Len(shown), ActiveTab(idx), late' = "no"
  PROVE  idx + 1 \in 1..Len(tabs) /\ tabs' = tabs /\ Shown' = tabs[idx + 1]
<1>0. /\ posted \in Seq(Tasks) /\ selected \in Nat /\ Len(shown) \in Nat
      /\ Len(tabs) \in Nat /\ idx \in Nat
  BY Sizes
<1>1. late = "no" /\ \A i \in 1..Len(posted) : posted[i].do # "select"
  BY DEF ActiveTab, Note, Pending, BarInv, TypeOK
<1>2. posted' \in {posted, Append(posted, Scroll)}
  BY <1>0, Observing DEF ActiveTab
<1>3. \A i \in 1..Len(posted') : posted'[i].do # "select"
  BY <1>0, <1>1, <1>2, NoneObserved
<1>4. FinalOf(posted', selected') = idx
  BY <1>3, FinalSelected DEF ActiveTab
<1>5. Settled(posted, selected, Len(shown), Len(tabs))
  BY <1>1 DEF BarInv, SelectionInv, Ordered
<1>. QED
  BY <1>0, <1>4, <1>5 DEF Shown, ActiveTab, Settled

\* A tab is closed.
LEMMA CloseTabCloses ==
  ASSUME BarInv, BarInv', NEW idx \in 0..MaxTabs, idx < Len(shown), CloseTab(idx), late' = "no"
  PROVE  /\ idx + 1 \in 1..Len(tabs) /\ tabs[idx + 1] # Home
         /\ tabs' = Without(tabs, idx + 1)
         /\ Shown' = IF Shown = tabs[idx + 1] THEN tabs[idx] ELSE Shown
<1>0. /\ posted \in Seq(Tasks) /\ selected \in Nat /\ Len(shown) \in Nat
      /\ Len(tabs) \in Nat /\ idx \in Nat /\ Len(tabs) > 0 /\ MaxTabs \in Nat
  BY Sizes
<1>1. late = "no" /\ \A i \in 1..Len(posted) : posted[i].do # "select"
  BY DEF CloseTab, Note, Pending, BarInv, TypeOK
<1>2. Settled(posted, selected, Len(shown), Len(tabs))
  BY <1>1 DEF BarInv, SelectionInv, Ordered
<1>3. 1 <= idx /\ idx < Len(tabs)
  BY <1>0, <1>2 DEF CloseTab, BarInv, TabsInv, Settled
<1> DEFINE n == AfterClose(idx)
           q == PostOnce(posted, Render)
           p == Append(q, SelectLater(n))
<1>4. n \in TabIds
  BY <1>0, <1>3 DEF AfterClose, BarInv, TypeOK, TabIds
<1>5. q \in Seq(Tasks)
  BY <1>0, Posting, TaskKinds
<1>6. posted' = Observed(p, selected, idx)
  BY <1>3 DEF CloseTab, SelectNext
<1> HIDE DEF q, n
<1>7. /\ p \in Seq(Tasks) /\ Len(p) = Len(q) + 1 /\ Len(q) \in Nat
      /\ p[Len(q) + 1] = SelectLater(n)
  BY <1>4, <1>5, Appended, TaskKinds
<1> HIDE DEF p
<1>8. posted' \in {p, Append(p, Scroll)}
  BY <1>6, <1>7, Observing
<1>9. Len(q) + 1 \in 1..Len(posted') /\ posted'[Len(q) + 1] = SelectLater(n)
  <2>1. CASE posted' = p
    BY <1>7, <2>1
  <2>2. CASE posted' = Append(p, Scroll)
    BY <1>7, <2>2, Appended, TaskKinds
  <2>. QED
    BY <1>8, <2>1, <2>2
<1>10. \A i \in 1..Len(posted') : posted'[i].do = "select" => i = Len(q) + 1
  <2>1. Ordered(posted', selected', Len(shown'), Len(tabs'))
    BY DEF BarInv, SelectionInv
  <2>. QED
    BY <1>9, <2>1, TaskKinds DEF Ordered
<1>11. FinalOf(posted', selected') = n
  <2>1. FinalOf(posted', selected') = posted'[Len(q) + 1].to
    BY <1>9, <1>10, FinalPosted, TaskKinds
  <2>. QED
    BY <1>9, <2>1, TaskKinds
<1>12. FinalOf(posted, selected) = selected
  BY <1>1, FinalSelected
<1>13. idx + 1 \in 1..Len(tabs) /\ tabs \in Seq(TabIds)
  BY <1>0, <1>3 DEF BarInv, TypeOK
<1>14. /\ tabs' = Without(tabs, idx + 1)
       /\ \A i \in 1..Len(tabs) - 1 : tabs'[i] = IF i < idx + 1 THEN tabs[i] ELSE tabs[i + 1]
  BY <1>3, <1>13, WithoutFacts DEF CloseTab
<1>15. \A k, l \in 1..Len(tabs) : tabs[k] = tabs[l] => k = l
  BY DEF BarInv, TabsInv
<1>16. tabs[idx + 1] # Home
  <2>1. tabs[1] = Home /\ 1 \in 1..Len(tabs)
    BY <1>0 DEF BarInv, FramesFollow
  <2>. QED
    BY <1>3, <1>13, <1>15, <2>1
<1>17. selected < Len(tabs) /\ Shown = tabs[selected + 1] /\ Shown' = tabs'[n + 1]
  BY <1>2, <1>11, <1>12 DEF Settled, Shown
<1>18. CASE selected = idx
  <2>1. n = idx - 1
    BY <1>0, <1>18 DEF n, AfterClose
  <2>2. tabs'[idx] = tabs[idx]
    BY <1>0, <1>3, <1>14
  <2>3. n + 1 = idx
    BY <1>0, <2>1
  <2>. QED
    BY <1>13, <1>14, <1>16, <1>17, <1>18, <2>2, <2>3
<1>19. CASE selected > idx
  <2>1. n + 1 = selected
    BY <1>0, <1>19 DEF n, AfterClose
  <2>2. tabs'[selected] = tabs[selected + 1]
    BY <1>0, <1>3, <1>14, <1>17, <1>19
  <2>3. tabs[selected + 1] # tabs[idx + 1]
    BY <1>0, <1>13, <1>15, <1>17, <1>19
  <2>. QED
    BY <1>13, <1>14, <1>16, <1>17, <2>1, <2>2, <2>3
<1>20. CASE selected < idx
  <2>1. n = selected
    BY <1>0, <1>20 DEF n, AfterClose
  <2>2. tabs'[selected + 1] = tabs[selected + 1]
    BY <1>0, <1>3, <1>14, <1>20
  <2>3. tabs[selected + 1] # tabs[idx + 1]
    BY <1>0, <1>13, <1>15, <1>17, <1>20
  <2>. QED
    BY <1>13, <1>14, <1>16, <1>17, <2>1, <2>2, <2>3
<1>. QED
  BY <1>0, <1>18, <1>19, <1>20

\* A posted task changes neither the tabs nor the one that is shown in the end.
LEMMA PostedStutters ==
  ASSUME BarInv, Posted, late = "no"
  PROVE  tabs' = tabs /\ Shown' = Shown
<1>0. posted \in Seq(Tasks) /\ Ordered(posted, selected, Len(shown), Len(tabs))
  BY Sizes DEF BarInv, SelectionInv
<1>1. ASSUME posted # <<>>, Head(posted).do # "select", posted' = Tail(posted),
             selected' = selected, tabs' = tabs
      PROVE  Shown' = Shown
  BY <1>0, <1>1, FinalTail DEF Shown
<1>2. CASE RunRender
  BY <1>1, <1>2 DEF RunRender, Run
<1>3. CASE RunScroll
  BY <1>1, <1>3 DEF RunScroll, Run
<1>4. CASE RunSelect
  <2> DEFINE p == Tail(posted)
             to == Head(posted).to
  <2>1. /\ posted # <<>> /\ posted[1].do = "select" /\ Head(posted) = posted[1]
        /\ p \in Seq(Tasks) /\ Len(p) = Len(posted) - 1 /\ Len(posted) \in Nat /\ Len(posted) > 0
        /\ \A i \in 1..Len(posted) - 1 : p[i] = posted[i + 1]
    BY <1>0, <1>4, Popped DEF RunSelect, Run
  <2>2. \A i \in 1..Len(posted) : posted[i].do = "select" => i = 1
    BY <1>0, <2>1 DEF Ordered
  <2>3. FinalOf(posted, selected) = to
    BY <2>1, <2>2, FinalPosted
  <2>4. posted' = Observed(p, selected, to) /\ selected' = to /\ tabs' = tabs
    BY <1>4 DEF RunSelect
  <2> HIDE DEF p, to
  <2>5. \A i \in 1..Len(p) : p[i].do # "select"
    <3> TAKE i \in 1..Len(p)
    <3>1. i + 1 \in 1..Len(posted) /\ p[i] = posted[i + 1] /\ i + 1 # 1
      BY <2>1
    <3>. QED
      BY <2>2, <3>1
  <2>6. posted' \in {p, Append(p, Scroll)}
    BY <2>1, <2>4, Observing
  <2>7. \A i \in 1..Len(posted') : posted'[i].do # "select"
    BY <2>1, <2>5, <2>6, NoneObserved
  <2>8. FinalOf(posted', selected') = to
    BY <2>4, <2>7, FinalSelected
  <2>. QED
    BY <2>3, <2>4, <2>8 DEF Shown
<1>. QED
  BY <1>2, <1>3, <1>4 DEF Posted, RunRender, RunSelect, RunScroll

\* The indices, elements and posted tasks add up to a plain row of tabs, for any
\* number of tabs and posted tasks (browser.html:152-165).
THEOREM TabsRefineTabBar == Spec => ImplementsTabBar
<1> DEFINE cur == IF Exists(Final) THEN tabs[Final + 1] ELSE Home
<1>1. Init => Bar!Init
  <2> SUFFICES ASSUME Init PROVE Bar!Init
    OBVIOUS
  <2>1. BarInv /\ late = "no"
    BY InitInv DEF Init
  <2>2. \A i \in 1..Len(posted) : posted[i].do # "select"
    BY TaskKinds DEF Init
  <2>3. FinalOf(posted, selected) = 0
    BY <2>2, FinalSelected DEF Init
  <2>. QED
    BY <2>1, <2>3, CurrentShown DEF Bar!Init, Shown, Init, Home
<1>2. BarInv /\ BarInv' /\ [Next]_vars => [Bar!Next \/ late' # "no"]_(Bar!vars)
  <2> SUFFICES ASSUME BarInv, BarInv', [Next]_vars, late' = "no"
               PROVE  Bar!Next \/ UNCHANGED Bar!vars
    OBVIOUS
  <2>1. late = "no"
    <3>1. CASE Input
      BY <3>1 DEF Input, AddTab, ActiveTab, CloseTab, Note
    <3>2. CASE Posted \/ UNCHANGED vars
      BY <3>2 DEF Posted, RunRender, RunSelect, RunScroll, vars
    <3>. QED
      BY <3>1, <3>2 DEF Next
  <2>2. cur = Shown
    BY <2>1, CurrentShown
  <2>3. cur' = Shown'
    <3>1. /\ FinalOf(posted', selected') \in Nat /\ FinalOf(posted', selected') < Len(tabs')
      <4>1. Ordered(posted', selected', Len(shown'), Len(tabs'))
        BY DEF BarInv, SelectionInv
      <4>2. /\ posted' \in Seq(Tasks) /\ selected' \in Nat
            /\ Len(tabs') \in Nat /\ Len(shown') \in Nat
        BY BoundsAssumption DEF BarInv, TypeOK, Tasks, TabIds
      <4>. QED
        BY <4>1, <4>2, FinalExists
    <3>. QED
      BY <3>1 DEF Exists, Final, Shown
  <2>4. CASE AddTab
    <3>1. Bar!Open(made')
      BY <2>3, <2>4, AddTabOpens DEF Bar!Open
    <3>. QED
      BY <2>4, <3>1, AddTabOpens DEF Bar!Next
  <2>5. ASSUME NEW idx \in 0..MaxTabs, idx < Len(shown), ActiveTab(idx) PROVE Bar!Next
    <3>1. Bar!Select(idx + 1) /\ idx + 1 \in 1..Len(tabs)
      BY <2>3, <2>5, ActiveTabSelects DEF Bar!Select
    <3>. QED
      BY <3>1 DEF Bar!Next
  <2>6. ASSUME NEW idx \in 0..MaxTabs, idx < Len(shown), CloseTab(idx) PROVE Bar!Next
    <3>1. idx + 1 - 1 = idx
      OBVIOUS
    <3>2. /\ idx + 1 \in 1..Len(tabs) /\ tabs[idx + 1] # Home
          /\ tabs' = Without(tabs, idx + 1)
          /\ cur' = IF cur = tabs[idx + 1] THEN tabs[idx] ELSE cur
      BY <2>2, <2>3, <2>6, CloseTabCloses
    <3>3. tabs' = Bar!Without(tabs, idx + 1)
      BY <3>2 DEF Bar!Without, Without
    <3>4. Bar!Close(idx + 1)
      BY <3>1, <3>2, <3>3 DEF Bar!Close
    <3>. QED
      BY <3>2, <3>4 DEF Bar!Next
  <2>7. CASE Posted
    BY <2>1, <2>2, <2>3, <2>7, PostedStutters DEF Bar!vars
  <2>8. CASE UNCHANGED vars
    BY <2>8 DEF vars, Bar!vars, Final, Exists
  <2>. QED
    BY <2>4, <2>5, <2>6, <2>7, <2>8 DEF Next, Input
<1>. QED
  BY <1>1, <1>2, TabBarInvariant, PTL DEF Spec, ImplementsTabBar
=============================================================================
