------------------------------- MODULE TabBar -------------------------------
(***************************************************************************)
(* What a user of the browser window relies on, with no index in sight: a  *)
(* row of tabs, the first of which stays, and one of them that is current. *)
(* BrowserTabs implements it.                                              *)
(***************************************************************************)
EXTENDS Naturals, Sequences

CONSTANTS
  Tabs,                 \* every tab there may be
  Home                  \* the persistent tab

VARIABLES
  open,                 \* the tabs from left to right
  current               \* the tab that is shown

vars == <<open, current>>

Without(row, k) == SubSeq(row, 1, k - 1) \o SubSeq(row, k + 1, Len(row))

Init == open = <<Home>> /\ current = Home

\* A new tab comes last and is shown.
Open(t) ==
  /\ open' = Append(open, t)
  /\ current' = t

Select(k) ==
  /\ current' = open[k]
  /\ UNCHANGED open

\* The tab that is shown stays, unless it is the one closed: then it is the one
\* to its left.
Close(k) ==
  /\ open[k] # Home
  /\ open' = Without(open, k)
  /\ current' = IF current = open[k] THEN open[k - 1] ELSE current

Next ==
  \/ \E t \in Tabs : (\A k \in 1..Len(open) : open[k] # t) /\ Open(t)
  \/ \E k \in 1..Len(open) : Select(k) \/ Close(k)

Spec == Init /\ [][Next]_vars
=============================================================================
