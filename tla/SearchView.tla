----------------------------- MODULE SearchView -----------------------------
(***************************************************************************)
(* The search page (data/tab-content/search.html): it sends a query to the *)
(* DB when it is loaded and whenever the user applies other options, and   *)
(* assigns each answer to its virtual list, which is scrolled and resized  *)
(* in between.  The answers of a DB come once each and in the order of the *)
(* queries (AsyncDb!OneAnswerEach).                                        *)
(***************************************************************************)
EXTENDS VirtualList

CONSTANT MaxReloads     \* bound: queries sent

ASSUME BoundsAssumption ==
  /\ MaxReloads \in Nat \ {0}
  /\ MaxRecords \in Nat
  /\ MaxVisible \in Nat
  /\ MaxVersion \in Nat

VARIABLES
  asked,                \* queries without an answer, oldest first
  issued,               \* number of queries sent; they are numbered from 1
  error                 \* the query whose error #error-output shows, or 0

pageVars == <<asked, issued, error>>
vars == <<listVars, asked, issued, error>>

Init ==
  /\ ListInit
  /\ asked = <<1>>
  /\ issued = 1
  /\ error = 0

\* The options are applied while the last query may still be running.
Reload ==
  /\ issued < MaxReloads
  /\ issued' = issued + 1
  /\ asked' = Append(asked, issued')
  /\ UNCHANGED <<error, listVars>>

\* The message of an error kept when the next query succeeds.
BugShowResult ==
  /\ asked # <<>>
  /\ \E n \in 1..MaxRecords : SetValue(Head(asked), [i \in 1..n |-> 0])
  /\ asked' = Tail(asked)
  /\ UNCHANGED <<issued, error>>

ShowResult ==
  /\ asked # <<>>
  /\ \E n \in 1..MaxRecords : SetValue(Head(asked), [i \in 1..n |-> 0])
  /\ error' = 0
  /\ asked' = Tail(asked)
  /\ UNCHANGED issued

\* An error, or no row: the message is shown above the list as it was.
ShowError ==
  /\ asked # <<>>
  /\ error' = Head(asked)
  /\ asked' = Tail(asked)
  /\ UNCHANGED <<issued, listVars>>

Next ==
  \/ Reload
  \/ ShowResult
  \/ ShowError
  \/ ListNext /\ UNCHANGED pageVars

Spec == Init /\ [][Next]_vars

-----------------------------------------------------------------------------
\* Types of the page and of the list, and the window it shows.
ListInv ==
  /\ ListTypeOK
  /\ asked \in Seq(1..MaxReloads)
  /\ issued \in 0..MaxReloads
  /\ error \in 0..MaxReloads
  /\ WindowFaithful

\* When every query is answered the page shows what the last one brought: its
\* list and no message, or its message (search.html:197-216).
LatestShown ==
  asked = <<>> => IF error = 0 THEN source = issued ELSE error = issued

\* Why: the queries under way are the last ones sent, and the page shows what the
\* one before them brought; before the first answer it is empty.
AnswersInv ==
  LET answered == issued - Len(asked) IN
    /\ answered >= 0
    /\ \A i \in 1..Len(asked) : asked[i] = answered + i
    /\ IF error = 0 THEN source = answered ELSE error = answered

ViewInv == ListInv /\ PlaceInv /\ Covered /\ AnswersInv
=============================================================================
