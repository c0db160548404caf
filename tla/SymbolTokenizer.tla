-------------------------- MODULE SymbolTokenizer --------------------------
(***************************************************************************)
(* symbol_tokenize (src/sqlite3/SymbolTokenizer.cpp:44-126), the tokenizer *)
(* of the full-text index over symbol names: one action per branch of the  *)
(* loop body, a token being the pair of its first position and the         *)
(* position after its last, counted from 0 as in the code.                 *)
(*                                                                         *)
(* Characters are what the loop tells apart: letters by case, digits, the  *)
(* characters $ _ : ( and other separators.  The word "operator" is a      *)
(* parameter, so that small texts can contain it.                          *)
(***************************************************************************)
EXTENDS Integers, Sequences

CONSTANTS
  Lower, Upper, Digit, Other,   \* sets of characters
  Keyword,                      \* "operator", as a sequence of characters
  Texts                         \* the texts given to the tokenizer

Chars == Lower \union Upper \union Digit \union Other \union {"$", "_", ":", "("}

ASSUME AlphabetAssumption ==
  /\ {"$", "_", ":", "("} \intersect (Lower \union Upper \union Digit \union Other) = {}
  /\ (Lower \union Upper) \intersect (Digit \union Other) = {}
  /\ Lower \intersect Upper = {}
  /\ Digit \intersect Other = {}

ASSUME TextsAssumption == Texts \subseteq Seq(Chars)

VARIABLES
  text,                         \* the input, never changed
  i, rec0, rec1, state,         \* the local variables of the code
  tokens,                       \* what was emitted, in order
  done                          \* the function has returned

vars == <<text, i, rec0, rec1, state, tokens, done>>

isUpperCase(ch) == ch \in Upper
isNum(ch) == ch \in Digit
isTokenChar(ch) == ch \in {"$", "_"} \union Lower \union Upper
isSep(ch) == ~isTokenChar(ch) /\ ~isNum(ch)

len == Len(text)
cur == text[i + 1]

\* The characters of a range of positions.
Piece(range) == SubSeq(text, range[1] + 1, range[2])

Init ==
  /\ text \in Texts
  /\ i = 0
  /\ rec0 = 0
  /\ rec1 = 0
  /\ state = "None"
  /\ tokens = <<>>
  /\ done = FALSE

emit(ranges) == tokens' = tokens \o ranges

\* The loop continues with the next character.
Loop(in) ==
  /\ ~done
  /\ i < len
  /\ state = in
  /\ UNCHANGED <<text, done>>

-----------------------------------------------------------------------------
None ==
  /\ Loop("None")
  /\ rec0' = i
  /\ rec1' = i
  /\ state' = IF isTokenChar(cur) THEN "Alpha"
              ELSE IF isNum(cur) THEN "Number" ELSE "None"
  /\ i' = i + 1
  /\ UNCHANGED tokens

\* Definitions that start with "Bug" are seeded faults.  No specification uses
\* them; each stands for the definition after it to show that a property fails
\* when the code is wrong in that way.

\* The last part first, and the whole word cut off where that part begins.
BugWord(end) ==
  IF rec0 # rec1 THEN <<<<rec1, end>>, <<rec0, rec1>>>> ELSE <<<<rec0, end>>>>

\* The whole word, and its last part unless it is the only one.
Word(end) ==
  IF rec0 # rec1 THEN <<<<rec0, end>>, <<rec1, end>>>> ELSE <<<<rec0, end>>>>

\* A state that the switch has no case for.
BugAfterSep == IF cur = ":" THEN "Colon" ELSE "None"

AfterSep == IF cur = ":" THEN "Seprator" ELSE "None"

\* The separator taken into the word.
BugAlphaSep ==
  /\ Loop("Alpha")
  /\ isSep(cur)
  /\ emit(Word(i + 1))
  /\ state' = AfterSep
  /\ rec0' = i
  /\ i' = i + 1
  /\ UNCHANGED rec1

\* The separator is dropped, but after the word "operator" it is the beginning of
\* the operator's name.
AlphaSep ==
  /\ Loop("Alpha")
  /\ isSep(cur)
  /\ emit(Word(i))
  /\ IF rec0 = rec1 /\ Piece(<<rec0, i>>) = Keyword
     THEN rec1' = i /\ state' = "Operator"
     ELSE UNCHANGED rec1 /\ state' = AfterSep
  /\ rec0' = i
  /\ i' = i + 1

\* An upper-case letter or a digit begins a new part of the word.
AlphaPart ==
  /\ Loop("Alpha")
  /\ isUpperCase(cur) \/ isNum(cur)
  /\ emit(<<<<rec1, i>>>>)
  /\ rec1' = i
  /\ i' = i + 1
  /\ UNCHANGED <<rec0, state>>

\* An underscore that moves i without passing the character after it.
BugAlphaUnderscore ==
  /\ Loop("Alpha")
  /\ cur = "_"
  /\ text[rec0 + 1] # "$"
  /\ emit(<<<<rec1, i>>>>)
  /\ rec1' = i + 2
  /\ i' = i + 2
  /\ UNCHANGED <<rec0, state>>

\* An underscore ends a part, and the next one begins with the character after it,
\* which ++i keeps the loop from looking at.
AlphaUnderscore ==
  /\ Loop("Alpha")
  /\ cur = "_"
  /\ text[rec0 + 1] # "$"
  /\ emit(<<<<rec1, i>>>>)
  /\ rec1' = i + 1
  /\ i' = i + 2
  /\ UNCHANGED <<rec0, state>>

AlphaOther ==
  /\ Loop("Alpha")
  /\ \/ cur \in Lower \union {"$"}
     \/ cur = "_" /\ text[rec0 + 1] = "$"
  /\ i' = i + 1
  /\ UNCHANGED <<rec0, rec1, state, tokens>>

NumberMore ==
  /\ Loop("Number")
  /\ isNum(cur)
  /\ i' = i + 1
  /\ UNCHANGED <<rec0, rec1, state, tokens>>

\* A number followed by a letter is the first part of a word.
NumberToAlpha ==
  /\ Loop("Number")
  /\ isTokenChar(cur)
  /\ emit(<<<<rec1, i>>>>)
  /\ rec1' = i
  /\ state' = "Alpha"
  /\ i' = i + 1
  /\ UNCHANGED rec0

NumberSep ==
  /\ Loop("Number")
  /\ isSep(cur)
  /\ emit(Word(i))
  /\ state' = AfterSep
  /\ rec0' = i
  /\ i' = i + 1
  /\ UNCHANGED rec1

\* The second character of "::"; whatever else follows ":" is dropped.
Seprator ==
  /\ Loop("Seprator")
  /\ IF cur = ":" THEN emit(<<<<rec0, i + 1>>>>) ELSE UNCHANGED tokens
  /\ state' = "None"
  /\ i' = i + 1
  /\ UNCHANGED <<rec0, rec1>>

\* The operator's name reaches to the parenthesis of its parameters.
Operator ==
  /\ Loop("Operator")
  /\ IF cur = "("
     THEN emit(<<<<rec0, i>>>>) /\ state' = "None"
     ELSE UNCHANGED <<tokens, state>>
  /\ i' = i + 1
  /\ UNCHANGED <<rec0, rec1>>

\* The last part of a word that ends with the text, forgotten.
BugReturn ==
  /\ ~done
  /\ i >= len
  /\ done' = TRUE
  /\ UNCHANGED <<text, i, rec0, rec1, state, tokens>>

Return ==
  /\ ~done
  /\ i >= len
  /\ CASE state \in {"Alpha", "Number"} -> emit(Word(len))
       [] state = "Operator" -> emit(<<<<rec0, len>>>>)
       [] OTHER -> UNCHANGED tokens
  /\ done' = TRUE
  /\ UNCHANGED <<text, i, rec0, rec1, state>>

Finished == done /\ UNCHANGED vars

Next ==
  \/ None
  \/ AlphaSep
  \/ AlphaPart
  \/ AlphaUnderscore
  \/ AlphaOther
  \/ NumberMore
  \/ NumberToAlpha
  \/ NumberSep
  \/ Seprator
  \/ Operator
  \/ Return
  \/ Finished

Spec == Init /\ [][Next]_vars

-----------------------------------------------------------------------------
(* Properties                                                               *)

\* The type of every variable.
TypeOK ==
  /\ text \in Seq(Chars)
  /\ i \in Nat
  /\ rec0 \in Nat
  /\ rec1 \in Nat
  /\ state \in {"None", "Alpha", "Number", "Seprator", "Operator"}
  /\ tokens \in Seq(Nat \X Nat)
  /\ done \in BOOLEAN

\* How the recorded positions stand to the loop's.
RecordsInv ==
  /\ rec0 <= len
  /\ rec1 <= len
  /\ state \in {"Alpha", "Number"} => rec0 <= rec1 /\ rec1 <= i /\ rec0 < i
  /\ state \in {"Seprator", "Operator"} => rec0 < i
  /\ state = "Number" => rec0 = rec1

\* Every token handed to the index lies in the text, for every text, also one that
\* ends in an underscore (SymbolTokenizer.cpp:84-86 leaves i and rec1 at its end).
TokensInText ==
  \A n \in DOMAIN tokens :
    /\ 0 <= tokens[n][1]
    /\ tokens[n][1] <= tokens[n][2]
    /\ tokens[n][2] <= len

\* Tokens are emitted in the order in which they end: the index numbers them by
\* their place in that order.
EndsInOrder ==
  \A m, n \in DOMAIN tokens : m < n => tokens[m][2] <= tokens[n][2]

\* Nothing of a name is left out of the index: every letter, digit, $ or _ is part
\* of some token, unless it follows a colon (lines 102-105 drop what follows a
\* single one).
NothingLost ==
  done =>
    \A p \in 1..len :
      ~isSep(text[p]) =>
        \/ \E n \in DOMAIN tokens : tokens[n][1] < p /\ p <= tokens[n][2]
        \/ p > 1 /\ text[p - 1] = ":"

\* Separators stay out of words: the only tokens with one are "::", the name of an
\* operator, and those around an underscore, whose successor is not looked at.
WordsOnly ==
  \A n \in DOMAIN tokens :
    LET piece == Piece(tokens[n])
    IN  (\E p \in DOMAIN piece : isSep(piece[p])) =>
          \/ piece = <<":", ":">>
          \/ \E p \in DOMAIN piece : piece[p] = "_"
          \/ tokens[n][1] > 0 /\ text[tokens[n][1]] = "_"
          \/ \E m \in 1..n-1 : Piece(tokens[m]) = Keyword /\ tokens[m][2] = tokens[n][1]
=============================================================================
