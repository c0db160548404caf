----------------------- MODULE SymbolTokenizerProofs -----------------------
(* The tokenizer stays inside its text, emits in order, loses no character   *)
(* of a name and keeps separators out of words, for every text over every    *)
(* alphabet and for every keyword.                                           *)
EXTENDS SymbolTokenizer, SequenceTheorems, TLAPS

\* The positions of a token: its first character and the one after its last.
Spans == Nat \X Nat

\* The sequence holds proper ranges that end at or before the position e, in the
\* order of their ends.
Good(s, e) ==
  /\ s \in Seq(Spans)
  /\ \A n \in 1..Len(s) : s[n][1] <= s[n][2] /\ s[n][2] <= e
  /\ \A m, n \in 1..Len(s) : m < n => s[m][2] <= s[n][2]

\* What is good up to a position is good up to a later one.
LEMMA GoodWeaken ==
  ASSUME NEW s, NEW e \in Nat, NEW f \in Nat, Good(s, e), e <= f
  PROVE  Good(s, f)
<1>1. \A n \in 1..Len(s) : s[n] \in Spans
  BY ElementOfSeq DEF Good
<1>2. \A n \in 1..Len(s) : s[n][2] \in Nat
  BY <1>1 DEF Spans
<1>. QED
  BY <1>2 DEF Good

\* One more range that ends where the emission stands keeps the sequence good.
LEMMA GoodAppend ==
  ASSUME NEW s, NEW e \in Nat, Good(s, e), NEW b \in Nat, b <= e
  PROVE  Good(Append(s, <<b, e>>), e)
<1> DEFINE t == Append(s, <<b, e>>)
<1>1. s \in Seq(Spans) /\ <<b, e>> \in Spans /\ Len(s) \in Nat
  BY LenProperties DEF Good, Spans
<1>2. /\ t \in Seq(Spans)
      /\ Len(t) = Len(s) + 1
      /\ \A n \in 1..Len(s) : t[n] = s[n]
      /\ t[Len(s) + 1] = <<b, e>>
  BY <1>1, AppendProperties
<1>3. \A n \in 1..Len(t) : n \in 1..Len(s) \/ n = Len(s) + 1
  BY <1>1, <1>2
<1>4. \A n \in 1..Len(t) : t[n][1] <= t[n][2] /\ t[n][2] <= e
  BY <1>2, <1>3 DEF Good
<1>5. ASSUME NEW m \in 1..Len(t), NEW n \in 1..Len(t), m < n
      PROVE  t[m][2] <= t[n][2]
  <2>1. CASE n \in 1..Len(s)
    <3>1. m \in 1..Len(s)
      BY <1>1, <1>5, <2>1
    <3>. QED
      BY <1>2, <1>5, <2>1, <3>1 DEF Good
  <2>2. CASE n = Len(s) + 1
    BY <1>2, <1>4, <2>2
  <2>. QED
    BY <1>3, <2>1, <2>2
<1>. QED
  BY <1>2, <1>4, <1>5 DEF Good

\* Emitting one range appends it.
LEMMA EmitOne ==
  ASSUME NEW s, NEW e \in Nat, Good(s, e), NEW b \in Nat, b <= e
  PROVE  Good(s \o <<<<b, e>>>>, e)
<1>1. s \in Seq(Spans) /\ <<b, e>> \in Spans
  BY DEF Good, Spans
<1>2. s \o <<<<b, e>>>> = Append(s, <<b, e>>)
  BY <1>1, AppendIsConcat
<1>. QED
  BY <1>2, GoodAppend

\* Emitting a word emits its one or two ranges one after the other.
LEMMA WordSplits ==
  ASSUME NEW e \in Nat, tokens \in Seq(Spans), rec0 \in Nat, rec1 \in Nat
  PROVE  tokens \o Word(e) = IF rec0 = rec1 THEN tokens \o <<<<rec0, e>>>>
                             ELSE (tokens \o <<<<rec0, e>>>>) \o <<<<rec1, e>>>>
<1>1. CASE rec0 = rec1
  BY <1>1 DEF Word
<1>2. CASE rec0 # rec1
  <2>1. tokens \in Seq(Spans) /\ <<rec0, e>> \in Spans /\ <<rec1, e>> \in Spans
    BY DEF Spans
  <2>2. <<<<rec0, e>>>> \in Seq(Spans) /\ <<<<rec1, e>>>> \in Seq(Spans)
    BY <2>1
  <2>3. <<<<rec0, e>>, <<rec1, e>>>> = <<<<rec0, e>>>> \o <<<<rec1, e>>>>
    BY <2>2
  <2>4. Word(e) = <<<<rec0, e>>, <<rec1, e>>>>
    BY <1>2 DEF Word
  <2>5. tokens \o (<<<<rec0, e>>>> \o <<<<rec1, e>>>>)
         = (tokens \o <<<<rec0, e>>>>) \o <<<<rec1, e>>>>
    BY <2>1, <2>2, ConcatAssociative
  <2>. QED
    BY <1>2, <2>3, <2>4, <2>5, Zenon
<1>. QED
  BY <1>1, <1>2

\* Emitting a word keeps the sequence good.
LEMMA EmitWord ==
  ASSUME NEW e \in Nat, Good(tokens, e), rec0 \in Nat, rec1 \in Nat,
         rec0 <= e, rec1 <= e
  PROVE  Good(tokens \o Word(e), e)
<1>1. Good(tokens \o <<<<rec0, e>>>>, e)
  BY EmitOne
<1>2. Good((tokens \o <<<<rec0, e>>>>) \o <<<<rec1, e>>>>, e)
  BY <1>1, EmitOne
<1>3. tokens \in Seq(Spans)
  BY DEF Good
<1>. QED
  BY <1>1, <1>2, <1>3, WordSplits

-----------------------------------------------------------------------------
(* The inductive invariant: everything emitted so far ends before the loop's  *)
(* position and before the end of the text, and the recorded positions are    *)
(* where the next emission may start.                                         *)

Inv ==
  /\ text \in Seq(Chars)
  /\ i \in Nat
  /\ rec0 \in Nat
  /\ rec1 \in Nat
  /\ state \in {"None", "Alpha", "Number", "Seprator", "Operator"}
  /\ done \in BOOLEAN
  /\ RecordsInv
  /\ Good(tokens, i)
  /\ Good(tokens, len)

LEMMA InitInv == Init => Inv
<1> SUFFICES ASSUME Init PROVE Inv
  OBVIOUS
<1>1. text \in Seq(Chars) /\ len \in Nat
  BY TextsAssumption, LenProperties DEF Init, len
<1>2. tokens = <<>> /\ <<>> \in Seq(Spans) /\ Len(<<>>) = 0
  BY EmptySeq DEF Init
<1>3. Good(tokens, i) /\ Good(tokens, len)
  BY <1>2 DEF Good
<1>4. RecordsInv
  BY <1>1 DEF Init, RecordsInv
<1>. QED
  BY <1>1, <1>3, <1>4 DEF Init, Inv

\* A step of the loop that emits nothing or ranges that end at i keeps what was
\* emitted good for the next position.
LEMMA LoopGood ==
  ASSUME Inv, i < len, UNCHANGED text, i' \in Nat, i < i',
         Good(tokens', i) \/ (Good(tokens', i + 1))
  PROVE  Good(tokens', i') /\ Good(tokens', len')
<1>1. len \in Nat /\ len' = len /\ i \in Nat /\ i + 1 <= len /\ i + 1 <= i'
  BY LenProperties DEF Inv, len
<1>2. Good(tokens', i + 1)
  BY <1>1, GoodWeaken
<1>. QED
  BY <1>1, <1>2, GoodWeaken

LEMMA StepInv == Inv /\ [Next]_vars => Inv'
<1> SUFFICES ASSUME Inv, [Next]_vars PROVE Inv'
  OBVIOUS
<1>1. len \in Nat /\ i \in Nat /\ rec0 \in Nat /\ rec1 \in Nat /\ Good(tokens, i)
  BY LenProperties DEF Inv, len
<1> DEFINE Rest == /\ text' \in Seq(Chars)
                   /\ i' \in Nat /\ rec0' \in Nat /\ rec1' \in Nat
                   /\ state' \in {"None", "Alpha", "Number", "Seprator", "Operator"}
                   /\ done' \in BOOLEAN
                   /\ RecordsInv'
<1>2. CASE None
  <2>1. Rest /\ i < len /\ i < i' /\ UNCHANGED text /\ tokens' = tokens
    BY <1>1, <1>2 DEF None, Loop, Inv, RecordsInv, len
  <2>. QED
    BY <1>1, <2>1, LoopGood DEF Inv
<1>3. CASE AlphaSep
  <2>1. Rest /\ i < len /\ i < i' /\ UNCHANGED text
    BY <1>1, <1>3 DEF AlphaSep, AfterSep, Loop, Inv, RecordsInv, len
  <2>4. tokens' = tokens \o Word(i)
    BY <1>3 DEF AlphaSep, emit
  <2>2. rec0 <= i /\ rec1 <= i
    BY <1>1, <1>3 DEF AlphaSep, Loop, Inv, RecordsInv
  <2>3. Good(tokens', i)
    BY <1>1, <2>2, <2>4, EmitWord
  <2>. QED
    BY <1>1, <2>1, <2>3, LoopGood DEF Inv
<1>4. CASE AlphaPart
  <2>1. Rest /\ i < len /\ i < i' /\ UNCHANGED text
    BY <1>1, <1>4 DEF AlphaPart, Loop, Inv, RecordsInv, len
  <2>4. tokens' = tokens \o <<<<rec1, i>>>>
    BY <1>4 DEF AlphaPart, emit
  <2>2. rec1 <= i
    BY <1>1, <1>4 DEF AlphaPart, Loop, Inv, RecordsInv
  <2>3. Good(tokens', i)
    BY <1>1, <2>2, <2>4, EmitOne
  <2>. QED
    BY <1>1, <2>1, <2>3, LoopGood DEF Inv
<1>5. CASE AlphaUnderscore
  <2>5. /\ i < len /\ state = "Alpha" /\ UNCHANGED <<text, done, rec0, state>>
        /\ rec1' = i + 1 /\ i' = i + 2
    BY <1>5, Zenon DEF AlphaUnderscore, Loop
  <2>1. Rest /\ i < len /\ i < i' /\ UNCHANGED text
    BY <1>1, <2>5 DEF Inv, RecordsInv, len
  <2>4. tokens' = tokens \o <<<<rec1, i>>>>
    BY <1>5 DEF AlphaUnderscore, emit
  <2>2. rec1 <= i
    BY <1>1, <1>5 DEF AlphaUnderscore, Loop, Inv, RecordsInv
  <2>3. Good(tokens', i)
    BY <1>1, <2>2, <2>4, EmitOne
  <2>. QED
    BY <1>1, <2>1, <2>3, LoopGood DEF Inv
<1>6. CASE NumberToAlpha
  <2>1. Rest /\ i < len /\ i < i' /\ UNCHANGED text
    BY <1>1, <1>6 DEF NumberToAlpha, Loop, Inv, RecordsInv, len
  <2>4. tokens' = tokens \o <<<<rec1, i>>>>
    BY <1>6 DEF NumberToAlpha, emit
  <2>2. rec1 <= i
    BY <1>1, <1>6 DEF NumberToAlpha, Loop, Inv, RecordsInv
  <2>3. Good(tokens', i)
    BY <1>1, <2>2, <2>4, EmitOne
  <2>. QED
    BY <1>1, <2>1, <2>3, LoopGood DEF Inv
<1>7. CASE AlphaOther
  <2>2. /\ i < len /\ state = "Alpha" /\ UNCHANGED <<text, done, rec0, rec1, state, tokens>>
        /\ i' = i + 1
    BY <1>7, Zenon DEF AlphaOther, Loop
  <2>1. Rest /\ i < len /\ i < i' /\ UNCHANGED text /\ tokens' = tokens
    BY <1>1, <2>2 DEF Inv, RecordsInv, len
  <2>. QED
    BY <1>1, <2>1, LoopGood DEF Inv
<1>8. CASE NumberMore
  <2>1. Rest /\ i < len /\ i < i' /\ UNCHANGED text /\ tokens' = tokens
    BY <1>1, <1>8 DEF NumberMore, Loop, Inv, RecordsInv, len
  <2>. QED
    BY <1>1, <2>1, LoopGood DEF Inv
<1>9. CASE NumberSep
  <2>1. Rest /\ i < len /\ i < i' /\ UNCHANGED text
    BY <1>1, <1>9 DEF NumberSep, AfterSep, Loop, Inv, RecordsInv, len
  <2>4. tokens' = tokens \o Word(i)
    BY <1>9 DEF NumberSep, emit
  <2>2. rec0 <= i /\ rec1 <= i
    BY <1>1, <1>9 DEF NumberSep, Loop, Inv, RecordsInv
  <2>3. Good(tokens', i)
    BY <1>1, <2>2, <2>4, EmitWord
  <2>. QED
    BY <1>1, <2>1, <2>3, LoopGood DEF Inv
<1>10. CASE Seprator
  <2>1. Rest /\ i < len /\ i < i' /\ UNCHANGED text /\ rec0 <= i + 1
    BY <1>1, <1>10 DEF Seprator, Loop, Inv, RecordsInv, len
  <2>2. tokens' = tokens \/ tokens' = tokens \o <<<<rec0, i + 1>>>>
    BY <1>10 DEF Seprator, emit
  <2>3. i + 1 \in Nat /\ i <= i + 1
    BY <1>1
  <2>4. Good(tokens, i + 1)
    BY <1>1, <2>3, GoodWeaken
  <2>5. Good(tokens', i + 1)
    BY <1>1, <2>1, <2>2, <2>3, <2>4, EmitOne
  <2>. QED
    BY <1>1, <2>1, <2>5, LoopGood DEF Inv
<1>11. CASE Operator
  <2>1. Rest /\ i < len /\ i < i' /\ UNCHANGED text /\ rec0 <= i
    BY <1>1, <1>11 DEF Operator, Loop, emit, Inv, RecordsInv, len
  <2>2. tokens' = tokens \/ tokens' = tokens \o <<<<rec0, i>>>>
    BY <1>11 DEF Operator, emit
  <2>3. Good(tokens', i)
    BY <1>1, <2>1, <2>2, EmitOne
  <2>. QED
    BY <1>1, <2>1, <2>3, LoopGood DEF Inv
<1>12. CASE Return
  <2>1. Rest /\ UNCHANGED <<text, i>> /\ len <= i /\ len' = len
    BY <1>1, <1>12 DEF Return, Inv, RecordsInv, len
  <2>2. \/ tokens' = tokens
        \/ tokens' = tokens \o Word(len)
        \/ tokens' = tokens \o <<<<rec0, len>>>>
    BY <1>12 DEF Return, emit
  <2>3. rec0 <= len /\ rec1 <= len /\ Good(tokens, len)
    BY DEF Inv, RecordsInv
  <2>4. Good(tokens', len)
    BY <1>1, <2>2, <2>3, EmitOne, EmitWord
  <2>5. Good(tokens', i)
    BY <1>1, <2>1, <2>4, GoodWeaken
  <2>. QED
    BY <2>1, <2>4, <2>5 DEF Inv
<1>13. CASE UNCHANGED vars
  BY <1>13 DEF vars, Inv, RecordsInv, len
<1>. QED
  BY <1>2, <1>3, <1>4, <1>5, <1>6, <1>7, <1>8, <1>9, <1>10, <1>11, <1>12, <1>13
     DEF Next, Finished

LEMMA Invariance == Spec => []Inv
BY InitInv, StepInv, PTL DEF Spec

-----------------------------------------------------------------------------
(* What the tokens consist of.  The second invariant says why no character    *)
(* gets lost and where separators in tokens come from.                        *)

\* Some token of the sequence has the character at p, counted from 1.
Reached(s, p) == \E n \in 1..Len(s) : s[n][1] < p /\ p <= s[n][2]

\* A separator in the range comes right after an underscore.
Clean(b, e) == \A p \in b + 1..e : isSep(text[p]) => p > 1 /\ text[p - 1] = "_"

\* Why the range may have a separator, given the tokens before it.
Explained(s, b, e) ==
  \/ Clean(b, e)
  \/ Piece(<<b, e>>) = <<":", ":">>
  \/ \E m \in 1..Len(s) : Piece(s[m]) = Keyword /\ s[m][2] = b

AllExplained(s) ==
  \A n \in 1..Len(s) :
    \/ Clean(s[n][1], s[n][2])
    \/ Piece(s[n]) = <<":", ":">>
    \/ \E m \in 1..n-1 : Piece(s[m]) = Keyword /\ s[m][2] = s[n][1]

\* A character the loop has passed is in a token, will be in the one that is under
\* way, or comes after a colon.
PassedInv ==
  /\ done => i >= len
  /\ \A p \in 1..len :
       p <= i /\ ~isSep(text[p]) =>
         \/ Reached(tokens, p)
         \/ p > 1 /\ text[p - 1] = ":"
         \/ ~done /\ state \in {"Alpha", "Number", "Operator"} /\ rec0 < p

\* What the characters of the token that is under way are.
PartsInv ==
  /\ AllExplained(tokens)
  /\ state \in {"Alpha", "Number"} =>
       \A p \in rec0 + 1..i : p <= len /\ isSep(text[p]) => p > 1 /\ text[p - 1] = "_"
  /\ state = "Seprator" => rec0 = i - 1 /\ text[i] = ":"
  /\ state = "Operator" => 
       \E m \in 1..Len(tokens) : Piece(tokens[m]) = Keyword /\ tokens[m][2] = rec0

\* What emitting a range does to a sequence of tokens.
LEMMA OneMore ==
  ASSUME NEW s \in Seq(Spans), NEW b \in Nat, NEW e \in Nat, NEW t, t = s \o <<<<b, e>>>>
  PROVE  /\ t \in Seq(Spans)
         /\ Len(s) \in Nat /\ Len(t) = Len(s) + 1
         /\ 1..Len(t) = 1..Len(s) \union {Len(s) + 1}
         /\ \A n \in 1..Len(s) : t[n] = s[n]
         /\ t[Len(s) + 1] = <<b, e>>
<1>1. <<b, e>> \in Spans /\ Len(s) \in Nat
  BY LenProperties DEF Spans
<1>2. t = Append(s, <<b, e>>)
  BY <1>1, AppendIsConcat
<1>. QED
  BY <1>1, <1>2, AppendProperties

\* What was reached stays reached, and the emitted range is reached.
LEMMA ReachedOne ==
  ASSUME NEW s \in Seq(Spans), NEW b \in Nat, NEW e \in Nat, NEW p,
         Reached(s, p) \/ (b < p /\ p <= e)
  PROVE  Reached(s \o <<<<b, e>>>>, p)
<1> DEFINE t == s \o <<<<b, e>>>>
<1>1. /\ 1..Len(t) = 1..Len(s) \union {Len(s) + 1}
      /\ \A n \in 1..Len(s) : t[n] = s[n]
      /\ t[Len(s) + 1] = <<b, e>>
  BY OneMore
<1> HIDE DEF t
<1>2. Reached(t, p)
  BY <1>1 DEF Reached
<1>. QED
  BY <1>2 DEF t

LEMMA ReachedWord ==
  ASSUME tokens \in Seq(Spans), rec0 \in Nat, rec1 \in Nat, NEW e \in Nat, NEW p,
         Reached(tokens, p) \/ (rec0 < p /\ p <= e)
  PROVE  Reached(tokens \o Word(e), p)
<1>1. Reached(tokens \o <<<<rec0, e>>>>, p)
  BY ReachedOne
<1>2. tokens \o <<<<rec0, e>>>> \in Seq(Spans)
  BY OneMore
<1>3. Reached((tokens \o <<<<rec0, e>>>>) \o <<<<rec1, e>>>>, p)
  BY <1>1, <1>2, ReachedOne
<1>. QED
  BY <1>1, <1>3, WordSplits

\* An emitted range that is explained leaves all tokens explained.
LEMMA ExplainedOne ==
  ASSUME NEW s \in Seq(Spans), NEW b \in Nat, NEW e \in Nat,
         AllExplained(s), Explained(s, b, e)
  PROVE  AllExplained(s \o <<<<b, e>>>>)
<1> DEFINE t == s \o <<<<b, e>>>>
<1>1. /\ Len(s) \in Nat /\ Len(t) = Len(s) + 1
      /\ 1..Len(t) = 1..Len(s) \union {Len(s) + 1}
      /\ \A n \in 1..Len(s) : t[n] = s[n]
      /\ t[Len(s) + 1] = <<b, e>>
  BY OneMore
<1> HIDE DEF t
<1> DEFINE Why(n) == \/ Clean(t[n][1], t[n][2])
                     \/ Piece(t[n]) = <<":", ":">>
                     \/ \E m \in 1..n-1 : Piece(t[m]) = Keyword /\ t[m][2] = t[n][1]
<1>2. ASSUME NEW n \in 1..Len(s) PROVE Why(n)
  <2>1. \A m \in 1..n-1 : m \in 1..Len(s)
    BY <1>1
  <2>2. t[n] = s[n] /\ \A m \in 1..n-1 : t[m] = s[m]
    BY <1>1, <2>1
  <2>. QED
    BY <2>2, Zenon DEF AllExplained
<1>3. Why(Len(s) + 1)
  <2>1. 1..(Len(s) + 1) - 1 = 1..Len(s)
    BY <1>1
  <2>2. t[Len(s) + 1][1] = b /\ t[Len(s) + 1][2] = e
    BY <1>1
  <2>. QED
    BY <1>1, <2>1, <2>2, Zenon DEF Explained
<1>4. AllExplained(t)
  BY <1>1, <1>2, <1>3, Zenon DEF AllExplained
<1>. QED
  BY <1>4 DEF t

LEMMA ExplainedWord ==
  ASSUME tokens \in Seq(Spans), rec0 \in Nat, rec1 \in Nat, NEW e \in Nat,
         AllExplained(tokens), Clean(rec0, e), Clean(rec1, e)
  PROVE  AllExplained(tokens \o Word(e))
<1>1. AllExplained(tokens \o <<<<rec0, e>>>>)
  BY ExplainedOne DEF Explained
<1>2. tokens \o <<<<rec0, e>>>> \in Seq(Spans)
  BY OneMore
<1>3. AllExplained((tokens \o <<<<rec0, e>>>>) \o <<<<rec1, e>>>>)
  BY <1>1, <1>2, ExplainedOne DEF Explained
<1>. QED
  BY <1>1, <1>3, WordSplits

\* The token that is under way will have the character at p, when it is emitted.
Pending(p) == state \in {"Alpha", "Number", "Operator"} /\ rec0 < p

\* What the loop passes in one step, and what becomes of the token under way.
LEMMA PassLoop ==
  ASSUME Inv, PassedInv, i < len, ~done, ~done', UNCHANGED text, i' \in Nat,
         \A p \in 1..len : Reached(tokens, p) => Reached(tokens', p),
         \A p \in 1..len : p <= i /\ Pending(p) => Reached(tokens', p) \/ Pending(p)',
         \A p \in 1..len : p > i /\ p <= i' =>
            isSep(text[p]) \/ (p > 1 /\ text[p - 1] = ":") \/ Pending(p)'
  PROVE  PassedInv'
<1>1. i \in Nat /\ len \in Nat /\ len' = len
  BY LenProperties DEF Inv, len
<1> SUFFICES ASSUME NEW p \in 1..len, p <= i', ~isSep(text[p])
             PROVE  \/ Reached(tokens', p)
                    \/ p > 1 /\ text[p - 1] = ":"
                    \/ Pending(p)'
  BY <1>1 DEF PassedInv, Pending
<1>2. CASE p <= i
  BY <1>2 DEF PassedInv, Pending
<1>3. CASE ~(p <= i)
  BY <1>1, <1>3
<1>. QED
  BY <1>2, <1>3

\* The same for a step that passes one character, the one before the new i.
LEMMA PassOne ==
  ASSUME Inv, PassedInv, i < len, ~done, ~done', UNCHANGED text, i' = i + 1,
         \A p \in 1..len : Reached(tokens, p) => Reached(tokens', p),
         \A p \in 1..len : p <= i /\ Pending(p) => Reached(tokens', p) \/ Pending(p)',
         isSep(cur) \/ (i > 0 /\ text[i] = ":") \/ Pending(i)'
  PROVE  PassedInv'
<1>1. i \in Nat /\ len \in Nat /\ i' \in Nat
  BY LenProperties DEF Inv, len
<1>2. ASSUME NEW p \in 1..len, p > i, p <= i'
      PROVE  isSep(text[p]) \/ (p > 1 /\ text[p - 1] = ":") \/ Pending(p)'
  <2>1. p = i + 1 /\ p - 1 = i
    BY <1>1, <1>2
  <2>2. CASE isSep(cur)
    BY <2>1, <2>2 DEF cur
  <2>3. CASE i > 0 /\ text[i] = ":"
    BY <1>1, <2>1, <2>3
  <2>4. CASE Pending(i)'
    BY <1>1, <2>1, <2>4 DEF Pending
  <2>. QED
    BY <2>2, <2>3, <2>4
<1>. QED
  BY <1>1, <1>2, PassLoop

LEMMA PassedStep ==
  ASSUME Inv, PassedInv, PartsInv, [Next]_vars
  PROVE  PassedInv'
<1>1. /\ i \in Nat /\ rec0 \in Nat /\ rec1 \in Nat /\ len \in Nat
      /\ tokens \in Seq(Spans) /\ RecordsInv /\ i + 1 \in Nat
  BY LenProperties DEF Inv, Good, len
<1>2. CASE None
  <2>1. /\ i < len /\ ~done /\ ~done' /\ UNCHANGED <<text, tokens>> /\ state = "None"
        /\ i' = i + 1 /\ rec0' = i
    BY <1>2 DEF None, Loop
  <2>4. isSep(cur) \/ state' \in {"Alpha", "Number"}
    BY <1>2, Zenon DEF None, isSep
  <2>2. isSep(cur) \/ Pending(i)'
    BY <1>1, <2>1, <2>4 DEF Pending
  <2>3. \A p : ~Pending(p)
    BY <2>1 DEF Pending
  <2>. QED
    BY <2>1, <2>2, <2>3, PassOne
<1>3. CASE AlphaSep \/ NumberSep
  <2>1. /\ i < len /\ ~done /\ ~done' /\ UNCHANGED text /\ isSep(cur)
        /\ i' = i + 1 /\ tokens' = tokens \o Word(i)
    BY <1>1, <1>3 DEF AlphaSep, NumberSep, Loop, emit
  <2>2. ASSUME NEW p \in 1..len, Reached(tokens, p) \/ (rec0 < p /\ p <= i)
        PROVE  Reached(tokens', p)
    BY <1>1, <2>1, <2>2, ReachedWord
  <2>3. \A p \in 1..len : p <= i /\ Pending(p) => Reached(tokens', p)
    BY <2>2 DEF Pending
  <2>. QED
    BY <2>1, <2>2, <2>3, PassOne
<1>4. CASE AlphaPart \/ NumberToAlpha
  <2>1. /\ i < len /\ ~done /\ ~done' /\ UNCHANGED <<text, rec0>>
        /\ state \in {"Alpha", "Number"} /\ state' \in {"Alpha", "Number"}
        /\ i' = i + 1 /\ tokens' = tokens \o <<<<rec1, i>>>>
    <3>1. CASE AlphaPart
      BY <3>1 DEF AlphaPart, Loop, emit
    <3>2. CASE NumberToAlpha
      BY <3>2 DEF NumberToAlpha, Loop, emit
    <3>. QED
      BY <1>4, <3>1, <3>2
  <2>2. ASSUME NEW p \in 1..len, Reached(tokens, p) PROVE Reached(tokens', p)
    BY <1>1, <2>1, <2>2, ReachedOne
  <2>3. Pending(i)' /\ \A p : Pending(p) => Pending(p)'
    BY <1>1, <2>1 DEF RecordsInv, Pending
  <2>. QED
    BY <2>1, <2>2, <2>3, PassOne
<1>5. CASE AlphaUnderscore
  <2>1. /\ i < len /\ ~done /\ ~done' /\ UNCHANGED <<text, rec0, state>> /\ state = "Alpha"
        /\ i' = i + 2 /\ tokens' = tokens \o <<<<rec1, i>>>>
    BY <1>5, Zenon DEF AlphaUnderscore, Loop, emit
  <2>2. ASSUME NEW p \in 1..len, Reached(tokens, p) PROVE Reached(tokens', p)
    BY <1>1, <2>1, <2>2, ReachedOne
  <2>3. \A p : Pending(p) => Pending(p)'
    BY <2>1 DEF Pending
  <2>4. \A p \in 1..len : p > i => Pending(p)'
    BY <1>1, <2>1 DEF RecordsInv, Pending
  <2>5. i' \in Nat
    BY <1>1, <2>1
  <2>. QED
    BY <2>1, <2>2, <2>3, <2>4, <2>5, PassLoop
<1>6. CASE AlphaOther \/ NumberMore
  <2>1. /\ i < len /\ ~done /\ ~done' /\ UNCHANGED <<text, rec0, state, tokens>>
        /\ state \in {"Alpha", "Number"} /\ i' = i + 1
    <3>1. CASE AlphaOther
      BY <3>1, Zenon DEF AlphaOther, Loop
    <3>2. CASE NumberMore
      BY <3>2 DEF NumberMore, Loop
    <3>. QED
      BY <1>6, <3>1, <3>2
  <2>2. Pending(i)' /\ \A p : Pending(p) => Pending(p)'
    BY <1>1, <2>1 DEF RecordsInv, Pending
  <2>. QED
    BY <2>1, <2>2, PassOne
<1>7. CASE Seprator
  <2>1. /\ i < len /\ ~done /\ ~done' /\ UNCHANGED text /\ state = "Seprator" /\ i' = i + 1
        /\ tokens' = tokens \/ tokens' = tokens \o <<<<rec0, i + 1>>>>
    BY <1>7 DEF Seprator, Loop, emit
  <2>2. ASSUME NEW p \in 1..len, Reached(tokens, p) PROVE Reached(tokens', p)
    <3>1. CASE tokens' = tokens
      BY <2>2, <3>1
    <3>2. CASE tokens' = tokens \o <<<<rec0, i + 1>>>>
      BY <1>1, <2>2, <3>2, ReachedOne
    <3>. QED
      BY <2>1, <3>1, <3>2
  <2>3. i > 0 /\ text[i] = ":"
    BY <1>1, <2>1 DEF RecordsInv, PartsInv
  <2>4. \A p : ~Pending(p)
    BY <2>1 DEF Pending
  <2>. QED
    BY <2>1, <2>2, <2>3, <2>4, PassOne
<1>8. CASE Operator /\ cur = "("
  <2>1. /\ i < len /\ ~done /\ ~done' /\ UNCHANGED text /\ i' = i + 1
        /\ tokens' = tokens \o <<<<rec0, i>>>>
    BY <1>8 DEF Operator, Loop, emit
  <2>2. ASSUME NEW p \in 1..len, Reached(tokens, p) \/ (rec0 < p /\ p <= i)
        PROVE  Reached(tokens', p)
    BY <1>1, <2>1, <2>2, ReachedOne
  <2>3. \A p \in 1..len : p <= i /\ Pending(p) => Reached(tokens', p)
    BY <2>2 DEF Pending
  <2>4. isSep(cur)
    BY <1>8, AlphabetAssumption DEF isSep, isTokenChar, isNum
  <2>. QED
    BY <2>1, <2>2, <2>3, <2>4, PassOne
<1>9. CASE Operator /\ cur # "("
  <2>1. /\ i < len /\ ~done /\ ~done' /\ UNCHANGED <<text, rec0, state, tokens>> /\ i' = i + 1
        /\ state = "Operator"
    BY <1>9 DEF Operator, Loop
  <2>2. Pending(i)' /\ \A p : Pending(p) => Pending(p)'
    BY <1>1, <2>1 DEF RecordsInv, Pending
  <2>. QED
    BY <2>1, <2>2, PassOne
<1>10. CASE Return
  <2>1. i >= len /\ ~done /\ done' /\ UNCHANGED <<text, i, rec0, state>> /\ len' = len
    BY <1>10 DEF Return, len
  <2>2. ASSUME NEW p \in 1..len, Reached(tokens, p) \/ Pending(p)
        PROVE  Reached(tokens', p)
    <3>1. CASE state \in {"Alpha", "Number"}
      <4>1. tokens' = tokens \o Word(len)
        BY <1>10, <3>1 DEF Return, emit
      <4>. QED
        BY <1>1, <2>2, <4>1, ReachedWord DEF Pending
    <3>2. CASE state = "Operator"
      <4>1. tokens' = tokens \o <<<<rec0, len>>>>
        BY <1>10, <3>2 DEF Return, emit
      <4>. QED
        BY <1>1, <2>2, <4>1, ReachedOne DEF Pending
    <3>3. CASE state \notin {"Alpha", "Number", "Operator"}
      <4>1. tokens' = tokens
        BY <1>10, <3>3 DEF Return
      <4>. QED
        BY <2>2, <3>3, <4>1 DEF Pending
    <3>. QED
      BY <3>1, <3>2, <3>3
  <2>. QED
    BY <2>1, <2>2 DEF PassedInv, Pending
<1>11. CASE UNCHANGED vars
  <2>1. UNCHANGED <<text, i, rec0, state, tokens, done>> /\ len' = len
    BY <1>11 DEF vars, len
  <2>. QED
    BY <2>1, Zenon DEF PassedInv
<1>. QED
  BY <1>2, <1>3, <1>4, <1>5, <1>6, <1>7, <1>8, <1>9, <1>10, <1>11 DEF Next, Finished

\* A range within the word that is under way.
LEMMA CleanPart ==
  ASSUME Inv, PartsInv, state \in {"Alpha", "Number"},
         NEW b \in Nat, rec0 <= b, NEW e \in Nat, e <= i, e <= len
  PROVE  Clean(b, e)
<1>1. rec0 \in Nat /\ i \in Nat /\ len \in Nat
  BY LenProperties DEF Inv, len
<1> SUFFICES ASSUME NEW p \in b + 1..e, isSep(text[p])
             PROVE  p > 1 /\ text[p - 1] = "_"
  BY DEF Clean
<1>2. p \in rec0 + 1..i /\ p <= len
  BY <1>1
<1>. QED
  BY <1>2 DEF PartsInv

\* What has to be shown of a step: the text, to which the invariant refers, is not
\* changed by any.
LEMMA PartsLoop ==
  ASSUME UNCHANGED text, AllExplained(tokens'),
         state' \in {"Alpha", "Number"} =>
            \A p \in rec0' + 1..i' :
               p <= len /\ isSep(text[p]) => p > 1 /\ text[p - 1] = "_",
         state' = "Seprator" => rec0' = i' - 1 /\ text[i'] = ":",
         state' = "Operator" =>
            \E m \in 1..Len(tokens') :
               Piece(tokens'[m]) = Keyword /\ tokens'[m][2] = rec0'
  PROVE  PartsInv'
<1>1. len' = len
  BY DEF len
<1>2. AllExplained(tokens)'
  BY Zenon DEF AllExplained, Clean, Piece
<1>3. (state = "Operator" =>
         \E m \in 1..Len(tokens) : Piece(tokens[m]) = Keyword /\ tokens[m][2] = rec0)'
  BY Zenon DEF Piece
<1>. QED
  BY <1>1, <1>2, <1>3, Zenon DEF PartsInv

\* The word goes on with one character, which is not a separator.
LEMMA PartsOne ==
  ASSUME Inv, PartsInv, UNCHANGED <<text, rec0>>, i' = i + 1, ~isSep(cur),
         state \in {"Alpha", "Number"}, state' \in {"Alpha", "Number"}, AllExplained(tokens')
  PROVE  PartsInv'
<1>1. rec0 \in Nat /\ i \in Nat /\ len \in Nat
  BY LenProperties DEF Inv, len
<1>2. ASSUME NEW p \in rec0' + 1..i', p <= len, isSep(text[p])
      PROVE  p > 1 /\ text[p - 1] = "_"
  <2>1. p \in rec0 + 1..i \/ p = i + 1
    BY <1>1
  <2>2. p # i + 1
    BY <1>2 DEF cur
  <2>. QED
    BY <1>2, <2>1, <2>2 DEF PartsInv
<1>. QED
  BY <1>2, PartsLoop

LEMMA PartsStep ==
  ASSUME Inv, PartsInv, [Next]_vars
  PROVE  PartsInv'
<1>1. /\ i \in Nat /\ rec0 \in Nat /\ rec1 \in Nat /\ len \in Nat
      /\ tokens \in Seq(Spans) /\ RecordsInv /\ i + 1 \in Nat /\ text \in Seq(Chars)
      /\ AllExplained(tokens)
  <2>1. AllExplained(tokens)
    BY Zenon DEF PartsInv
  <2>. QED
    BY <2>1, LenProperties DEF Inv, Good, len
<1>2. CASE None
  <2>1. UNCHANGED <<text, tokens>> /\ i' = i + 1 /\ rec0' = i
    BY <1>2 DEF None, Loop
  <2>2. \/ state' \in {"Alpha", "Number"} /\ ~isSep(cur)
        \/ state' = "None"
    BY <1>2, Zenon DEF None, isSep
  <2>3. \A p \in rec0' + 1..i' : p = i + 1
    BY <1>1, <2>1
  <2>. QED
    BY <1>1, <2>1, <2>2, <2>3, PartsLoop DEF cur
<1>3. CASE AlphaSep \/ NumberSep
  <2>1. /\ state \in {"Alpha", "Number"} /\ i < len /\ UNCHANGED text
        /\ i' = i + 1 /\ rec0' = i /\ tokens' = tokens \o Word(i)
    BY <1>3 DEF AlphaSep, NumberSep, Loop, emit
  <2>2. Clean(rec0, i) /\ Clean(rec1, i)
    BY <1>1, <2>1, CleanPart DEF RecordsInv
  <2>3. AllExplained(tokens')
    BY <1>1, <2>1, <2>2, ExplainedWord
  <2>4. CASE state' = AfterSep
    <3>1. state' = "None" \/ (state' = "Seprator" /\ cur = ":")
      BY <2>4 DEF AfterSep
    <3>2. rec0' = i' - 1 /\ text[i'] = cur
      BY <1>1, <2>1 DEF cur
    <3>3. state' \notin {"Alpha", "Number", "Operator"}
      BY <3>1
    <3>. QED
      BY <2>1, <2>3, <3>1, <3>2, <3>3, PartsLoop
  <2>5. CASE state' = "Operator" /\ rec0 = rec1 /\ Piece(<<rec0, i>>) = Keyword
    <3>1. tokens' = tokens \o <<<<rec0, i>>>>
      BY <2>1, <2>5 DEF Word
    <3>2. /\ tokens'[Len(tokens) + 1] = <<rec0, i>>
          /\ Len(tokens) + 1 \in 1..Len(tokens')
      <4>1. tokens \in Seq(Spans) /\ rec0 \in Nat /\ i \in Nat
        BY <1>1
      <4>. QED
        BY <3>1, <4>1, OneMore
    <3>. QED
      BY <2>1, <2>3, <2>5, <3>2, PartsLoop, SMTT(30)
  <2>. QED
    BY <1>3, <2>4, <2>5 DEF AlphaSep, NumberSep
<1>4. CASE AlphaPart \/ NumberToAlpha
  <2>1. /\ i < len /\ UNCHANGED <<text, rec0>>
        /\ state \in {"Alpha", "Number"} /\ state' \in {"Alpha", "Number"}
        /\ i' = i + 1 /\ tokens' = tokens \o <<<<rec1, i>>>> /\ ~isSep(cur)
    <3>1. CASE AlphaPart
      BY <3>1 DEF AlphaPart, Loop, emit, isSep, isTokenChar, isUpperCase
    <3>2. CASE NumberToAlpha
      BY <3>2 DEF NumberToAlpha, Loop, emit, isSep
    <3>. QED
      BY <1>4, <3>1, <3>2
  <2>2. Clean(rec1, i)
    BY <1>1, <2>1, CleanPart DEF RecordsInv
  <2>3. AllExplained(tokens')
    BY <1>1, <2>1, <2>2, ExplainedOne DEF Explained
  <2>. QED
    BY <2>1, <2>3, PartsOne
<1>5. CASE AlphaUnderscore
  <2>1. /\ i < len /\ UNCHANGED <<text, rec0, state>> /\ state = "Alpha"
        /\ i' = i + 2 /\ tokens' = tokens \o <<<<rec1, i>>>>
    BY <1>5, Zenon DEF AlphaUnderscore, Loop, emit
  <2>2. Clean(rec1, i)
    BY <1>1, <2>1, CleanPart DEF RecordsInv
  <2>3. AllExplained(tokens')
    BY <1>1, <2>1, <2>2, ExplainedOne DEF Explained
  <2>4. ~isSep(text[i + 1]) /\ text[i + 1] = "_"
    BY <1>5 DEF AlphaUnderscore, cur, isSep, isTokenChar
  <2>6. \A p \in rec0 + 1..i' : p \in rec0 + 1..i \/ p = i + 1 \/ p = i + 2
    BY <1>1, <2>1
  <2>5. ASSUME NEW p \in rec0' + 1..i', p <= len, isSep(text[p])
        PROVE  p > 1 /\ text[p - 1] = "_"
    <3>1. CASE p \in rec0 + 1..i
      BY <2>1, <2>5, <3>1 DEF PartsInv
    <3>2. CASE p = i + 1
      BY <2>4, <2>5, <3>2
    <3>3. CASE p = i + 2
      <4>1. p - 1 = i + 1 /\ p > 1
        BY <1>1, <3>3
      <4>. QED
        BY <2>4, <4>1
    <3>. QED
      BY <2>1, <2>5, <2>6, <3>1, <3>2, <3>3
  <2>. QED
    BY <2>1, <2>3, <2>5, PartsLoop
<1>6. CASE AlphaOther \/ NumberMore
  <2>1. /\ UNCHANGED <<text, rec0, state, tokens>>
        /\ state \in {"Alpha", "Number"} /\ i' = i + 1
    <3>1. CASE AlphaOther
      BY <3>1, Zenon DEF AlphaOther, Loop
    <3>2. CASE NumberMore
      BY <3>2 DEF NumberMore, Loop
    <3>. QED
      BY <1>6, <3>1, <3>2
  <2>2. ~isSep(cur)
    BY <1>6 DEF AlphaOther, NumberMore, isSep, isTokenChar
  <2>. QED
    BY <1>1, <2>1, <2>2, PartsOne
<1>7. CASE Seprator
  <2>1. UNCHANGED text /\ state = "Seprator" /\ state' = "None" /\ i < len
    BY <1>7 DEF Seprator, Loop
  <2>2. CASE cur = ":"
    <3>1. tokens' = tokens \o <<<<rec0, i + 1>>>>
      BY <1>7, <2>2 DEF Seprator, emit
    <3>2. rec0 + 1 = i /\ text[i] = ":" /\ text[i + 1] = ":"
      BY <1>1, <2>1, <2>2 DEF PartsInv, cur
    <3>3. Piece(<<rec0, i + 1>>) = SubSeq(text, rec0 + 1, i + 1)
      BY <3>2 DEF Piece
    <3>4. SubSeq(text, i, i + 1) = <<text[i], text[i + 1]>>
      <4>1. i \in 1..Len(text) /\ i + 1 \in 1..Len(text) + 1 /\ i + 1 <= Len(text)
        BY <1>1, <2>1, <3>2 DEF len
      <4>2. /\ SubSeq(text, i, i + 1) \in Seq(Chars)
            /\ Len(SubSeq(text, i, i + 1)) = 2
            /\ \A k \in 1..2 : SubSeq(text, i, i + 1)[k] = text[i + k - 1]
        <5>1. \A k \in i..i + 1 : text[k] \in Chars
          BY <1>1, <4>1, ElementOfSeq
        <5>2. i \in Int /\ i + 1 \in Int /\ i <= i + 1 /\ ((i + 1) - i) + 1 = 2
          BY <1>1
        <5>. QED
          BY <5>1, <5>2, SubSeqProperties
      <4>3. i + 1 - 1 = i /\ i + 2 - 1 = i + 1
        BY <1>1
      <4>. QED
        <5> DEFINE s == SubSeq(text, i, i + 1)
                   t == <<text[i], text[i + 1]>>
        <5>1. text[i] \in Chars /\ text[i + 1] \in Chars
          BY <1>1, <4>1, ElementOfSeq
        <5>2. t \in Seq(Chars) /\ Len(t) = 2 /\ t[1] = text[i] /\ t[2] = text[i + 1]
          BY <5>1
        <5>3. s[1] = text[i] /\ s[2] = text[i + 1]
          BY <4>2, <4>3
        <5>4. s \in Seq(Chars) /\ Len(s) = 2
          BY <4>2
        <5>. HIDE DEF s, t
        <5>5. s = t
          BY <5>2, <5>3, <5>4, SeqEqual
        <5>. QED
          BY <5>5 DEF s, t
    <3>5. Explained(tokens, rec0, i + 1)
      BY <3>2, <3>3, <3>4, Zenon DEF Explained
    <3>6. AllExplained(tokens')
      BY <1>1, <3>1, <3>5, ExplainedOne
    <3>. QED
      BY <2>1, <3>6, PartsLoop
  <2>3. CASE cur # ":"
    <3>1. tokens' = tokens
      BY <1>7, <2>3 DEF Seprator
    <3>. QED
      BY <1>1, <2>1, <3>1, PartsLoop
  <2>. QED
    BY <2>2, <2>3
<1>8. CASE Operator
  <2>1. UNCHANGED <<text, rec0>> /\ state = "Operator"
    BY <1>8 DEF Operator, Loop
  <2>2. CASE cur = "("
    <3>1. tokens' = tokens \o <<<<rec0, i>>>> /\ state' = "None"
      BY <1>8, <2>2 DEF Operator, emit
    <3>2. Explained(tokens, rec0, i)
      BY <2>1 DEF Explained, PartsInv
    <3>3. AllExplained(tokens')
      BY <1>1, <3>1, <3>2, ExplainedOne
    <3>. QED
      BY <2>1, <3>1, <3>3, PartsLoop
  <2>3. CASE cur # "("
    <3>1. UNCHANGED <<tokens, state>>
      BY <1>8, <2>3 DEF Operator
    <3>2. \E m \in 1..Len(tokens') :
            Piece(tokens'[m]) = Keyword /\ tokens'[m][2] = rec0'
      BY <2>1, <3>1 DEF PartsInv
    <3>. QED
      BY <1>1, <2>1, <3>1, <3>2, PartsLoop
  <2>. QED
    BY <2>2, <2>3
<1>9. CASE Return
  <2>1. i >= len /\ UNCHANGED <<text, i, rec0, state>>
    BY <1>9 DEF Return
  <2>2. CASE state \in {"Alpha", "Number"}
    <3>1. tokens' = tokens \o Word(len)
      BY <1>9, <2>2 DEF Return, emit
    <3>2. Clean(rec0, len) /\ Clean(rec1, len)
      BY <1>1, <2>1, <2>2, CleanPart DEF RecordsInv
    <3>3. AllExplained(tokens')
      BY <1>1, <3>1, <3>2, ExplainedWord
    <3>4. \A p \in rec0' + 1..i' :
             p <= len /\ isSep(text[p]) => p > 1 /\ text[p - 1] = "_"
      BY <2>1, <2>2 DEF PartsInv
    <3>. QED
      BY <2>1, <2>2, <3>3, <3>4, PartsLoop
  <2>3. CASE state = "Operator"
    <3>1. tokens' = tokens \o <<<<rec0, len>>>>
      BY <1>9, <2>3 DEF Return, emit
    <3>2. Explained(tokens, rec0, len)
      BY <2>3 DEF Explained, PartsInv
    <3>3. AllExplained(tokens')
      BY <1>1, <3>1, <3>2, ExplainedOne
    <3>4. PICK m \in 1..Len(tokens) : Piece(tokens[m]) = Keyword /\ tokens[m][2] = rec0
      BY <2>3 DEF PartsInv
    <3>5. m \in 1..Len(tokens') /\ tokens'[m] = tokens[m]
      BY <1>1, <3>1, OneMore
    <3>. QED
      BY <2>1, <2>3, <3>3, <3>4, <3>5, PartsLoop
  <2>4. CASE state \notin {"Alpha", "Number", "Operator"}
    <3>1. tokens' = tokens
      BY <1>9, <2>4 DEF Return
    <3>2. state' = "Seprator" => rec0' = i' - 1 /\ text[i'] = ":"
      BY <2>1 DEF PartsInv
    <3>. QED
      BY <1>1, <2>1, <2>4, <3>1, <3>2, PartsLoop
  <2>. QED
    BY <2>2, <2>3, <2>4
<1>10. CASE UNCHANGED vars
  <2>1. UNCHANGED <<text, i, rec0, state, tokens>> /\ len' = len
    BY <1>10 DEF vars, len
  <2>. QED
    BY <2>1, Zenon DEF PartsInv, AllExplained, Clean, Piece
<1>. QED
  BY <1>2, <1>3, <1>4, <1>5, <1>6, <1>7, <1>8, <1>9, <1>10 DEF Next, Finished

LEMMA PartsInvariance == Spec => [](Inv /\ PassedInv /\ PartsInv)
<1>1. Init => PassedInv /\ PartsInv
  <2> SUFFICES ASSUME Init PROVE PassedInv /\ PartsInv
    OBVIOUS
  <2>1. tokens = <<>> /\ Len(tokens) = 0 /\ i = 0 /\ ~done /\ state = "None"
    BY DEF Init
  <2>2. \A n : n \notin 1..Len(tokens)
    BY <2>1
  <2>3. PassedInv
    BY <2>1 DEF PassedInv
  <2>. QED
    BY <2>1, <2>2, <2>3, Zenon DEF PartsInv, AllExplained
<1>. QED
  BY <1>1, InitInv, StepInv, PassedStep, PartsStep, PTL DEF Spec

-----------------------------------------------------------------------------
(* The guarantees.                                                           *)

\* What the tokenizer hands to the index lies inside the text, whatever the text.
THEOREM TokensStayInText == Spec => []TokensInText
<1>1. ASSUME Inv, NEW n \in 1..Len(tokens)
      PROVE  /\ 0 <= tokens[n][1]
             /\ tokens[n][1] <= tokens[n][2]
             /\ tokens[n][2] <= len
  <2>1. tokens[n] \in Spans
    BY <1>1, ElementOfSeq DEF Inv, Good
  <2>. QED
    BY <1>1, <2>1 DEF Inv, Good, Spans
<1>2. Inv => DOMAIN tokens = 1..Len(tokens)
  BY LenProperties DEF Inv, Good
<1>3. Inv => TokensInText
  BY <1>1, <1>2 DEF TokensInText
<1>. QED
  BY <1>3, Invariance, PTL

\* The index gets the tokens in the order in which they end, whatever the text.
THEOREM TokensEndInOrder == Spec => []EndsInOrder
<1>1. Inv => DOMAIN tokens = 1..Len(tokens)
  BY LenProperties DEF Inv, Good
<1>2. Inv => EndsInOrder
  BY <1>1 DEF Inv, Good, EndsInOrder
<1>. QED
  BY <1>2, Invariance, PTL

\* Every variable keeps its type.
THEOREM TokenizerTypes == Spec => []TypeOK
<1>1. Inv => TypeOK
  BY DEF Inv, Good, Spans, TypeOK
<1>. QED
  BY <1>1, Invariance, PTL

\* The recorded positions stand to the loop's position as the emissions need it,
\* whatever the text (SymbolTokenizer.cpp:60-112).
THEOREM RecordsInOrder == Spec => []RecordsInv
<1>1. Inv => RecordsInv
  BY DEF Inv
<1>. QED
  BY <1>1, Invariance, PTL

\* No letter, digit, $ or _ of a name is missing from the tokens, whatever the text,
\* except after a colon (SymbolTokenizer.cpp:60-112).
THEOREM NothingIsLost == Spec => []NothingLost
<1>1. ASSUME Inv, PassedInv PROVE NothingLost
  <2> SUFFICES ASSUME done, NEW p \in 1..len, ~isSep(text[p])
               PROVE  \/ \E n \in DOMAIN tokens : tokens[n][1] < p /\ p <= tokens[n][2]
                      \/ p > 1 /\ text[p - 1] = ":"
    BY DEF NothingLost
  <2>1. i \in Nat /\ len \in Nat /\ DOMAIN tokens = 1..Len(tokens)
    BY <1>1, LenProperties DEF Inv, Good, len
  <2>2. p <= i
    BY <1>1, <2>1 DEF PassedInv
  <2>3. Reached(tokens, p) \/ (p > 1 /\ text[p - 1] = ":")
    BY <1>1, <2>2 DEF PassedInv
  <2>. QED
    BY <2>1, <2>3 DEF Reached
<1>. QED
  BY <1>1, PartsInvariance, PTL

\* The only tokens with a separator are "::", the name of an operator, and those with
\* an underscore in them or before them, whatever the text (SymbolTokenizer.cpp:60-112).
THEOREM SeparatorsStayOut == Spec => []WordsOnly
<1>1. ASSUME Inv, PartsInv PROVE WordsOnly
  <2>1. DOMAIN tokens = 1..Len(tokens) /\ text \in Seq(Chars) /\ len \in Nat
    BY <1>1, LenProperties DEF Inv, Good, len
  <2> SUFFICES ASSUME NEW n \in 1..Len(tokens), NEW p \in DOMAIN Piece(tokens[n]),
                      isSep(Piece(tokens[n])[p])
               PROVE  \/ Piece(tokens[n]) = <<":", ":">>
                      \/ \E q \in DOMAIN Piece(tokens[n]) : Piece(tokens[n])[q] = "_"
                      \/ tokens[n][1] > 0 /\ text[tokens[n][1]] = "_"
                      \/ \E m \in 1..n-1 :
                            Piece(tokens[m]) = Keyword /\ tokens[m][2] = tokens[n][1]
    BY <2>1, Zenon DEF WordsOnly
  <2> DEFINE b == tokens[n][1]
             e == tokens[n][2]
             piece == Piece(tokens[n])
  <2>0. p \in DOMAIN piece /\ isSep(piece[p])
    OBVIOUS
  <2>2. CASE ~Clean(b, e)
    BY <1>1, <2>2, Zenon DEF PartsInv, AllExplained
  <2>3. CASE Clean(b, e)
    <3>1. b \in Nat /\ e \in Nat /\ b <= e /\ e <= len
      <4>1. tokens[n] \in Spans
        BY <1>1, ElementOfSeq DEF Inv, Good
      <4>. QED
        BY <1>1, <4>1 DEF Inv, Good, Spans
    <3>2. /\ DOMAIN piece = 1..e - b
          /\ \A q \in 1..e - b : piece[q] = text[b + q]
      <4>1. piece = SubSeq(text, b + 1, e)
        BY DEF Piece
      <4>. HIDE DEF b, e, piece
      <4>2. /\ b + 1 \in Int /\ e \in Int /\ (e - (b + 1)) + 1 = e - b /\ e - b \in Nat
            /\ IF b + 1 <= e THEN TRUE ELSE e - b = 0
            /\ \A q \in 1..e - b : ((b + 1) + q) - 1 = b + q
        BY <3>1
      <4>3. \A q \in b + 1..e : text[q] \in Chars
        <5>1. b + 1..e \subseteq 1..Len(text)
          BY <3>1, <2>1 DEF len
        <5>. QED
          BY <5>1, <2>1, ElementOfSeq
      <4>4. /\ piece \in Seq(Chars)
            /\ Len(piece) = e - b
            /\ \A q \in 1..e - b : piece[q] = text[b + q]
        BY <4>1, <4>2, <4>3, SubSeqProperties
      <4>. QED
        BY <4>4, LenProperties
    <3>3. b + p \in b + 1..e /\ isSep(text[b + p]) /\ p \in Nat
      <4>. HIDE DEF b, e, piece
      <4>. QED
        BY <2>0, <3>1, <3>2
    <3>4. b + p > 1 /\ text[(b + p) - 1] = "_"
      <4>1. \A q \in b + 1..e : isSep(text[q]) => q > 1 /\ text[q - 1] = "_"
        BY <2>3, Zenon DEF Clean
      <4>. HIDE DEF b, e, piece
      <4>. QED
        BY <3>3, <4>1
    <3>5. CASE p = 1
      <4>1. (b + p) - 1 = b /\ b + p = b + 1
        BY <3>1, <3>5
      <4>2. b > 0 /\ text[b] = "_"
        <5>1. text[b] = "_"
          BY <3>4, <4>1, Zenon
        <5>2. b + 1 > 1
          BY <3>4, <4>1, Zenon
        <5>3. b > 0
          BY <3>1, <5>2
        <5>. QED
          BY <5>1, <5>3, Zenon
      <4>. QED
        BY <4>2, Zenon
    <3>6. CASE p # 1
      <4>1. p - 1 \in 1..e - b /\ b + (p - 1) = (b + p) - 1
        <5>1. p \in 1..e - b
          BY <2>0, <3>2, Zenon
        <5>. HIDE DEF b, e, piece
        <5>. QED
          BY <3>1, <3>6, <5>1
      <4>2. piece[p - 1] = text[b + (p - 1)]
        BY <3>2, <4>1, Zenon
      <4>3. piece[p - 1] = "_" /\ p - 1 \in DOMAIN piece
        BY <3>2, <3>4, <4>1, <4>2, Zenon
      <4>. QED
        BY <4>3, Zenon
    <3>. QED
      BY <3>5, <3>6
  <2>. QED
    BY <2>2, <2>3
<1>. QED
  BY <1>1, PartsInvariance, PTL
=============================================================================
