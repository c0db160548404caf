------------------------- MODULE MCSymbolTokenizer -------------------------
(* Every text of up to five characters over one or two characters of each     *)
(* kind; the word "operator" is "op".                                         *)
EXTENDS SymbolTokenizer

MaxLen == 5
Word2 == <<"o", "p">>
AllTexts == UNION {[1..n -> {"o", "p", "U", "0", " ", "$", "_", ":", "("}] : n \in 0..MaxLen}
=============================================================================
