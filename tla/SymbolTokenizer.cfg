CONSTANTS
  Lower = {"o", "p"}
  Upper = {"U"}
  Digit = {"0"}
  Other = {" "}
  Keyword <- Word2
  Texts <- AllTexts
SPECIFICATION Spec
INVARIANTS TypeOK RecordsInv TokensInText EndsInOrder NothingLost WordsOnly
