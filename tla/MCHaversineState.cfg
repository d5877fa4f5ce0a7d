SPECIFICATION Spec
CONSTANTS
  Strings <- MCStrings
  Alphabet <- MCAlphabet
  Files <- MCFiles
  Bare <- MCBare
  MaxTokens = 11
INVARIANTS OneOwner TreeIsDocument StopsAtFirstError  ReleasedOnce PairsAreTheFiles OutcomeIsDeserved
PROPERTY RunEnds
