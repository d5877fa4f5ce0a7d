SPECIFICATION FairSpec
CONSTANT Sources <- MCSources
INVARIANTS ViewInside TokensAreLexemes
PROPERTY TokenizationEnds
