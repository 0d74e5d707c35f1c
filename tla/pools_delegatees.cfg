SPECIFICATION Spec
CONSTANTS
  b1 = b1
  b2 = b2
  Bots <- TwoBots
  Rounds = 2
  Count = 2
  Share = 2
  Sizes <- TwoPools
  Tries = 1
INVARIANTS DelegateeAsSet
