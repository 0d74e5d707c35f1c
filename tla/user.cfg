SPECIFICATION UserSpec
CONSTANTS
  N = 4
  Truth <- AlternatingTruth
  Grades <- EveryKind
  BotModes <- AllModes
  Even <- EvenPositions
  AddressLen = 4
  Identities <- SomeIdentities
  Overrides <- SomeOverrides
  NoOverride = NoOverride
  MaxEpoch = 1
  MaxFaults = 1
  Onlines <- SomeOnlines
  Offlines <- SomeOfflines
  Validation = 8
  Margin = 5
  Pause = 1
  Longest = 2
  MaxTestIndex = 5
INVARIANTS ReportsCapped AnsweredAsIntended ExtrasReplace SlotsUsed
   WordsOfTheFlip SwitchesByItselfOnce TimeForFlips
