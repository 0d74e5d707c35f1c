SPECIFICATION FairSpec
CONSTANTS
  j = j
  k = k
  g = g
  o = o
  Nobody = Nobody
  Jobs <- TwoJobs
  Groups <- OneJob
  Generators <- OneGenerator
  Switchers <- OneSwitcher
  Size <- Sizes
  MaxGenerated = 1
  MaxFaults = 1
INVARIANTS CollisionsExplained
PROPERTIES ImplementsAccount EveryoneEnds
