SPECIFICATION FairSpec
CONSTANTS
  s = s
  r1 = r1
  r2 = r2
  ThreadSets <- OneOrTwoCallers
  Callers <- All
  Switchers <- One
  Exiters <- One
  Attempts = 2
  MaxPid = 5
  MaxStops = 2
  MaxCrashes = 2
INVARIANTS NoOrphan NothingSurvives Managed
PROPERTIES CallEnds
