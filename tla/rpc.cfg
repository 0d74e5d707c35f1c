SPECIFICATION FairSpec
CONSTANTS
  a = a
  b = b
  Nobody = Nobody
  Threads <- TwoThreads
  Attempts = 2
  MaxCalls = 1
  MaxFaults = 2
INVARIANTS AtMostOnce OneChangeAtATime
PROPERTIES CallsEnd
