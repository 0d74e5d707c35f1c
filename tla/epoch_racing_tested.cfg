SPECIFICATION Spec
CONSTANTS
  GodMode = FALSE
  MaxEpoch = 0
  Before <- Before2
  After <- AfterRacing
  Skips <- None
  Switches <- None
  Faulty <- None
  Patient = FALSE
INVARIANTS TestedOnce
