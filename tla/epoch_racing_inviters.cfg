SPECIFICATION FairSpec
CONSTANTS
  GodMode = FALSE
  MaxEpoch = 1
  Before <- Before2
  After <- AfterRacing
  Skips <- None
  Switches <- SwitchAll
  Faulty <- User1
  Patient = FALSE
PROPERTIES WaitEnds
