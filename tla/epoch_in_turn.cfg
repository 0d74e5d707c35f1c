SPECIFICATION FairSpec
CONSTANTS
  GodMode = TRUE
  MaxEpoch = 1
  Before <- Before2and1
  After <- AfterInTurn
  Skips <- SkipFirst
  Switches <- None
  Faulty <- None
  Patient = TRUE
INVARIANTS TypeOK SessionsCompleted TestedOnce NoPanic
PROPERTIES ImplementsBarrier ScenarioCompletes
