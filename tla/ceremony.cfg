SPECIFICATION Spec
CONSTANTS
  a = a
  b = b
  c = c
  Users <- Three
  Delayed <- Last
  Skippers <- One
  Silent = 1
  Flips <- OneOrTwo
  Modes <- EveryMode
  Slots = 2
  Blocks <- NextBlock
  Lottery = 60
  Start = 90
  Finish = 150
  LongEnd = 210
  End = 212
  Slack = 1
  Poll = 4
  Mining = 10
  KeyDelay = 18
  Waits <- ShortestAndLongest
  Delays <- AtOnceOrLate
  Lead = 10
  AllowShort = 3
  AllowLong = 10
  MaxFaults = 1
INVARIANTS AnswersInTime NobodyHangs KeysInOrder
