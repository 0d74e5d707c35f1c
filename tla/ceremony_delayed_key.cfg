SPECIFICATION Spec
CONSTANTS
  a = a
  b = b
  c = c
  Users <- Two
  Delayed <- One
  Skippers <- None
  Silent = 0
  Flips <- OneOrTwo
  Modes <- LaterOnly
  Slots = 2
  Blocks <- NextBlock
  Lottery = 60
  Start = 90
  Finish = 150
  LongEnd = 210
  End = 212
  Slack = 1
  Poll = 4
  Mining = 10
  KeyDelay = 18
  Waits <- ShortestAndLongest
  Delays <- AtOnceOrLate
  Lead = 10
  AllowShort = 3
  AllowLong = 10
  MaxFaults = 0
INVARIANTS DelayedKeyProvided
