CONSTANTS
  s1 = s1  s2 = s2  c1 = c1  c2 = c2  c3 = c3  p1 = p1  p2 = p2  p3 = p3
  Names <- MCNames
  Typed <- MCTyped
  Initial <- MCInitial
  MaxId = 4
  ListMax = 2
  WarnSlots = 2
  Hour = 1 Day = 4 Week = 5 Month = 5
  MaxClock = 4  MaxCrashes = 1  MaxEdits = 1
  Columns <- MCColumns
  OldColumns <- MCOldColumns
  Sessions <- MCSessions
  Limit = 2
  Amounts <- MCAmounts
  Stored <- MCStored
  Recent <- MCRecent
  Unsafe <- MCUnsafe
  PurgeMax = 2
  MaxClock2 = 1  MaxCalls = 2  MaxBanked = 2  MaxLeft = 2  MaxFaults = 1
  Terms <- MCTerms
  Callers <- MCCallers
SPECIFICATION Spec
INVARIANTS UpkeepInv EventsInv AcsMeaning
PROPERTY DueRuns
CHECK_DEADLOCK FALSE
