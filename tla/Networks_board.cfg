SPECIFICATION Spec
CONSTANTS
  s1 = s1
  s2 = s2
  s3 = s3
  joe = joe
  root = root
  sue = sue
  general = general
  ideas = ideas
  Sessions = {s1, s2, s3}
  Users = {joe, root, sue}
  Who <- MCWho
  Sysops = {root, sue}
  Flagged = {joe}
  AreaNames = {general, ideas}
  InboxMax = 1
  PerArea = 2
  MaxMsgs = 3
  MaxAreas = 2
  MaxSms = 1
  MaxTime = 2
  MaxWork = 6
  MaxAkas = 2
  MaxNet = 1
  MaxCrashes = 1
INVARIANTS NetworksInv ThreadWhole QwkOnce
CONSTRAINT Second
CHECK_DEADLOCK FALSE
