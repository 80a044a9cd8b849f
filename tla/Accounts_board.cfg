SPECIFICATION Spec
CONSTANTS
  s1 = s1
  s2 = s2
  joe = joe
  guest = guest
  root = root
  f1 = f1
  Sessions = {s1, s2}
  Users = {joe, guest, root}
  Sysop = root
  Guest = guest
  Ip <- MCIp
  Calls <- MCCalls
  Names = {f1}
  MaxPw = 1
  MaxCredits = 1
  DefaultCredits = 1
  Price = 1
  Cost = 1
  DlOneDay = 1
  RatioDen = 2
  CheckDupes = TRUE
  Slots = 1
  MaxLogin = 1
  MaxRecovery = 1
  MaxFiles = 1
  MaxWork = 7
INVARIANT AccountsInv
CHECK_DEADLOCK FALSE
