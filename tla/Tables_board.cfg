CONSTANTS
  u1 = u1  u2 = u2  u3 = u3  a = a  b = b  k1 = k1  k2 = k2
  Users <- MCUsers
  Sysops <- MCSysops
  Restricted <- MCRestricted
  RowNames <- MCNames
  Keys <- MCKeys
  InUse <- MCInUse
  VoteMax = 2
  MaxVotes = 2  MaxChoices = 3  MaxRows = 2  MaxItems = 2  MaxWork = 3
SPECIFICATION Spec
SYMMETRY MCSymmetry
INVARIANTS TablesInv ShareBounded
CHECK_DEADLOCK FALSE
