SPECIFICATION Spec
CONSTANTS
    s1 = s1
    s2 = s2
    u1 = u1
    u2 = u2
    k1 = k1
    Sessions = {s1, s2}
    Consoles = {k1}
    Users = {u1, u2}
    User <- MCUser
    Sysops = {s1}
    Quiet = {s1}
    Rooms = {1}
    Lobby = 1
    Closed = {}
    NoUser = NoUser
    NoRoom = 0
    NoThread = NoThread
    Capacity = 2
    Batch = 1
    MaxUsers = 2
    MaxReplied = 1
    May <- MCMay
    MaxCommands = 2
INVARIANTS InboxInv BlockHonoured
PROPERTY Departs
CHECK_DEADLOCK FALSE
