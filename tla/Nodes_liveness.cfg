SPECIFICATION FairSpec
CONSTANTS
    Sessions = {s1, s2}
    Users = {u1}
    Consoles = {c1}
    Tools = {}
    Aimed = {1}
    JanitorRuns = TRUE
    MaxOnline = 1
    AllowMultiLogin = FALSE
    IdleLimit = TRUE
    MaxCommands = 1
    MaxHalts = 1
    NoSession = NoSession
    NoUser = NoUser
    NoRow = NoRow
INVARIANTS
    RowNamesWorker
PROPERTIES
    
    
    OnlineRowReconciled
CHECK_DEADLOCK FALSE
