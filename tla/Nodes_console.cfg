SPECIFICATION Spec
CONSTANTS
    Sessions = {s1, s2, s3}
    Users = {u1}
    Consoles = {c1}
    Tools = {t1}
    Aimed = {1}
    JanitorRuns = FALSE
    MaxOnline = 2
    AllowMultiLogin = FALSE
    IdleLimit = TRUE
    MaxCommands = 0
    MaxHalts = 0
    NoSession = NoSession
    NoUser = NoUser
    NoRow = NoRow
SYMMETRY Symmetric
INVARIANTS
    TypeOK
    RegistryExact
    AdmissionExact
    SlotForAdmitted
CHECK_DEADLOCK FALSE
