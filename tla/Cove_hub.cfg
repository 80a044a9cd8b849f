SPECIFICATION FairSpec
CONSTANTS
    b1 = b1
    b2 = b2
    o1 = o1
    o2 = o2
    down = down
    up = up
    NoLink = NoLink
    NoBundle = NoBundle
    NoProcess = NoProcess
    Importers = {i1, i2}
    Bundles = {b1, b2}
    Objects = {o1, o2}
    Links = {down, up}
    Content <- MCContent
    Offline <- MCOffline
    Via <- MCVia
    Wants <- MCWants
    Upstream <- MCUpstream
    MaxImports = 2
    MaxRescans = 1
    MaxCrashes = 1
INVARIANTS
    TypeOK
    JournalExact
    NoEcho
    OutboundOnce
    SentIsQueued
PROPERTIES
    FanoutDelivered
