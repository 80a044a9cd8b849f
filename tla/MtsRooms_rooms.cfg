CONSTANTS
    Callers = {"sys", "bob"}
    Sysops = {"sys"}
    Consoles = {"con"}
    NoUser = "nobody"
    Names <- TheNames
    Norm <- TheNorm
    Configs <- TheConfigs
    MaxRooms = 3
    PerUser = 2
    MaxUsers = 2
    May <- TheMay
    Lost = {"bob"}
    Offered <- TheOffers
    MaxRoom = 3
    MaxCommands = 3
SPECIFICATION RoomsSpec
CHECK_DEADLOCK FALSE
INVARIANT RoomsInv
PROPERTIES Admitted EndsEmpty
