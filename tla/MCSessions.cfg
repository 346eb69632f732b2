SPECIFICATION FairSpec
CONSTANTS
    Conn = {a, p}
    Admin = {a}
    NoConn = NoConn
CONSTRAINT OneCause
INVARIANTS
    TypeOK
    NobodyIsInvisible
    OpenPlayersAreStored
    GhostsHaveACause
    StalePagesHaveACause
PROPERTIES
    ClosedPlayersDepart
