SPECIFICATION FairSpec
CONSTANTS
    Player = {p1, p2}
    NoPlayer = NoPlayer
    MinPlayers = 2
PROPERTIES
    ImplementsFairRound
    BriefedHearInTheEnd
    GoroutinesEnd
CONSTRAINT OneAstray
