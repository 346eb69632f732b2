SPECIFICATION FairSpec
CONSTANTS
    Fence = {f1}
    Watch = {1, 2}
    NoWatch = 0
PROPERTIES
    CancelledGamesLeave
