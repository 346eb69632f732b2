SPECIFICATION FairSpec
CONSTANTS
    Fence = {f1}
    Watch = {1, 2}
    NoWatch = 0
CONSTRAINTS
    Running
    InOrder
    OneCancel
    NoIdleTurn
INVARIANTS
    LiveGamesAreRegistered
    RoundsAreNotCutShort
    FailuresAreFatal
PROPERTIES
    WatchesEnd
    PlayedGamesLeave
