SPECIFICATION FairSpec
CONSTANTS
    Player = {p1, p2}
    NoId = NoId
    Chunk = 4
    MaxSent = 3
INVARIANTS
    TypeOK
    ViewIsExact
    LeaksAreFailedHandshakes
PROPERTIES
    CancelledStreamsEnd
