SPECIFICATION Spec
CONSTANTS
    Player = {p1, p2, p3}
    NoPlayer = NoPlayer
    Dist = {0, 1, 2, 99, 150}
INVARIANTS
    PointsArePerPlayer
