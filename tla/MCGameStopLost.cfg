SPECIFICATION Spec
CONSTANTS
    Player = {p1, p2, p3}
    NoPlayer = NoPlayer
    MinPlayers = 3
SYMMETRY Symmetry
CONSTRAINT FewUnheard
INVARIANTS
    StopsByPresence
