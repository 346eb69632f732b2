SPECIFICATION Spec
CONSTANTS
    Conn = {c1, c2}
    Caller = {b1}
    NoProc = NoProc
INVARIANTS
    BroadcastReachesAll
